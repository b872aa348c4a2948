-------------------------- MODULE ActivityRouteProofs --------------------------
(***************************************************************************)
(* Proofs about ActivityRoute and PublicApi, for any sets of clients, keys *)
(* and requests, any limits and windows.                                   *)
(*                                                                         *)
(* The map of the limiter: the overflow key is the only one that may enter *)
(* a full map, so the map without it never exceeds MaxBuckets.  Its        *)
(* counts: what a bucket counts was called for since its window began, and *)
(* what was admitted in a window is what the buckets that served it count. *)
(* The cache: who fetches owns the promise of its key, and a key is quiet  *)
(* because it is being fetched or because its result is still there; its   *)
(* order lists its keys, each once, whatever is filtered out of it.        *)
(***************************************************************************)
EXTENDS ActivityRoute, PublicApi, SharedProofs, FiniteSetTheorems, TLAPS

\* A map the limiter can have: at most MaxBuckets keys beside the overflow.
Bounded(b) ==
    /\ IsFiniteSet(DOMAIN b)
    /\ Cardinality(DOMAIN b \ {Overflow}) <= MaxBuckets

-----------------------------------------------------------------------------
\* Pruning only removes keys.
LEMMA SweptBounded ==
    ASSUME NEW b, NEW ops, Bounded(b)
    PROVE  Bounded(Swept(b, ops))
<1> DEFINE D == {k \in DOMAIN b : b[k].resetAt > now}
<1>1. DOMAIN Pruned(b) = D
  BY DEF Pruned, Restrict
<1>2. IsFiniteSet(D)
  <2>1. D \subseteq DOMAIN b
    OBVIOUS
  <2> QED
    BY <2>1, FS_Subset DEF Bounded
<1>3. Cardinality(D \ {Overflow}) <= MaxBuckets
  <2>1. D \ {Overflow} \subseteq DOMAIN b \ {Overflow}
    OBVIOUS
  <2>2. IsFiniteSet(DOMAIN b \ {Overflow})
    BY FS_Subset DEF Bounded
  <2>3. Cardinality(D \ {Overflow}) <= Cardinality(DOMAIN b \ {Overflow})
    BY <2>1, <2>2, FS_Subset
  <2>4. /\ Cardinality(D \ {Overflow}) \in Nat
        /\ Cardinality(DOMAIN b \ {Overflow}) \in Nat
    BY <2>1, <2>2, FS_Subset, FS_CardinalityType
  <2> QED
    BY <2>3, <2>4, GuardAssumption DEF Bounded
<1>4. Bounded(Pruned(b))
  BY <1>1, <1>2, <1>3 DEF Bounded
<1> QED
  BY <1>4 DEF Swept

\* A call of consume adds its key to a map with room, or the overflow key.
LEMMA ConsumedBounded ==
    ASSUME NEW b, NEW key, NEW window, Bounded(b)
    PROVE  Bounded(Consumed(b, key, window))
<1> DEFINE k == BoundedKey(b, key)
           D == DOMAIN b
<1>1. DOMAIN Consumed(b, key, window) = D \cup {k}
  BY DEF Consumed
<1>2. IsFiniteSet(D) /\ IsFiniteSet(D \cup {k}) /\ Cardinality(D) \in Nat
  BY FS_AddElement, FS_CardinalityType DEF Bounded
<1>3. CASE k \in D \/ k = Overflow
  <2>1. (D \cup {k}) \ {Overflow} = D \ {Overflow}
    BY <1>3
  <2> QED
    BY <1>1, <1>2, <2>1 DEF Bounded
<1>4. CASE ~ (k \in D \/ k = Overflow)
  <2>1. Cardinality(D) < MaxBuckets
    BY <1>4 DEF BoundedKey
  <2>2. Cardinality(D \cup {k}) = Cardinality(D) + 1
    BY <1>2, <1>4, FS_AddElement
  <2>3. (D \cup {k}) \ {Overflow} \subseteq D \cup {k}
    OBVIOUS
  <2>4. Cardinality((D \cup {k}) \ {Overflow}) <= Cardinality(D \cup {k})
    BY <1>2, <2>3, FS_Subset
  <2>5. Cardinality((D \cup {k}) \ {Overflow}) \in Nat
    BY <1>2, <2>3, FS_Subset, FS_CardinalityType
  <2>6. Cardinality((D \cup {k}) \ {Overflow}) <= MaxBuckets
    BY <1>2, <2>1, <2>2, <2>4, <2>5, GuardAssumption
  <2> QED
    BY <1>1, <1>2, <2>6 DEF Bounded
<1> QED
  BY <1>3, <1>4

\* Whatever a request does to the map, it does it by sweeping and consuming.
LEMMA GuardBounded ==
    ASSUME Bounded(buckets), [Next]_vars
    PROVE  Bounded(buckets')
<1>1. Bounded(ForClient)
  BY SweptBounded DEF ForClient
<1>2. ASSUME NEW s, NEW c \in Client
      PROVE  Bounded(ForGlobal(s, c))
  <2>1. Bounded(Consumed(ForClient, ClientKey(s, c), Policy[s].windowMs))
    BY <1>1, ConsumedBounded
  <2> QED
    BY <2>1, SweptBounded DEF ForGlobal
<1>3. ASSUME NEW s, NEW c \in Client, Admit(s, c)
      PROVE  Bounded(buckets')
  <2>1. Bounded(Consumed(ForGlobal(s, c), GlobalKey(s), Policy[s].globalWindowMs))
    BY <1>2, ConsumedBounded
  <2> QED
    BY <1>3, <2>1 DEF Admit
<1>4. ASSUME NEW s, NEW c \in Client, DenyClient(s, c)
      PROVE  Bounded(buckets')
  BY <1>1, <1>4 DEF DenyClient
<1>5. ASSUME NEW s, NEW c \in Client, DenyGlobal(s, c)
      PROVE  Bounded(buckets')
  BY <1>2, <1>5 DEF DenyGlobal
<1>6. CASE UNCHANGED buckets
  BY <1>6
<1> QED
  BY <1>3, <1>4, <1>5, <1>6
  DEF Next, vars, guardVars, Refuse, Get, Advance, Tick

\* request-guard.server.ts:46: the map of buckets is bounded, for every
\* number of clients and every sequence of calls.
THEOREM KeyspaceIsBounded == Spec => []KeyspaceBounded
<1>1. Init => Bounded(buckets)
  <2> SUFFICES ASSUME Init PROVE Bounded(buckets)
    OBVIOUS
  <2>1. DOMAIN buckets = {}
    BY DEF Init, GuardInit
  <2>2. {} \ {Overflow} = {}
    OBVIOUS
  <2> QED
    BY <2>1, <2>2, FS_EmptySet, GuardAssumption DEF Bounded
<1>2. Bounded(buckets) /\ [Next]_vars => Bounded(buckets)'
  BY GuardBounded DEF Bounded
<1>3. Bounded(buckets) => KeyspaceBounded
  <2> SUFFICES ASSUME Bounded(buckets) PROVE KeyspaceBounded
    OBVIOUS
  <2> DEFINE D == DOMAIN buckets
             E == D \ {Overflow}
  <2>1. IsFiniteSet(E) /\ Cardinality(E) \in Nat
    BY FS_Subset, FS_CardinalityType DEF Bounded
  <2>2. /\ IsFiniteSet(E \cup {Overflow})
        /\ Cardinality(E \cup {Overflow}) = Cardinality(E) + 1
    BY <2>1, FS_AddElement
  <2>3. D \subseteq E \cup {Overflow}
    OBVIOUS
  <2>4. Cardinality(D) <= Cardinality(E \cup {Overflow}) /\ Cardinality(D) \in Nat
    BY <2>2, <2>3, FS_Subset, FS_CardinalityType DEF Bounded
  <2> QED
    BY <2>1, <2>2, <2>4, GuardAssumption DEF Bounded, KeyspaceBounded
<1> QED
  BY <1>1, <1>2, <1>3, PTL DEF Spec
-----------------------------------------------------------------------------
\* A promise is named by a slot of the lookup's request, and nothing but that
\* request's own finally block frees the slot.
PendingInv ==
    /\ slots \in [Slot -> Request]
    /\ \A k \in DOMAIN pending : pending[k] \in Slot
    /\ PendingIsLive

\* A request that owns no promise may move anywhere but over another's.
LEMMA OtherSlotMoves ==
    ASSUME PendingInv, NEW r \in Slot, NEW q \in Request,
           slots[r].at \in {"idle", "resolving", "joined", "woken"},
           slots' = [slots EXCEPT ![r] = q], UNCHANGED pending
    PROVE  PendingInv'
<1>1. slots' \in [Slot -> Request]
  BY DEF PendingInv
<1>2. ASSUME NEW k \in DOMAIN pending
      PROVE  slots'[pending[k]] = slots[pending[k]]
  <2>1. pending[k] # r
    BY <1>2 DEF PendingInv, PendingIsLive
  <2> QED
    BY <2>1 DEF PendingInv
<1> QED
  BY <1>1, <1>2 DEF PendingInv, PendingIsLive

\* When a promise settles, its request keeps its key and its joiners wake.
LEMMA WakingKeeps ==
    ASSUME PendingInv, NEW r \in Slot, NEW at \in {"settled", "rejected"},
           At(r, "fetching"), Woken(r, at), UNCHANGED pending
    PROVE  PendingInv'
<1>1. ASSUME NEW s \in Slot
      PROVE  /\ slots'[s] \in Request
             /\ slots'[s].key = slots[s].key
             /\ slots'[s].at \in {slots[s].at, at, "woken"}
             /\ slots[s].at # "joined" => slots'[s].at \in {slots[s].at, at}
  <2>1. PICK t \in {slots[s].at, at, "woken"} :
            /\ slots'[s] = [at |-> t, key |-> slots[s].key]
            /\ slots[s].at # "joined" => t \in {slots[s].at, at}
    BY <1>1 DEF Woken, At
  <2>2. /\ slots[s].key \in Key \cup {NoKey}
        /\ t \in {"idle", "resolving", "fetching", "joined", "settled", "rejected", "woken"}
    BY <2>1 DEF PendingInv, Request
  <2> QED
    BY <2>1, <2>2 DEF Request
<1>2. slots' \in [Slot -> Request]
  BY <1>1 DEF Woken
<1>3. ASSUME NEW k \in DOMAIN pending
      PROVE  /\ slots'[pending[k]].key = k
             /\ slots'[pending[k]].at \in {"fetching", "settled", "rejected"}
  <2>1. /\ pending[k] \in Slot /\ slots[pending[k]].key = k
        /\ slots[pending[k]].at \in {"fetching", "settled", "rejected"}
    BY <1>3 DEF PendingInv, PendingIsLive
  <2> QED
    BY <1>1, <2>1
<1> QED
  BY <1>2, <1>3 DEF PendingInv, PendingIsLive

\* A new lookup takes a free key and the slot of a request that owned none.
LEMMA StartKeeps ==
    ASSUME PendingInv, NEW r \in Slot, NEW k \in Key, StartFetch(r, k)
    PROVE  PendingInv'
<1> DEFINE q == [at |-> "fetching", key |-> k]
<1>1. /\ slots' = [slots EXCEPT ![r] = q]
      /\ slots[r].at = "resolving"
      /\ k \notin DOMAIN pending
      /\ pending' = [j \in DOMAIN pending \cup {k} |-> IF j = k THEN r ELSE pending[j]]
  BY DEF StartFetch, MoveTo, At, Pending
<1>2. q \in Request
  BY DEF Request
<1>3. slots' \in [Slot -> Request] /\ slots'[r] = q
  BY <1>1, <1>2 DEF PendingInv
<1>4. ASSUME NEW j \in DOMAIN pending
      PROVE  pending'[j] = pending[j] /\ slots'[pending[j]] = slots[pending[j]]
  <2>1. pending[j] # r
    BY <1>1, <1>4 DEF PendingInv, PendingIsLive
  <2> QED
    BY <1>1, <2>1 DEF PendingInv
<1>5. DOMAIN pending' = DOMAIN pending \cup {k} /\ pending'[k] = r
  BY <1>1
<1>6. q.at = "fetching" /\ q.key = k
  OBVIOUS
<1> HIDE DEF q
<1>7. ASSUME NEW j \in DOMAIN pending'
      PROVE  /\ pending'[j] \in Slot /\ slots'[pending'[j]].key = j
             /\ slots'[pending'[j]].at \in {"fetching", "settled", "rejected"}
  <2>1. CASE j = k
    BY <1>3, <1>5, <1>6, <2>1
  <2>2. CASE j \in DOMAIN pending
    BY <1>4, <2>2 DEF PendingInv, PendingIsLive
  <2> QED
    BY <1>5, <1>7, <2>1, <2>2
<1> QED
  BY <1>3, <1>7 DEF PendingInv, PendingIsLive

\* The finally block takes away the only promise its request can own.
LEMMA FinishKeeps ==
    ASSUME PendingInv, NEW r \in Slot, Finish(r)
    PROVE  PendingInv'
<1>1. slots' = [slots EXCEPT ![r] = Idle] /\ Idle \in Request
  BY DEF Finish, Idle, Request
<1>2. slots' \in [Slot -> Request]
  BY <1>1 DEF PendingInv
<1>3. ASSUME NEW j \in DOMAIN pending'
      PROVE  j \in DOMAIN pending /\ pending'[j] = pending[j] /\ pending[j] # r
  <2>1. CASE pending[slots[r].key] = r
    <3>1. pending' = [x \in DOMAIN pending \ {slots[r].key} |-> pending[x]]
      BY <2>1 DEF Finish, Forgotten, Restrict
    <3>2. j \in DOMAIN pending /\ j # slots[r].key /\ pending'[j] = pending[j]
      BY <1>3, <3>1
    <3> QED
      BY <3>2 DEF PendingInv, PendingIsLive
  <2>2. CASE pending[slots[r].key] # r
    <3>1. pending' = pending
      BY <2>2 DEF Finish, Forgotten
    <3> QED
      BY <1>3, <2>2, <3>1 DEF PendingInv, PendingIsLive
  <2> QED
    BY <2>1, <2>2
<1>4. ASSUME NEW j \in DOMAIN pending'
      PROVE  slots'[pending'[j]] = slots[pending[j]]
  BY <1>1, <1>3, <1>4 DEF PendingInv
<1> QED
  BY <1>2, <1>3, <1>4 DEF PendingInv, PendingIsLive

\* Every step of a request keeps the promises live.
LEMMA ProceedKeeps ==
    ASSUME PendingInv, NEW r \in Slot, Proceed(r)
    PROVE  PendingInv'
<1>1. Idle \in Request
  BY DEF Idle, Request
<1>2. CASE AnswerWithoutChain(r) \/ AnswerJoined(r) \/ (\E k \in Key : ServeCached(r, k))
  <2>1. /\ slots' = [slots EXCEPT ![r] = Idle] /\ UNCHANGED pending
        /\ slots[r].at \in {"resolving", "woken"}
    BY <1>2 DEF AnswerWithoutChain, AnswerJoined, ServeCached, At
  <2> QED
    BY <1>1, <2>1, OtherSlotMoves
<1>3. ASSUME NEW k \in Key, Join(r, k)
      PROVE  PendingInv'
  <2>1. PICK at \in {"joined", "woken"} : slots' = [slots EXCEPT ![r] = [at |-> at, key |-> k]]
    BY <1>3 DEF Join, MoveTo
  <2>2. [at |-> at, key |-> k] \in Request
    BY <2>1 DEF Request
  <2>3. UNCHANGED pending /\ slots[r].at = "resolving"
    BY <1>3 DEF Join, At
  <2> QED
    BY <2>1, <2>2, <2>3, OtherSlotMoves
<1>4. CASE \E k \in Key : StartFetch(r, k)
  BY <1>4, StartKeeps
<1>5. ASSUME NEW retryable \in BOOLEAN, Settle(r, retryable)
      PROVE  PendingInv'
  <2>1. At(r, "fetching") /\ Woken(r, "settled") /\ UNCHANGED pending
    BY <1>5 DEF Settle
  <2> QED
    BY <2>1, WakingKeeps
<1>6. CASE Reject(r)
  <2>1. At(r, "fetching") /\ Woken(r, "rejected") /\ UNCHANGED pending
    BY <1>6 DEF Reject
  <2> QED
    BY <2>1, WakingKeeps
<1>7. CASE Finish(r)
  BY <1>7, FinishKeeps
<1> QED
  BY <1>2, <1>3, <1>4, <1>5, <1>6, <1>7 DEF Proceed

\* helius-activity.server.ts:246-272: no key is left with a promise that is
\* over, so none answers from one, however the lookups interleave or fail.
THEOREM NoDeadPromise == Spec => []PendingIsLive
<1>1. Init => PendingInv
  <2> SUFFICES ASSUME Init PROVE PendingInv
    OBVIOUS
  <2>1. DOMAIN pending = {} /\ slots = [r \in Slot |-> Idle]
    BY DEF Init, CacheInit
  <2>2. Idle \in Request
    BY DEF Idle, Request
  <2> QED
    BY <2>1, <2>2 DEF PendingInv, PendingIsLive
<1>2. PendingInv /\ [Next]_vars => PendingInv'
  <2> SUFFICES ASSUME PendingInv, [Next]_vars PROVE PendingInv'
    OBVIOUS
  <2>1. ASSUME NEW r \in Slot, Enter(r)
        PROVE  PendingInv'
    <3>1. /\ slots' = [slots EXCEPT ![r] = [at |-> "resolving", key |-> NoKey]]
          /\ slots[r].at = "idle" /\ UNCHANGED pending
      BY <2>1 DEF Enter, MoveTo, At
    <3>2. [at |-> "resolving", key |-> NoKey] \in Request
      BY DEF Request
    <3> QED
      BY <3>1, <3>2, OtherSlotMoves
  <2>2. ASSUME NEW r \in Slot, Proceed(r)
        PROVE  PendingInv'
    BY <2>2, ProceedKeeps
  <2>3. CASE UNCHANGED cacheVars
    BY <2>3 DEF cacheVars, PendingInv, PendingIsLive
  <2> QED
    BY <2>1, <2>2, <2>3 DEF Next, vars, Refuse, Get, Advance, Tick
<1>3. PendingInv => PendingIsLive
  BY DEF PendingInv
<1> QED
  BY <1>1, <1>2, <1>3, PTL DEF Spec

-----------------------------------------------------------------------------
(* NoRequestStorm: why a lookup that may start is no second one. *)

\* The result of k is kept for as long as the service is to be spared.
Spared(k) ==
    k \in DOMAIN expiresAt /\ expiresAt[k] \in Nat /\ expiresAt[k] >= quietUntil[k]

\* Who fetches owns the promise of its key, and a key is quiet because it is being
\* fetched or because its result is still in the cache.
QuietInv ==
    /\ now \in Nat /\ PendingInv
    /\ quietUntil \in [Key -> Nat]
    /\ \A k \in Key : quietUntil[k] <= now + Cooldown
    /\ \A s \in Slot : At(s, "fetching") =>
          slots[s].key \in Key \cap DOMAIN pending /\ pending[slots[s].key] = s
    /\ \A k \in Key : quietUntil[k] > now =>
          Spared(k) \/ (k \in DOMAIN pending /\ At(pending[k], "fetching"))

LEMMA CooldownFacts ==
    Cooldown \in Nat /\ \A retryable \in BOOLEAN :
        ResultTtl(retryable) \in Nat /\ Cooldown <= ResultTtl(retryable)
BY CacheAssumption DEF Cooldown, ResultTtl

\* A request that neither owns a promise nor gets one moves, and a key that is not
\* fresh may lose its entry.
LEMMA QuietElsewhere ==
    ASSUME QuietInv, NEW r \in Slot, NEW q \in Request, q.at # "fetching",
           slots[r].at \in {"idle", "resolving", "joined", "woken"},
           slots' = [slots EXCEPT ![r] = q], UNCHANGED <<now, pending, quietUntil>>,
           \A k \in DOMAIN expiresAt : Fresh(k) =>
              k \in DOMAIN expiresAt' /\ expiresAt'[k] = expiresAt[k]
    PROVE  QuietInv'
<1>1. PendingInv'
  BY OtherSlotMoves DEF QuietInv
<1>2. \A s \in Slot : /\ slots'[s].at = "fetching" => s # r
                      /\ s # r => slots'[s] = slots[s]
  BY DEF QuietInv, PendingInv
<1>3. ASSUME NEW s \in Slot, slots'[s].at = "fetching"
      PROVE  slots'[s].key \in Key \cap DOMAIN pending /\ pending[slots'[s].key] = s
  BY <1>2, <1>3 DEF QuietInv, At
<1>4. ASSUME NEW k \in Key, quietUntil[k] > now
      PROVE  \/ k \in DOMAIN expiresAt' /\ expiresAt'[k] \in Nat /\ expiresAt'[k] >= quietUntil[k]
             \/ k \in DOMAIN pending /\ slots'[pending[k]].at = "fetching"
  <2>1. CASE Spared(k)
    <3>1. Fresh(k)
      BY <1>4, <2>1 DEF Spared, Fresh, QuietInv
    <3> QED
      BY <2>1, <3>1 DEF Spared
  <2>2. CASE k \in DOMAIN pending /\ At(pending[k], "fetching")
    <3>1. pending[k] \in Slot /\ pending[k] # r
      BY <2>2 DEF QuietInv, PendingInv, At
    <3> QED
      BY <1>2, <2>2, <3>1 DEF At
  <2> QED
    BY <1>4, <2>1, <2>2 DEF QuietInv
<1> QED
  BY <1>1, <1>3, <1>4 DEF QuietInv, Spared, At

\* An entry is only dropped for a key that is not fresh.
LEMMA DroppedKeepsFresh ==
    ASSUME NEW k, ~ Fresh(k), Dropped(k)
    PROVE  \A j \in DOMAIN expiresAt : Fresh(j) =>
              j \in DOMAIN expiresAt' /\ expiresAt'[j] = expiresAt[j]
BY DEF Dropped, Fresh, Restrict

LEMMA QuietStart ==
    ASSUME QuietInv, NEW r \in Slot, NEW k \in Key, StartFetch(r, k), UNCHANGED now
    PROVE  QuietInv'
<1> DEFINE q == [at |-> "fetching", key |-> k]
<1>1. PendingInv'
  BY StartKeeps DEF QuietInv
<1>2. /\ slots' = [slots EXCEPT ![r] = q] /\ slots[r].at = "resolving"
      /\ k \notin DOMAIN pending /\ ~ Fresh(k)
      /\ pending' = [j \in DOMAIN pending \cup {k} |-> IF j = k THEN r ELSE pending[j]]
      /\ quietUntil' = [quietUntil EXCEPT ![k] = now + Cooldown]
  BY DEF StartFetch, MoveTo, At, Pending
<1>3. /\ slots'[r].at = "fetching" /\ slots'[r].key = k
      /\ \A s \in Slot : s # r => slots'[s] = slots[s]
  BY <1>2 DEF QuietInv, PendingInv
<1>4. now \in Nat /\ Cooldown \in Nat /\ quietUntil' \in [Key -> Nat]
  BY <1>2, CooldownFacts DEF QuietInv
<1>5. /\ \A j \in Key : j # k => quietUntil'[j] = quietUntil[j]
      /\ quietUntil'[k] = now + Cooldown
  BY <1>2 DEF QuietInv
<1>6. ASSUME NEW s \in Slot, slots'[s].at = "fetching"
      PROVE  slots'[s].key \in Key \cap DOMAIN pending' /\ pending'[slots'[s].key] = s
  BY <1>2, <1>3, <1>6 DEF QuietInv, At
<1>7. ASSUME NEW j \in Key, quietUntil'[j] > now
      PROVE  \/ j \in DOMAIN expiresAt' /\ expiresAt'[j] \in Nat /\ expiresAt'[j] >= quietUntil'[j]
             \/ j \in DOMAIN pending' /\ slots'[pending'[j]].at = "fetching"
  <2>1. CASE j = k
    BY <1>2, <1>3, <2>1
  <2>2. CASE j # k /\ Spared(j)
    <3>1. Fresh(j) /\ j \in DOMAIN expiresAt
      BY <1>5, <1>7, <2>2 DEF Spared, Fresh, QuietInv
    <3>2. j \in DOMAIN expiresAt' /\ expiresAt'[j] = expiresAt[j]
      BY <1>2, <3>1, DroppedKeepsFresh DEF StartFetch
    <3> QED
      BY <1>5, <2>2, <3>2 DEF Spared
  <2>3. CASE j # k /\ j \in DOMAIN pending /\ At(pending[j], "fetching")
    <3>1. pending'[j] = pending[j] /\ pending[j] \in Slot /\ pending[j] # r
      BY <1>2, <2>3 DEF QuietInv, PendingInv, At
    <3> QED
      BY <1>2, <1>3, <2>3, <3>1 DEF At
  <2> QED
    BY <1>5, <1>7, <2>1, <2>2, <2>3 DEF QuietInv
<1>8. \A j \in Key : quietUntil'[j] <= now + Cooldown
  BY <1>4, <1>5 DEF QuietInv
<1>9. now' = now
  OBVIOUS
<1> HIDE DEF q
<1> QED
  BY <1>1, <1>4, <1>6, <1>7, <1>8, <1>9 DEF QuietInv, Spared, At

\* Who else fetches goes on, and the request whose promise settles does not.
LEMMA WokenFetches ==
    ASSUME QuietInv, NEW r \in Slot, NEW at \in {"settled", "rejected"},
           At(r, "fetching"), Woken(r, at)
    PROVE  /\ \A s \in Slot : slots'[s].key = slots[s].key
           /\ \A s \in Slot : slots'[s].at = "fetching" <=> s # r /\ At(s, "fetching")
<1> SUFFICES ASSUME NEW s \in Slot
             PROVE  /\ slots'[s].key = slots[s].key
                    /\ slots'[s].at = "fetching" <=> s # r /\ At(s, "fetching")
  OBVIOUS
<1>1. PICK t : /\ slots'[s] = [at |-> t, key |-> slots[s].key]
               /\ t = (IF s = r THEN at
                       ELSE IF At(s, "joined") /\ pending[slots[s].key] = r THEN "woken"
                       ELSE slots[s].at)
  BY DEF Woken
<1> QED
  BY <1>1 DEF At

LEMMA QuietSettle ==
    ASSUME QuietInv, NEW r \in Slot, NEW retryable \in BOOLEAN, Settle(r, retryable),
           UNCHANGED now
    PROVE  QuietInv'
<1>1. PICK k, e, kept :
         /\ k = slots[r].key
         /\ e = [j \in DOMAIN expiresAt \cup {k} |->
                    IF j = k THEN now + ResultTtl(retryable) ELSE expiresAt[j]]
         /\ expiresAt' = Restrict(e, ToSet(kept))
         /\ quietUntil' = [j \in Key |->
                              IF j \in DOMAIN e \ ToSet(kept) /\ e[j] > now THEN 0
                              ELSE quietUntil[j]]
  BY DEF Settle
<1>2. At(r, "fetching") /\ Woken(r, "settled") /\ UNCHANGED <<now, pending>>
  BY DEF Settle
<1>3. PendingInv'
  BY <1>2, WakingKeeps DEF QuietInv
<1>4. /\ \A s \in Slot : slots'[s].key = slots[s].key
      /\ \A s \in Slot : slots'[s].at = "fetching" <=> s # r /\ At(s, "fetching")
  BY <1>2, WokenFetches
<1>5. k \in Key /\ k \in DOMAIN pending /\ pending[k] = r
  BY <1>1, <1>2 DEF QuietInv
<1>6. now \in Nat /\ ResultTtl(retryable) \in Nat /\ Cooldown \in Nat
      /\ Cooldown <= ResultTtl(retryable)
  BY CooldownFacts DEF QuietInv
<1>7. quietUntil' \in [Key -> Nat] /\ \A j \in Key : quietUntil'[j] \in {0, quietUntil[j]}
  BY <1>1 DEF QuietInv
<1>8. ASSUME NEW s \in Slot, slots'[s].at = "fetching"
      PROVE  slots'[s].key \in Key \cap DOMAIN pending /\ pending[slots'[s].key] = s
  BY <1>4, <1>8 DEF QuietInv
<1>9. ASSUME NEW j \in Key, quietUntil'[j] > now
      PROVE  \/ j \in DOMAIN expiresAt' /\ expiresAt'[j] \in Nat /\ expiresAt'[j] >= quietUntil'[j]
             \/ j \in DOMAIN pending /\ slots'[pending[j]].at = "fetching"
  <2>1. quietUntil'[j] = quietUntil[j] /\ quietUntil[j] \in Nat /\ quietUntil[j] > now
    BY <1>6, <1>7, <1>9 DEF QuietInv
  <2>2. CASE j \in DOMAIN pending /\ At(pending[j], "fetching") /\ pending[j] # r
    <3>1. pending[j] \in Slot
      BY <2>2 DEF QuietInv, PendingInv
    <3> QED
      BY <1>4, <2>2, <3>1
  <2>3. CASE j \in DOMAIN e /\ e[j] \in Nat /\ e[j] >= quietUntil[j]
    <3>1. e[j] > now
      BY <1>6, <2>1, <2>3
    <3>2. j \in ToSet(kept)
      BY <1>1, <1>6, <1>9, <2>3, <3>1
    <3> QED
      BY <1>1, <2>1, <2>3, <3>2 DEF Restrict
  <2>4. CASE j = k
    <3>1. j \in DOMAIN e /\ e[j] = now + ResultTtl(retryable)
      BY <1>1, <2>4
    <3> QED
      BY <1>6, <2>1, <2>3, <3>1 DEF QuietInv
  <2>5. CASE j # k /\ Spared(j)
    <3>1. j \in DOMAIN e /\ e[j] = expiresAt[j]
      BY <1>1, <2>5 DEF Spared
    <3> QED
      BY <2>3, <2>5, <3>1 DEF Spared
  <2>6. pending[j] = r /\ j \in DOMAIN pending => j = k
    BY <1>1 DEF QuietInv, PendingInv, PendingIsLive
  <2> QED
    BY <2>1, <2>2, <2>4, <2>5, <2>6 DEF QuietInv
<1>10. \A j \in Key : quietUntil'[j] <= now + Cooldown
  BY <1>6, <1>7 DEF QuietInv
<1> QED
  BY <1>2, <1>3, <1>6, <1>7, <1>8, <1>9, <1>10 DEF QuietInv, Spared, At

LEMMA QuietReject ==
    ASSUME QuietInv, NEW r \in Slot, Reject(r), UNCHANGED now
    PROVE  QuietInv'
<1>1. PICK k : k = slots[r].key
  OBVIOUS
<1>2. /\ At(r, "fetching") /\ Woken(r, "rejected") /\ UNCHANGED <<now, pending, expiresAt>>
      /\ quietUntil' = [quietUntil EXCEPT ![k] = 0]
  BY <1>1 DEF Reject
<1>3. PendingInv'
  BY <1>2, WakingKeeps DEF QuietInv
<1>4. /\ \A s \in Slot : slots'[s].key = slots[s].key
      /\ \A s \in Slot : slots'[s].at = "fetching" <=> s # r /\ At(s, "fetching")
  BY <1>2, WokenFetches
<1>5. /\ quietUntil' \in [Key -> Nat] /\ now \in Nat /\ Cooldown \in Nat
      /\ \A j \in Key : quietUntil'[j] = (IF j = k THEN 0 ELSE quietUntil[j])
  BY <1>2, CooldownFacts DEF QuietInv
<1>6. ASSUME NEW s \in Slot, slots'[s].at = "fetching"
      PROVE  slots'[s].key \in Key \cap DOMAIN pending /\ pending[slots'[s].key] = s
  BY <1>4, <1>6 DEF QuietInv
<1>7. ASSUME NEW j \in Key, quietUntil'[j] > now
      PROVE  \/ j \in DOMAIN expiresAt /\ expiresAt[j] \in Nat /\ expiresAt[j] >= quietUntil'[j]
             \/ j \in DOMAIN pending /\ slots'[pending[j]].at = "fetching"
  <2>1. j # k /\ quietUntil'[j] = quietUntil[j]
    BY <1>5, <1>7
  <2>2. CASE Spared(j)
    BY <2>1, <2>2 DEF Spared
  <2>3. CASE j \in DOMAIN pending /\ At(pending[j], "fetching")
    <3>1. pending[j] \in Slot /\ slots[pending[j]].key = j
      BY <2>3 DEF QuietInv, PendingInv, PendingIsLive
    <3> QED
      BY <1>1, <1>4, <2>1, <2>3, <3>1
  <2> QED
    BY <1>7, <2>1, <2>2, <2>3 DEF QuietInv
<1>8. \A j \in Key : quietUntil'[j] <= now + Cooldown
  BY <1>5 DEF QuietInv
<1> QED
  BY <1>2, <1>3, <1>5, <1>6, <1>7, <1>8 DEF QuietInv, Spared, At

LEMMA QuietFinish ==
    ASSUME QuietInv, NEW r \in Slot, Finish(r), UNCHANGED now
    PROVE  QuietInv'
<1>1. PendingInv'
  BY FinishKeeps DEF QuietInv
<1>2. /\ slots' = [slots EXCEPT ![r] = Idle] /\ ~ At(r, "fetching")
      /\ UNCHANGED <<now, expiresAt, quietUntil>>
  BY DEF Finish, At
<1>3. \A s \in Slot : /\ slots'[s].at = "fetching" => s # r
                      /\ s # r => slots'[s] = slots[s]
  BY <1>2 DEF QuietInv, PendingInv, Idle
<1>4. ASSUME NEW j \in DOMAIN pending, pending[j] # r
      PROVE  j \in DOMAIN pending' /\ pending'[j] = pending[j]
  <2>1. CASE pending[slots[r].key] = r
    BY <1>4, <2>1 DEF Finish, Forgotten, Restrict
  <2>2. CASE pending[slots[r].key] # r
    BY <1>4, <2>2 DEF Finish, Forgotten
  <2> QED
    BY <2>1, <2>2
<1>5. ASSUME NEW s \in Slot, slots'[s].at = "fetching"
      PROVE  slots'[s].key \in Key \cap DOMAIN pending' /\ pending'[slots'[s].key] = s
  BY <1>3, <1>4, <1>5 DEF QuietInv, At
<1>6. ASSUME NEW j \in Key, quietUntil[j] > now, ~ Spared(j)
      PROVE  j \in DOMAIN pending' /\ slots'[pending'[j]].at = "fetching"
  <2>1. j \in DOMAIN pending /\ At(pending[j], "fetching") /\ pending[j] \in Slot
    BY <1>6 DEF QuietInv, PendingInv
  <2>2. pending[j] # r
    BY <1>2, <2>1
  <2> QED
    BY <1>3, <1>4, <2>1, <2>2 DEF At
<1> QED
  BY <1>1, <1>2, <1>5, <1>6 DEF QuietInv, Spared, At

LEMMA QuietStarts == Init => QuietInv
<1> SUFFICES ASSUME Init PROVE QuietInv
  OBVIOUS
<1>1. DOMAIN pending = {} /\ slots = [r \in Slot |-> Idle] /\ now = 0
      /\ quietUntil = [k \in Key |-> 0]
  BY DEF Init, CacheInit
<1>2. Idle \in Request /\ Idle.at = "idle"
  BY DEF Idle, Request
<1> QED
  BY <1>1, <1>2, CooldownFacts DEF QuietInv, PendingInv, PendingIsLive, At

LEMMA QuietStep == QuietInv /\ [Next]_vars => QuietInv'
<1> SUFFICES ASSUME QuietInv, [Next]_vars PROVE QuietInv'
  OBVIOUS
<1>1. ASSUME NEW r \in Slot, Enter(r), UNCHANGED now
      PROVE  QuietInv'
  <2>1. PICK q : q = [at |-> "resolving", key |-> NoKey]
    OBVIOUS
  <2>2. q \in Request /\ q.at # "fetching"
    BY <2>1 DEF Request
  <2>3. /\ slots' = [slots EXCEPT ![r] = q] /\ slots[r].at = "idle"
        /\ UNCHANGED <<now, pending, quietUntil, expiresAt>>
    BY <1>1, <2>1 DEF Enter, MoveTo, At
  <2> QED
    BY <2>2, <2>3, QuietElsewhere
<1>2. ASSUME NEW r \in Slot, UNCHANGED now,
             AnswerWithoutChain(r) \/ AnswerJoined(r) \/ \E k \in Key : ServeCached(r, k)
      PROVE  QuietInv'
  <2>1. Idle \in Request /\ Idle.at # "fetching"
    BY DEF Idle, Request
  <2>2. /\ slots' = [slots EXCEPT ![r] = Idle] /\ slots[r].at \in {"resolving", "woken"}
        /\ UNCHANGED <<now, pending, quietUntil, expiresAt>>
    BY <1>2 DEF AnswerWithoutChain, AnswerJoined, ServeCached, At
  <2> QED
    BY <2>1, <2>2, QuietElsewhere
<1>3. ASSUME NEW r \in Slot, UNCHANGED now, NEW k \in Key, Join(r, k)
      PROVE  QuietInv'
  <2>1. PICK at \in {"joined", "woken"} : slots' = [slots EXCEPT ![r] = [at |-> at, key |-> k]]
    BY <1>3 DEF Join, MoveTo
  <2>2. PICK q : q = [at |-> at, key |-> k]
    OBVIOUS
  <2>3. q \in Request /\ q.at # "fetching"
    BY <2>1, <2>2 DEF Request
  <2>4. slots[r].at = "resolving" /\ UNCHANGED <<now, pending, quietUntil>>
    BY <1>3 DEF Join, At
  <2>5. \A j \in DOMAIN expiresAt : Fresh(j) =>
           j \in DOMAIN expiresAt' /\ expiresAt'[j] = expiresAt[j]
    BY <1>3, DroppedKeepsFresh DEF Join
  <2> QED
    BY <2>1, <2>2, <2>3, <2>4, <2>5, QuietElsewhere
<1>4. ASSUME NEW r \in Slot, UNCHANGED now, Proceed(r)
      PROVE  QuietInv'
  BY <1>2, <1>3, <1>4, QuietStart, QuietSettle, QuietReject, QuietFinish DEF Proceed
<1>5. CASE UNCHANGED <<now, cacheVars>>
  BY <1>5 DEF cacheVars, QuietInv, Spared, At, PendingInv, PendingIsLive
<1>6. CASE Tick
  <2>1. now \in Nat /\ now' = now + 1 /\ UNCHANGED <<expiresAt, pending, slots, quietUntil>>
        /\ Cooldown \in Nat
    BY <1>6, CooldownFacts DEF Tick, cacheVars, QuietInv
  <2> QED
    BY <2>1 DEF QuietInv, Spared, At, PendingInv, PendingIsLive
<1> QED
  BY <1>1, <1>4, <1>5, <1>6 DEF Next, vars, Refuse, Get, Advance

\* Whoever asks, a lookup that a step of the route starts is the only one of its key, and
\* the one before it was at least the cooldown ago, threw or was evicted
\* (helius-activity.server.ts:228-272).
THEOREM RequestsAreCoalesced == Spec => NoRequestStorm
<1> DEFINE Coalesced ==
              \A r \in Slot, k \in Key :
                 slots[r].at # "fetching" /\ slots'[r] = [at |-> "fetching", key |-> k]
                    => /\ now >= quietUntil[k]
                       /\ \A s \in Slot : slots[s] # slots'[r]
<1>1. Init => QuietInv
  BY QuietStarts
<1>2. QuietInv /\ [Next]_vars => QuietInv'
  BY QuietStep
<1>3. QuietInv /\ [Next]_vars => [Coalesced]_vars
  <2> SUFFICES ASSUME QuietInv, [Next]_vars, NEW r \in Slot, NEW k \in Key,
                      slots[r].at # "fetching", slots'[r] = [at |-> "fetching", key |-> k]
               PROVE  /\ now >= quietUntil[k]
                      /\ \A s \in Slot : slots[s] # slots'[r]
    OBVIOUS
  <2>1. slots'[r].at = "fetching" /\ slots'[r].key = k /\ slots' # slots
    OBVIOUS
  <2>2. slots \in [Slot -> Request]
    BY DEF QuietInv, PendingInv
  <2>3. ASSUME NEW q \in Slot, NEW idle, idle.at # "fetching", slots' = [slots EXCEPT ![q] = idle]
        PROVE  FALSE
    BY <2>1, <2>2, <2>3
  <2>4. ASSUME NEW q \in Slot, Enter(q) PROVE FALSE
    <3>1. [at |-> "resolving", key |-> NoKey].at # "fetching"
      OBVIOUS
    <3> QED
      BY <2>3, <2>4, <3>1 DEF Enter, MoveTo
  <2>5. ASSUME NEW q \in Slot,
               \/ AnswerWithoutChain(q) \/ AnswerJoined(q) \/ Finish(q)
               \/ \E j \in Key : ServeCached(q, j)
        PROVE  FALSE
    BY <2>3, <2>5 DEF AnswerWithoutChain, AnswerJoined, Finish, ServeCached, Idle
  <2>6. ASSUME NEW q \in Slot, NEW j \in Key, Join(q, j) PROVE FALSE
    <3>1. PICK at \in {"joined", "woken"} : slots' = [slots EXCEPT ![q] = [at |-> at, key |-> j]]
      BY <2>6 DEF Join, MoveTo
    <3>2. [at |-> at, key |-> j].at # "fetching"
      BY <3>1
    <3> QED
      BY <2>3, <3>1, <3>2
  <2>7. ASSUME NEW q \in Slot, Reject(q) \/ \E retryable \in BOOLEAN : Settle(q, retryable)
        PROVE  FALSE
    <3>1. At(q, "fetching") /\ \E at \in {"settled", "rejected"} : Woken(q, at)
      BY <2>7 DEF Reject, Settle
    <3> QED
      BY <2>1, <3>1, WokenFetches DEF At
  <2>8. PICK q \in Slot, j \in Key : StartFetch(q, j)
    BY <2>1, <2>4, <2>5, <2>6, <2>7
    DEF Next, vars, Refuse, Get, Advance, Tick, cacheVars, Proceed
  <2>9. /\ slots' = [slots EXCEPT ![q] = [at |-> "fetching", key |-> j]]
        /\ j \notin DOMAIN pending /\ ~ Fresh(j)
    BY <2>8 DEF StartFetch, MoveTo, Pending
  <2>10. q = r /\ j = k
    BY <2>1, <2>2, <2>9
  <2>11. now >= quietUntil[k]
    BY <2>9, <2>10 DEF QuietInv, Spared, Fresh
  <2>12. ASSUME NEW s \in Slot, slots[s] = slots'[r] PROVE FALSE
    <3>1. At(s, "fetching") /\ slots[s].key = k
      BY <2>1, <2>12 DEF At
    <3> QED
      BY <2>9, <2>10, <3>1 DEF QuietInv
  <2> QED
    BY <2>11, <2>12
<1> HIDE DEF Coalesced
<1>4. Spec => [][Coalesced]_vars
  BY <1>1, <1>2, <1>3, PTL DEF Spec
<1> QED
  BY <1>4 DEF Coalesced, NoRequestStorm

-----------------------------------------------------------------------------
(* The limiter under the calls of PublicApi: what its fixed windows promise of *)
(* any stretch of time, for any number of scopes and clients and any limits.   *)

\* What was counted up to each moment, and nothing of the time to come.
History(f, n) ==
    /\ f \in [Time -> Nat]
    /\ \A t, u \in Time : t <= u => f[t] <= f[u]
    /\ \A t \in Time : t >= n => f[t] = f[n]

\* A history over all moments, those before the first and after the last included.
LEMMA HistoryFacts ==
    ASSUME now \in Time, NEW f, History(f, now)
    PROVE  /\ \A t \in Int : UpTo(f, t) \in Nat
           /\ \A t, u \in Int : t <= u => UpTo(f, t) <= UpTo(f, u)
           /\ \A t \in Int : t >= now => UpTo(f, t) = UpTo(f, now)
           /\ \A t \in Int : t < 0 => UpTo(f, t) = 0
BY ClockAssumption DEF History, UpTo, Time

\* A count at this moment is in every stretch that reaches it.
LEMMA OneMoreFacts ==
    ASSUME now \in Time, NEW f, History(f, now)
    PROVE  /\ History(OneMore(f), now)
           /\ \A t \in Int : UpTo(OneMore(f), t) = (IF t >= now THEN UpTo(f, t) + 1 ELSE UpTo(f, t))
<1>1. OneMore(f) \in [Time -> Nat]
  BY DEF OneMore, History
<1>2. \A t \in Time : OneMore(f)[t] = (IF t >= now THEN f[t] + 1 ELSE f[t])
  BY DEF OneMore
<1>3. History(OneMore(f), now)
  BY <1>1, <1>2 DEF History, Time
<1>4. ASSUME NEW t \in Int
      PROVE  UpTo(OneMore(f), t) = (IF t >= now THEN UpTo(f, t) + 1 ELSE UpTo(f, t))
  BY <1>2, ClockAssumption DEF UpTo, Time
<1> QED
  BY <1>3, <1>4

\* A moment passes: nothing is counted in it yet.
LEMMA HistoryTicks ==
    ASSUME now \in Time, now' = now + 1, now' \in Time, NEW f, History(f, now)
    PROVE  History(f, now')
BY DEF History, Time

-----------------------------------------------------------------------------
(* RefusalsEarned: what a bucket counts was called for. *)

\* The count of a bucket is of its own calls, f, since its window began.
Paid(b, k, f, window) ==
    k \in DOMAIN b =>
        /\ b[k].resetAt - window \in 0 .. now
        /\ b[k].count <= UpTo(f, now) - UpTo(f, b[k].resetAt - window - 1)

LEMMA PaidSwept ==
    ASSUME NEW b, Buckets(b), NEW ops, NEW k, NEW f, NEW window, Paid(b, k, f, window)
    PROVE  Paid(Swept(b, ops), k, f, window)
BY SweptKey DEF Paid

\* A call under another key.
LEMMA PaidBeside ==
    ASSUME NEW b, Buckets(b), now \in Nat, NEW key, NEW w \in Nat,
           NEW k, k # key, k # Overflow, NEW f, NEW window, Paid(b, k, f, window)
    PROVE  Paid(Consumed(b, key, w), k, f, window)
<1>1. PICK j, after : j = BoundedKey(b, key) /\ after = Consumed(b, key, w)
  OBVIOUS
<1>2. j # k
  BY <1>1 DEF BoundedKey
<1>3. DOMAIN after = DOMAIN b \cup {j} /\ \A i \in DOMAIN b : i # j => after[i] = b[i]
  BY <1>1, ConsumedKey
<1> QED
  BY <1>1, <1>2, <1>3 DEF Paid

\* A call under this key, which is counted in f as well.
LEMMA PaidOwn ==
    ASSUME NEW b, Buckets(b), now \in Time, NEW k, k # Overflow, NEW f, History(f, now),
           NEW window \in Nat \ {0}, Paid(b, k, f, window)
    PROVE  Paid(Consumed(b, k, window), k, OneMore(f), window)
<1>1. PICK j, after, g : /\ j = BoundedKey(b, k) /\ after = Consumed(b, k, window)
                         /\ g = OneMore(f)
  OBVIOUS
<1>2. now \in Nat /\ window \in Nat
  BY DEF Time
<1>3. /\ Buckets(after) /\ DOMAIN after = DOMAIN b \cup {j}
      /\ Running(b, j) => after[j].count = b[j].count + 1 /\ after[j].resetAt = b[j].resetAt
      /\ ~ Running(b, j) => after[j].count = 1 /\ after[j].resetAt = now + window
  BY <1>1, <1>2, ConsumedKey
<1>4. /\ \A t \in Int : UpTo(f, t) \in Nat
      /\ \A t, u \in Int : t <= u => UpTo(f, t) <= UpTo(f, u)
      /\ \A t \in Int : UpTo(g, t) = (IF t >= now THEN UpTo(f, t) + 1 ELSE UpTo(f, t))
  BY <1>1, HistoryFacts, OneMoreFacts
<1>5. CASE j # k
  <2>1. k \notin DOMAIN b
    BY <1>1, <1>5 DEF BoundedKey
  <2> QED
    BY <1>1, <1>3, <1>5, <2>1 DEF Paid
<1>6. CASE j = k /\ Running(b, k)
  <2>1. /\ k \in DOMAIN b /\ b[k] \in Bucket /\ b[k].resetAt - window \in 0 .. now
        /\ b[k].count <= UpTo(f, now) - UpTo(f, b[k].resetAt - window - 1)
    BY <1>6 DEF Running, Paid, Buckets
  <2>2. b[k].count \in Nat /\ b[k].resetAt \in Nat
    BY <2>1 DEF Bucket
  <2>3. /\ UpTo(g, now) = UpTo(f, now) + 1
        /\ UpTo(g, b[k].resetAt - window - 1) = UpTo(f, b[k].resetAt - window - 1)
    BY <1>2, <1>4, <2>1, <2>2
  <2> QED
    BY <1>1, <1>2, <1>3, <1>4, <1>6, <2>1, <2>2, <2>3 DEF Paid
<1>7. CASE j = k /\ ~ Running(b, k)
  <2>1. after[k].count = 1 /\ after[k].resetAt = now + window
    BY <1>3, <1>7
  <2>2. UpTo(g, now) = UpTo(f, now) + 1 /\ UpTo(g, now - 1) = UpTo(f, now - 1)
        /\ UpTo(f, now - 1) <= UpTo(f, now)
    BY <1>2, <1>4
  <2>3. (now + window) - window = now
    BY <1>2
  <2> QED
    BY <1>1, <1>2, <1>4, <2>1, <2>2, <2>3 DEF Paid
<1> QED
  BY <1>5, <1>6, <1>7

\* Everything that was paid for, in a map b and with the histories of the calls.
AllPaid(b, calls, admitted) ==
    \A s \in Scope :
        /\ \A c \in Client : Paid(b, ClientKey(s, c), calls[s][c], Policy[s].windowMs)
        /\ Paid(b, GlobalKey(s), admitted[s], Policy[s].globalWindowMs)

Histories(calls, admitted) ==
    /\ calls \in [Scope -> [Client -> [Time -> Nat]]]
    /\ admitted \in [Scope -> [Time -> Nat]]
    /\ \A s \in Scope :
          History(admitted[s], now) /\ \A c \in Client : History(calls[s][c], now)

\* The keys of clients and scopes are different, and none is the overflow.
LEMMA KeysApart ==
    /\ \A s, t \in Scope, c, d \in Client :
          /\ ClientKey(s, c) = ClientKey(t, d) => s = t /\ c = d
          /\ ClientKey(s, c) # GlobalKey(t)
          /\ GlobalKey(s) = GlobalKey(t) => s = t
          /\ ClientKey(s, c) # Overflow /\ GlobalKey(s) # Overflow
    /\ \A s \in Scope : GlobalKey(s) # Overflow
    /\ \A s, t \in Scope : GlobalKey(s) = GlobalKey(t) => s = t
    /\ \A s \in Scope : Policy[s] \in Limits
BY GuardAssumption DEF ClientKey, GlobalKey

LEMMA WindowsPositive ==
    ASSUME NEW s \in Scope
    PROVE  /\ Policy[s].windowMs \in Nat \ {0} /\ Policy[s].globalWindowMs \in Nat \ {0}
           /\ Policy[s].clientMax \in Nat \ {0} /\ Policy[s].globalMax \in Nat \ {0}
BY KeysApart DEF Limits

LEMMA AllPaidSwept ==
    ASSUME NEW b, Buckets(b), NEW ops, NEW calls, NEW admitted, AllPaid(b, calls, admitted)
    PROVE  AllPaid(Swept(b, ops), calls, admitted)
BY PaidSwept DEF AllPaid

\* A client's bucket is charged.
LEMMA ClientCharged ==
    ASSUME now \in Time, NEW b, Buckets(b), NEW calls, NEW admitted, Histories(calls, admitted),
           AllPaid(b, calls, admitted), NEW s \in Scope, NEW c \in Client
    PROVE  /\ AllPaid(Consumed(b, ClientKey(s, c), Policy[s].windowMs),
                      [calls EXCEPT ![s][c] = OneMore(@)], admitted)
           /\ Histories([calls EXCEPT ![s][c] = OneMore(@)], admitted)
<1>1. PICK after, more : /\ after = Consumed(b, ClientKey(s, c), Policy[s].windowMs)
                         /\ more = [calls EXCEPT ![s][c] = OneMore(@)]
  OBVIOUS
<1>2. /\ more \in [Scope -> [Client -> [Time -> Nat]]]
      /\ more[s][c] = OneMore(calls[s][c]) /\ History(more[s][c], now)
      /\ \A t \in Scope, d \in Client : ~ (t = s /\ d = c) => more[t][d] = calls[t][d]
  <2>1. History(OneMore(calls[s][c]), now) /\ OneMore(calls[s][c]) \in [Time -> Nat]
    BY OneMoreFacts DEF Histories, History
  <2> QED
    BY <1>1, <2>1 DEF Histories
<1>3. Histories(more, admitted)
  BY <1>2 DEF Histories
<1>4. now \in Nat /\ Policy[s].windowMs \in Nat
  BY WindowsPositive DEF Time
<1>5. ASSUME NEW t \in Scope, NEW d \in Client
      PROVE  Paid(after, ClientKey(t, d), more[t][d], Policy[t].windowMs)
  <2>1. Paid(b, ClientKey(t, d), calls[t][d], Policy[t].windowMs)
    BY DEF AllPaid
  <2>2. CASE t = s /\ d = c
    <3>1. History(calls[s][c], now)
      BY DEF Histories
    <3> QED
      BY <1>1, <1>2, <2>1, <2>2, <3>1, PaidOwn, KeysApart, WindowsPositive
  <2>3. CASE ~ (t = s /\ d = c)
    <3>1. ClientKey(t, d) # ClientKey(s, c) /\ ClientKey(t, d) # Overflow
      BY <2>3, KeysApart
    <3> QED
      BY <1>1, <1>2, <1>4, <2>1, <2>3, <3>1, PaidBeside
  <2> QED
    BY <2>2, <2>3
<1>6. ASSUME NEW t \in Scope
      PROVE  Paid(after, GlobalKey(t), admitted[t], Policy[t].globalWindowMs)
  <2>1. Paid(b, GlobalKey(t), admitted[t], Policy[t].globalWindowMs)
    BY DEF AllPaid
  <2>2. GlobalKey(t) # ClientKey(s, c) /\ GlobalKey(t) # Overflow
    BY KeysApart
  <2> QED
    BY <1>1, <1>4, <2>1, <2>2, PaidBeside
<1> QED
  BY <1>1, <1>3, <1>5, <1>6 DEF AllPaid

\* A scope's bucket is charged.
LEMMA ScopeCharged ==
    ASSUME now \in Time, NEW b, Buckets(b), NEW calls, NEW admitted, Histories(calls, admitted),
           AllPaid(b, calls, admitted), NEW s \in Scope
    PROVE  /\ AllPaid(Consumed(b, GlobalKey(s), Policy[s].globalWindowMs), calls,
                      [admitted EXCEPT ![s] = OneMore(@)])
           /\ Histories(calls, [admitted EXCEPT ![s] = OneMore(@)])
<1>1. PICK after, more : /\ after = Consumed(b, GlobalKey(s), Policy[s].globalWindowMs)
                         /\ more = [admitted EXCEPT ![s] = OneMore(@)]
  OBVIOUS
<1>2. /\ more \in [Scope -> [Time -> Nat]]
      /\ more[s] = OneMore(admitted[s]) /\ History(more[s], now)
      /\ \A t \in Scope : t # s => more[t] = admitted[t]
  <2>1. History(OneMore(admitted[s]), now) /\ OneMore(admitted[s]) \in [Time -> Nat]
    BY OneMoreFacts DEF Histories, History
  <2> QED
    BY <1>1, <2>1 DEF Histories
<1>3. Histories(calls, more)
  BY <1>2 DEF Histories
<1>4. now \in Nat /\ Policy[s].globalWindowMs \in Nat
  BY WindowsPositive DEF Time
<1>5. ASSUME NEW t \in Scope, NEW d \in Client
      PROVE  Paid(after, ClientKey(t, d), calls[t][d], Policy[t].windowMs)
  <2>1. Paid(b, ClientKey(t, d), calls[t][d], Policy[t].windowMs)
    BY DEF AllPaid
  <2>2. ClientKey(t, d) # GlobalKey(s) /\ ClientKey(t, d) # Overflow
    BY KeysApart
  <2> QED
    BY <1>1, <1>4, <2>1, <2>2, PaidBeside
<1>6. ASSUME NEW t \in Scope
      PROVE  Paid(after, GlobalKey(t), more[t], Policy[t].globalWindowMs)
  <2>1. Paid(b, GlobalKey(t), admitted[t], Policy[t].globalWindowMs)
    BY DEF AllPaid
  <2>2. CASE t = s
    <3>1. History(admitted[s], now)
      BY DEF Histories
    <3> QED
      BY <1>1, <1>2, <2>1, <2>2, <3>1, PaidOwn, KeysApart, WindowsPositive
  <2>3. CASE t # s
    <3>1. GlobalKey(t) # GlobalKey(s) /\ GlobalKey(t) # Overflow
      BY <2>3, KeysApart
    <3> QED
      BY <1>1, <1>2, <1>4, <2>1, <2>3, <3>1, PaidBeside
  <2> QED
    BY <2>2, <2>3
<1> QED
  BY <1>1, <1>3, <1>5, <1>6 DEF AllPaid

-----------------------------------------------------------------------------
\* One call takes the client's bucket, and the scope's if it may.
GuardSound ==
    /\ now \in Time /\ Buckets(buckets)
    /\ Histories(charged, granted) /\ AllPaid(buckets, charged, granted)

LEMMA ForClientSound ==
    ASSUME GuardSound
    PROVE  Buckets(ForClient) /\ AllPaid(ForClient, charged, granted)
BY SweptKey, AllPaidSwept DEF GuardSound, ForClient

LEMMA ForGlobalSound ==
    ASSUME GuardSound, NEW s \in Scope, NEW c \in Client,
           NEW calls, calls = [charged EXCEPT ![s][c] = OneMore(@)]
    PROVE  /\ Buckets(ForGlobal(s, c)) /\ AllPaid(ForGlobal(s, c), calls, granted)
           /\ Histories(calls, granted)
<1>1. PICK b, after : b = ForClient /\ after = Consumed(b, ClientKey(s, c), Policy[s].windowMs)
  OBVIOUS
<1>2. Buckets(b) /\ AllPaid(b, charged, granted)
  BY <1>1, ForClientSound
<1>3. now \in Nat /\ Policy[s].windowMs \in Nat
  BY WindowsPositive DEF GuardSound, Time
<1>4. Buckets(after)
  BY <1>1, <1>2, <1>3, ConsumedKey
<1>5. AllPaid(after, calls, granted) /\ Histories(calls, granted)
  BY <1>1, <1>2, ClientCharged DEF GuardSound
<1> QED
  BY <1>1, <1>4, <1>5, SweptKey, AllPaidSwept DEF ForGlobal

\* A step of the clock forgets nothing.
LEMMA PaidTicks ==
    ASSUME GuardSound, ApiTick
    PROVE  GuardSound'
<1>1. /\ now \in Time /\ now' = now + 1 /\ now' \in Time /\ now \in Nat
      /\ UNCHANGED <<buckets, charged, granted>>
  BY ApiAssumption, ClockAssumption DEF GuardSound, ApiTick, apiVars, guardVars, Time
<1>2. PICK b, calls, admitted : b = buckets /\ calls = charged /\ admitted = granted
  OBVIOUS
<1>3. Buckets(b) /\ Histories(calls, admitted) /\ AllPaid(b, calls, admitted)
  BY <1>2 DEF GuardSound
<1>4. Histories(calls, admitted)'
  BY <1>1, <1>3, HistoryTicks DEF Histories
<1>5. ASSUME NEW k, NEW f, History(f, now), NEW window \in Nat, Paid(b, k, f, window)
      PROVE  k \in DOMAIN b =>
                /\ b[k].resetAt - window \in 0 .. now'
                /\ b[k].count <= UpTo(f, now') - UpTo(f, b[k].resetAt - window - 1)
  <2>1. UpTo(f, now') = UpTo(f, now)
    BY <1>1, <1>5, HistoryFacts
  <2> QED
    BY <1>1, <1>5, <2>1 DEF Paid
<1>6. AllPaid(b, calls, admitted)'
  <2>1. ASSUME NEW s \in Scope, NEW c \in Client
        PROVE  Paid(b, ClientKey(s, c), calls[s][c], Policy[s].windowMs)'
    BY <1>3, <1>5, WindowsPositive DEF AllPaid, Histories, Paid, UpTo
  <2>2. ASSUME NEW s \in Scope
        PROVE  Paid(b, GlobalKey(s), admitted[s], Policy[s].globalWindowMs)'
    BY <1>3, <1>5, WindowsPositive DEF AllPaid, Histories, Paid, UpTo
  <2> QED
    BY <2>1, <2>2 DEF AllPaid
<1> QED
  BY <1>1, <1>2, <1>3, <1>4, <1>6
  DEF GuardSound, Buckets, Histories, History, AllPaid, Paid, UpTo, ClientKey, GlobalKey

\* While the clock stands still the sound state is that of the map and the histories.
LEMMA GuardBecomes ==
    ASSUME GuardSound, now' = now, NEW b, NEW calls, NEW admitted,
           Buckets(b), Histories(calls, admitted), AllPaid(b, calls, admitted),
           buckets' = b, charged' = calls, granted' = admitted
    PROVE  GuardSound'
BY DEF GuardSound, Buckets, Histories, History, AllPaid, Paid, UpTo, ClientKey, GlobalKey

LEMMA CallSound ==
    ASSUME GuardSound, NEW s \in Scope, NEW c \in Client, CallApi(s, c)
    PROVE  GuardSound'
<1>1. PICK calls, admitted, b, g :
         /\ calls = [charged EXCEPT ![s][c] = OneMore(@)]
         /\ admitted = [granted EXCEPT ![s] = OneMore(@)]
         /\ b = ForClient /\ g = ForGlobal(s, c)
  OBVIOUS
<1>2. now' = now
  BY DEF CallApi
<1>3. Buckets(b) /\ AllPaid(b, charged, granted) /\ Histories(charged, granted)
  BY <1>1, ForClientSound DEF GuardSound
<1>4. Buckets(g) /\ AllPaid(g, calls, granted) /\ Histories(calls, granted)
  BY <1>1, ForGlobalSound
<1>5. CASE Admit(s, c) /\ Charge(s, c)
  <2>1. PICK after : after = Consumed(g, GlobalKey(s), Policy[s].globalWindowMs)
    OBVIOUS
  <2>2. now \in Time /\ now \in Nat /\ Policy[s].globalWindowMs \in Nat
    BY WindowsPositive DEF GuardSound, Time
  <2>3. Buckets(after)
    BY <1>4, <2>1, <2>2, ConsumedKey
  <2>4. AllPaid(after, calls, admitted) /\ Histories(calls, admitted)
    BY <1>1, <1>4, <2>1, <2>2, ScopeCharged
  <2>5. buckets' = after /\ charged' = calls /\ granted' = admitted
    BY <1>1, <1>5, <2>1 DEF Admit, Charge
  <2> QED
    BY <1>2, <2>3, <2>4, <2>5, GuardBecomes
<1>6. CASE DenyGlobal(s, c) /\ Charge(s, c)
  <2>1. buckets' = g /\ charged' = calls /\ granted' = granted
    BY <1>1, <1>6 DEF DenyGlobal, Charge
  <2> QED
    BY <1>2, <1>4, <2>1, GuardBecomes
<1>7. CASE DenyClient(s, c) /\ UNCHANGED charged
  <2>1. buckets' = b /\ charged' = charged /\ granted' = granted
    BY <1>1, <1>7 DEF DenyClient
  <2> QED
    BY <1>2, <1>3, <2>1, GuardBecomes
<1> QED
  BY <1>5, <1>6, <1>7 DEF CallApi

\* A client is refused what it has used up itself, and a scope what it has admitted.
LEMMA EarnedIfSound ==
    ASSUME GuardSound
    PROVE  RefusalsEarned
<1>1. ASSUME NEW b, Buckets(b), NEW key, NEW f, History(f, now), NEW limit \in Nat,
             NEW window \in Nat \ {0}, Paid(b, key, f, window),
             ~ Allows(b, key, limit), BoundedKey(b, key) # Overflow
      PROVE  Recent(f, window) >= limit
  <2>1. BoundedKey(b, key) = key
    BY <1>1 DEF BoundedKey
  <2>2. key \in DOMAIN b /\ b[key].resetAt > now /\ ~ b[key].count < limit
    BY <1>1, <2>1 DEF Allows, Running
  <2>3. /\ b[key].count \in Nat /\ b[key].resetAt \in Nat
        /\ b[key].count <= UpTo(f, now) - UpTo(f, b[key].resetAt - window - 1)
    BY <1>1, <2>2 DEF Buckets, Bucket, Paid
  <2>4. /\ now \in Nat /\ now - window \in Int /\ b[key].resetAt - window - 1 \in Int
        /\ now - window <= b[key].resetAt - window - 1
    BY <1>1, <2>2, <2>3 DEF GuardSound, Time
  <2>5. /\ UpTo(f, now - window) <= UpTo(f, b[key].resetAt - window - 1)
        /\ {UpTo(f, now), UpTo(f, now - window), UpTo(f, b[key].resetAt - window - 1)} \subseteq Nat
    BY <1>1, <2>4, HistoryFacts DEF GuardSound
  <2>6. Recent(f, window) = UpTo(f, now) - UpTo(f, now - window)
    <3>1. (now - window + 1) - 1 = now - window
      BY <1>1, <2>4
    <3> QED
      BY <3>1 DEF Recent, Total
  <2> QED
    BY <1>1, <2>2, <2>3, <2>5, <2>6
<1>2. ASSUME NEW s \in Scope, NEW c \in Client, ~ ClientAllows(s, c),
             BoundedKey(ForClient, ClientKey(s, c)) # Overflow
      PROVE  Recent(charged[s][c], Policy[s].windowMs) >= Policy[s].clientMax
  <2>1. /\ Buckets(ForClient) /\ History(charged[s][c], now)
        /\ Paid(ForClient, ClientKey(s, c), charged[s][c], Policy[s].windowMs)
    BY ForClientSound DEF AllPaid, GuardSound, Histories
  <2>2. ~ Allows(ForClient, ClientKey(s, c), Policy[s].clientMax)
    BY <1>2 DEF ClientAllows
  <2>3. PICK b, f : b = ForClient /\ f = charged[s][c]
    OBVIOUS
  <2> QED
    BY <1>1, <1>2, <2>1, <2>2, <2>3, WindowsPositive
<1>3. ASSUME NEW s \in Scope, NEW c \in Client, ~ GlobalAllows(s, c),
             BoundedKey(ForGlobal(s, c), GlobalKey(s)) # Overflow
      PROVE  Recent(granted[s], Policy[s].globalWindowMs) >= Policy[s].globalMax
  <2>1. PICK b, f, calls : /\ b = ForGlobal(s, c) /\ f = granted[s]
                           /\ calls = [charged EXCEPT ![s][c] = OneMore(@)]
    OBVIOUS
  <2>2. /\ Buckets(b) /\ History(f, now) /\ Paid(b, GlobalKey(s), f, Policy[s].globalWindowMs)
    BY <2>1, ForGlobalSound DEF AllPaid, Histories
  <2>3. ~ Allows(b, GlobalKey(s), Policy[s].globalMax)
    BY <1>3, <2>1 DEF GlobalAllows
  <2> QED
    BY <1>1, <1>3, <2>1, <2>2, <2>3, WindowsPositive
<1> QED
  BY <1>2, <1>3 DEF RefusalsEarned

LEMMA GuardStarts ==
    ASSUME now = 0, ApiInit
    PROVE  GuardSound
<1>1. now \in Time /\ DOMAIN buckets = {}
  BY ClockAssumption DEF Time, ApiInit, GuardInit
<1>2. [t \in Time |-> 0] \in [Time -> Nat] /\ History([t \in Time |-> 0], now)
  BY <1>1 DEF History
<1>3. /\ charged = [s \in Scope |-> [c \in Client |-> [t \in Time |-> 0]]]
      /\ granted = [s \in Scope |-> [t \in Time |-> 0]]
  BY DEF ApiInit, GuardInit
<1> QED
  BY <1>1, <1>2, <1>3 DEF GuardSound, Buckets, Histories, AllPaid, Paid

LEMMA GuardAlways == ApiSpec => []GuardSound
<1>1. GuardSound /\ [ApiNext]_<<now, apiVars>> => GuardSound'
  <2> SUFFICES ASSUME GuardSound, [ApiNext]_<<now, apiVars>> PROVE GuardSound'
    OBVIOUS
  <2>1. CASE UNCHANGED <<now, apiVars>>
    BY <2>1, GuardBecomes DEF apiVars, guardVars, GuardSound
  <2> QED
    BY <2>1, PaidTicks, CallSound DEF ApiNext
<1> QED
  BY <1>1, GuardStarts, PTL DEF ApiSpec

\* request-guard.server.ts:135-164: no client and no scope is refused by the calls of others,
\* while the map has room.
THEOREM EveryRefusalIsEarned == ApiSpec => []RefusalsEarned
BY GuardAlways, EarnedIfSound, PTL
-----------------------------------------------------------------------------
(* CeilingHolds: the windows of one bucket never overlap, so that few of them  *)
(* touch a stretch of time: WindowsTouched(w, m), when none is shorter than m. *)

\* Back from start, f counts at most max in each m, whether m is a window or more.
Spread(f, m, max, start) ==
    \A t \in Int, i \in Nat :
        start - t <= i * m => UpTo(f, start - 1) - UpTo(f, t - 1) <= i * max

\* The last window of bucket k, of at least m, from start to end; before, in and after it
\* f counts calls of the bucket.  While it runs it is the bucket's own.
LastWindow(b, k, f, m, max, start, end, n) ==
    /\ start <= n /\ start + m <= end
    /\ Spread(f, m, max, start)
    /\ UpTo(f, end - 1) - UpTo(f, start - 1) <= max
    /\ UpTo(f, end - 1) = UpTo(f, n)
    /\ n < end =>
          /\ k \in DOMAIN b /\ b[k].resetAt = end
          /\ UpTo(f, n) - UpTo(f, start - 1) <= b[k].count
    /\ k \in DOMAIN b /\ b[k].resetAt > n => n < end

\* A stretch that i windows cover, beside the one it begins in.
AtMost(f, m, max) ==
    \A t \in Int, w \in Nat, i \in Nat :
        w <= i * m + 1 => UpTo(f, t + w - 1) - UpTo(f, t - 1) <= (i + 1) * max

Windowed(b, k, f, m, max, n) ==
    /\ History(f, n) /\ AtMost(f, m, max)
    /\ \E start, end \in Int : LastWindow(b, k, f, m, max, start, end, n)

\* One window more.
LEMMA OneWindowMore ==
    ASSUME NEW m \in Nat, NEW i \in Nat
    PROVE  /\ i * m \in Nat /\ (i + 1) * m = i * m + m
           /\ i # 0 => i - 1 \in Nat /\ (i - 1) * m \in Nat /\ i * m = (i - 1) * m + m
<1>1. i * m \in Nat /\ (i + 1) * m = i * m + m
  OBVIOUS
<1>2. ASSUME i # 0
      PROVE  i - 1 \in Nat /\ (i - 1) * m \in Nat /\ i * m = (i - 1) * m + m
  <2>1. i - 1 \in Nat
    BY <1>2
  <2> QED
    BY <2>1
<1> QED
  BY <1>1, <1>2

\* The windows that a stretch touches cover it, beside the first moment.
LEMMA TouchedCover ==
    ASSUME NEW w \in Nat \ {0}, NEW m \in Nat \ {0}
    PROVE  \E i \in Nat : WindowsTouched(w, m) = i + 1 /\ w <= i * m + 1
<1>1. PICK i : i = (w + m - 2) \div m
  OBVIOUS
<1>2. w + m - 2 \in Nat /\ m > 0
  OBVIOUS
<1>3. i \in Nat /\ w + m - 2 < m * i + m
  BY <1>1, <1>2
<1>4. m * i = i * m /\ i * m \in Nat
  BY <1>3
<1>5. w <= i * m + 1
  BY <1>3, <1>4
<1>6. WindowsTouched(w, m) = i + 1
  BY <1>1, <1>3 DEF WindowsTouched
<1> QED
  BY <1>3, <1>5, <1>6

\* The shortest window is one of the windows, and none is shorter.
LEMMA ShortestIsLeast ==
    ASSUME NEW s \in Scope
    PROVE  /\ ShortestWindow \in Nat \ {0}
           /\ \A t \in Scope : /\ ShortestWindow <= Policy[t].windowMs
                               /\ ShortestWindow <= Policy[t].globalWindowMs
<1>1. /\ AllWindows \subseteq Nat \ {0} /\ AllWindows # {}
      /\ \A t \in Scope : Policy[t].windowMs \in AllWindows
                          /\ Policy[t].globalWindowMs \in AllWindows
  BY WindowsPositive DEF AllWindows
<1>2. \E m \in AllWindows : \A v \in AllWindows : m <= v
  BY <1>1, LeastExists
<1>3. ShortestWindow \in AllWindows /\ \A v \in AllWindows : ShortestWindow <= v
  BY <1>2 DEF ShortestWindow
<1> QED
  BY <1>1, <1>3

\* A new window begins where the last one is over.
LEMMA SpreadMoves ==
    ASSUME now \in Time, NEW b, NEW k, NEW f, History(f, now), NEW m \in Nat \ {0},
           NEW max \in Nat, NEW start \in Int, NEW end \in Int,
           LastWindow(b, k, f, m, max, start, end, now), end <= now
    PROVE  Spread(f, m, max, now) /\ UpTo(f, now - 1) = UpTo(f, now)
<1>1. now \in Nat /\ {start - 1, end - 1, now - 1} \subseteq Int
  BY DEF Time
<1>2. /\ UpTo(f, end - 1) <= UpTo(f, now - 1) /\ UpTo(f, now - 1) <= UpTo(f, now)
      /\ UpTo(f, start - 1) <= UpTo(f, now - 1)
      /\ {UpTo(f, now), UpTo(f, now - 1), UpTo(f, end - 1), UpTo(f, start - 1)} \subseteq Nat
  BY <1>1, HistoryFacts DEF LastWindow
<1>3. UpTo(f, now - 1) = UpTo(f, now) /\ UpTo(f, now - 1) - UpTo(f, start - 1) <= max
  BY <1>2 DEF LastWindow
<1>4. ASSUME NEW t \in Int, NEW i \in Nat, now - t <= i * m
      PROVE  UpTo(f, now - 1) - UpTo(f, t - 1) <= i * max
  <2>1. t - 1 \in Int /\ UpTo(f, t - 1) \in Nat
    BY HistoryFacts
  <2>2. CASE i = 0
    <3>1. now <= t
      BY <1>1, <1>4, <2>2
    <3>2. UpTo(f, now - 1) <= UpTo(f, t - 1)
      BY <1>1, <2>1, <3>1, HistoryFacts
    <3> QED
      BY <1>2, <2>1, <2>2, <3>2
  <2>3. CASE i # 0
    <3>1. PICK j \in Nat, jm \in Nat, jmax \in Nat :
             /\ j = i - 1 /\ jm = j * m /\ jmax = j * max
             /\ i * m = jm + m /\ i * max = jmax + max
      BY <2>3, OneWindowMore
    <3>2. start - t <= j * m
      BY <1>1, <1>4, <3>1 DEF LastWindow
    <3>3. UpTo(f, start - 1) - UpTo(f, t - 1) <= jmax
      BY <3>1, <3>2 DEF LastWindow, Spread
    <3> QED
      BY <1>2, <1>3, <2>1, <3>1, <3>3
  <2> QED
    BY <2>2, <2>3
<1> QED
  BY <1>3, <1>4 DEF Spread

\* A count from now on leaves what came before.
LEMMA SpreadCounts ==
    ASSUME now \in Time, NEW f, History(f, now), NEW m \in Nat \ {0}, NEW max \in Nat,
           NEW start \in Int, start <= now, Spread(f, m, max, start)
    PROVE  Spread(OneMore(f), m, max, start)
<1>1. PICK g : g = OneMore(f)
  OBVIOUS
<1>2. \A u \in Int : UpTo(g, u) = (IF u >= now THEN UpTo(f, u) + 1 ELSE UpTo(f, u))
  BY <1>1, OneMoreFacts
<1>3. ASSUME NEW t \in Int, NEW i \in Nat, start - t <= i * m
      PROVE  UpTo(g, start - 1) - UpTo(g, t - 1) <= i * max
  <2>1. /\ start - 1 \in Int /\ t - 1 \in Int /\ start - 1 < now /\ now \in Int
        /\ UpTo(f, start - 1) \in Nat /\ UpTo(f, t - 1) \in Nat
    BY HistoryFacts DEF Time
  <2>2. UpTo(g, start - 1) = UpTo(f, start - 1) /\ UpTo(g, t - 1) >= UpTo(f, t - 1)
    BY <1>2, <2>1
  <2>3. PICK most \in Nat : most = i * max
    BY OneWindowMore
  <2>4. UpTo(f, start - 1) - UpTo(f, t - 1) <= most
    BY <1>3, <2>3 DEF Spread
  <2>5. UpTo(g, t - 1) \in Nat
    BY <1>2, <2>1
  <2> QED
    BY <2>1, <2>2, <2>3, <2>4, <2>5
<1> QED
  BY <1>1, <1>3 DEF Spread

\* A stretch that reaches this moment meets the last window and those before it.
LEMMA StretchToNow ==
    ASSUME now \in Time, NEW b, NEW k, NEW f, History(f, now), NEW m \in Nat \ {0}, NEW max \in Nat,
           NEW start \in Int, NEW end \in Int, LastWindow(b, k, f, m, max, start, end, now),
           NEW t \in Int, NEW w \in Nat, NEW i \in Nat, w <= i * m + 1, t <= now, now <= t + w - 1
    PROVE  UpTo(f, t + w - 1) - UpTo(f, t - 1) <= (i + 1) * max
<1>1. now \in Nat /\ {t + w - 1, t - 1, start - 1, end - 1} \subseteq Int
  BY DEF Time
<1>2. {UpTo(f, now), UpTo(f, t + w - 1), UpTo(f, t - 1), UpTo(f, start - 1),
       UpTo(f, end - 1)} \subseteq Nat
  BY <1>1, HistoryFacts
<1>3. UpTo(f, t + w - 1) = UpTo(f, now)
  BY <1>1, HistoryFacts
<1>4. PICK im \in Nat, most \in Nat : im = i * m /\ most = i * max /\ (i + 1) * max = most + max
  BY OneWindowMore
<1>5. start - t <= i * m
  BY <1>1, <1>4 DEF LastWindow
<1>6. UpTo(f, start - 1) - UpTo(f, t - 1) <= most
  BY <1>4, <1>5 DEF LastWindow, Spread
<1> QED
  BY <1>2, <1>3, <1>4, <1>6 DEF LastWindow

\* A step of the clock.
LEMMA WindowTicks ==
    ASSUME now \in Time, now' = now + 1, now' \in Time, NEW b, Buckets(b), NEW k, NEW f,
           NEW m \in Nat \ {0}, NEW max \in Nat, Windowed(b, k, f, m, max, now)
    PROVE  Windowed(b, k, f, m, max, now')
<1>1. PICK start \in Int, end \in Int : LastWindow(b, k, f, m, max, start, end, now)
  BY DEF Windowed
<1>2. History(f, now) /\ History(f, now') /\ AtMost(f, m, max)
  BY HistoryTicks DEF Windowed
<1>3. now \in Nat /\ end - 1 \in Int /\ UpTo(f, now') = UpTo(f, now)
  BY <1>2, HistoryFacts DEF Time
<1>4. k \in DOMAIN b => b[k].resetAt \in Nat
  BY DEF Buckets, Bucket
<1>5. LastWindow(b, k, f, m, max, start, end, now')
  BY <1>1, <1>3, <1>4 DEF LastWindow, UpTo, Running
<1> QED
  BY <1>2, <1>5 DEF Windowed, AtMost, UpTo

\* A sweep leaves the buckets that run.
LEMMA WindowSwept ==
    ASSUME now \in Time, NEW b, Buckets(b), NEW ops, NEW k, NEW f,
           NEW m \in Nat \ {0}, NEW max \in Nat, Windowed(b, k, f, m, max, now)
    PROVE  Windowed(Swept(b, ops), k, f, m, max, now)
<1>1. PICK start \in Int, end \in Int : LastWindow(b, k, f, m, max, start, end, now)
  BY DEF Windowed
<1>2. PICK left : left = Swept(b, ops)
  OBVIOUS
<1>3. /\ \A j \in DOMAIN left : j \in DOMAIN b /\ left[j] = b[j]
      /\ \A j \in DOMAIN b : b[j].resetAt > now => j \in DOMAIN left
  BY <1>2, SweptKey
<1>4. LastWindow(left, k, f, m, max, start, end, now)
  BY <1>1, <1>3 DEF LastWindow, Running, Time
<1> QED
  BY <1>2, <1>4 DEF Windowed

\* A call that f does not count, under this key or another.
LEMMA WindowBeside ==
    ASSUME now \in Time, NEW b, Buckets(b), NEW key, NEW span \in Nat, NEW k, NEW f,
           NEW m \in Nat \ {0}, NEW max \in Nat, Windowed(b, k, f, m, max, now),
           BoundedKey(b, key) = k => m <= span
    PROVE  Windowed(Consumed(b, key, span), k, f, m, max, now)
<1>1. PICK start \in Int, end \in Int : LastWindow(b, k, f, m, max, start, end, now)
  BY DEF Windowed
<1>2. PICK j, after : j = BoundedKey(b, key) /\ after = Consumed(b, key, span)
  OBVIOUS
<1>3. now \in Nat
  BY DEF Time
<1>4. /\ Buckets(after) /\ DOMAIN after = DOMAIN b \cup {j}
      /\ \A i \in DOMAIN b : i # j => after[i] = b[i]
      /\ Running(b, j) => after[j].count = b[j].count + 1 /\ after[j].resetAt = b[j].resetAt
      /\ ~ Running(b, j) => after[j].count = 1 /\ after[j].resetAt = now + span
  BY <1>2, <1>3, ConsumedKey
<1>5. History(f, now) /\ AtMost(f, m, max)
  BY DEF Windowed
<1>6. \A t \in Int : UpTo(f, t) \in Nat
  BY <1>5, HistoryFacts
<1>7. CASE j # k
  <2>1. LastWindow(after, k, f, m, max, start, end, now)
    BY <1>1, <1>4, <1>7 DEF LastWindow, Running
  <2> QED
    BY <1>2, <1>5, <2>1 DEF Windowed
<1>8. CASE j = k /\ Running(b, k)
  <2>1. b[k].count \in Nat /\ UpTo(f, now) \in Nat /\ UpTo(f, start - 1) \in Nat
    BY <1>3, <1>6, <1>8 DEF Running, Buckets, Bucket
  <2>2. LastWindow(after, k, f, m, max, start, end, now)
    BY <1>1, <1>4, <1>8, <2>1 DEF LastWindow, Running
  <2> QED
    BY <1>2, <1>5, <2>2 DEF Windowed
<1>9. CASE j = k /\ ~ Running(b, k)
  <2>1. after[k].resetAt = now + span /\ after[k].count = 1 /\ k \in DOMAIN after
    BY <1>4, <1>9
  <2>2. end <= now
    BY <1>1, <1>3, <1>9 DEF LastWindow, Running
  <2>3. Spread(f, m, max, now) /\ UpTo(f, now - 1) = UpTo(f, now)
    BY <1>1, <1>5, <2>2, SpreadMoves
  <2>4. /\ now - 1 \in Int /\ now + span \in Int /\ now + span - 1 \in Int
        /\ m <= span /\ now < now + span /\ now <= now + span - 1 /\ now + m <= now + span
    BY <1>2, <1>3, <1>9
  <2>5. UpTo(f, now + span - 1) = UpTo(f, now) /\ UpTo(f, now) \in Nat
    BY <1>3, <1>5, <1>6, <2>4, HistoryFacts
  <2>6. LastWindow(after, k, f, m, max, now, now + span, now)
    BY <1>3, <2>1, <2>3, <2>4, <2>5 DEF LastWindow
  <2> QED
    BY <1>2, <1>3, <1>5, <2>4, <2>6 DEF Windowed
<1> QED
  BY <1>7, <1>8, <1>9

\* A call under this key that is let pass, and that f counts.
LEMMA WindowOwn ==
    ASSUME now \in Time, NEW b, Buckets(b), NEW key, NEW span \in Nat, NEW k, NEW f,
           NEW m \in Nat \ {0}, NEW max \in Nat \ {0}, m <= span, Windowed(b, k, f, m, max, now),
           k = BoundedKey(b, key), Allows(b, key, max)
    PROVE  Windowed(Consumed(b, key, span), k, OneMore(f), m, max, now)
<1>1. PICK after, g : after = Consumed(b, key, span) /\ g = OneMore(f)
  OBVIOUS
<1>2. now \in Nat /\ History(f, now) /\ History(g, now)
  BY <1>1, OneMoreFacts DEF Windowed, Time
<1>3. \A t \in Int : UpTo(g, t) = (IF t >= now THEN UpTo(f, t) + 1 ELSE UpTo(f, t))
  BY <1>1, <1>2, OneMoreFacts
<1>4. \A t \in Int : UpTo(f, t) \in Nat
  BY <1>2, HistoryFacts
<1>5. /\ Buckets(after) /\ DOMAIN after = DOMAIN b \cup {k}
      /\ Running(b, k) => after[k].count = b[k].count + 1 /\ after[k].resetAt = b[k].resetAt
      /\ ~ Running(b, k) => after[k].count = 1 /\ after[k].resetAt = now + span
  <2>1. now \in Nat
    BY <1>2
  <2>2. after = Consumed(b, key, span)
    BY <1>1
  <2> QED
    BY <2>1, <2>2, ConsumedKey
<1>6. \E start, end \in Int : LastWindow(after, k, g, m, max, start, end, now)
  <2>1. Windowed(after, k, f, m, max, now)
    BY <1>1, WindowBeside
  <2>2. PICK start \in Int, end \in Int : LastWindow(b, k, f, m, max, start, end, now)
    BY DEF Windowed
  <2>3. CASE Running(b, k)
    <3>1. /\ k \in DOMAIN b /\ b[k].resetAt = end /\ now < end /\ start <= now
          /\ UpTo(f, now) - UpTo(f, start - 1) <= b[k].count /\ b[k].count < max
      BY <2>2, <2>3 DEF LastWindow, Running, Allows
    <3>2. b[k].count \in Nat /\ {start - 1, end - 1} \subseteq Int
      BY <3>1 DEF Buckets, Bucket
    <3>3. /\ UpTo(g, now) = UpTo(f, now) + 1 /\ UpTo(g, end - 1) = UpTo(f, end - 1) + 1
          /\ UpTo(g, start - 1) = UpTo(f, start - 1)
      BY <1>2, <1>3, <3>1, <3>2
    <3>4. {UpTo(f, now), UpTo(f, end - 1), UpTo(f, start - 1)} \subseteq Nat
      BY <1>2, <1>4, <3>2
    <3>5. after[k].count = b[k].count + 1 /\ after[k].resetAt = end /\ k \in DOMAIN after
      BY <1>5, <2>3, <3>1
    <3>6. Spread(g, m, max, start)
      BY <1>1, <1>2, <2>2, <3>1, SpreadCounts DEF LastWindow
    <3>7. LastWindow(after, k, g, m, max, start, end, now)
      BY <1>2, <2>2, <3>1, <3>2, <3>3, <3>4, <3>5, <3>6 DEF LastWindow
    <3> QED
      BY <3>7
  <2>4. CASE ~ Running(b, k)
    <3>1. k \in DOMAIN after /\ after[k].count = 1 /\ after[k].resetAt = now + span
      BY <1>5, <2>4
    <3>2. end <= now
      BY <1>2, <2>2, <2>4 DEF LastWindow, Running
    <3>3. Spread(f, m, max, now) /\ UpTo(f, now - 1) = UpTo(f, now)
      BY <1>2, <2>2, <3>2, SpreadMoves
    <3>4. Spread(g, m, max, now)
      BY <1>1, <1>2, <3>3, SpreadCounts
    <3>5. /\ now - 1 \in Int /\ now + span \in Int /\ now + span - 1 \in Int
          /\ now < now + span /\ now <= now + span - 1 /\ now + m <= now + span
      BY <1>2
    <3>6. UpTo(f, now + span - 1) = UpTo(f, now) /\ UpTo(f, now) \in Nat
      BY <1>2, <1>4, <3>5, HistoryFacts
    <3>7. /\ UpTo(g, now) = UpTo(f, now) + 1 /\ UpTo(g, now + span - 1) = UpTo(f, now) + 1
          /\ UpTo(g, now - 1) = UpTo(f, now - 1)
      BY <1>2, <1>3, <3>5, <3>6
    <3>8. LastWindow(after, k, g, m, max, now, now + span, now)
      BY <1>2, <3>1, <3>3, <3>4, <3>5, <3>6, <3>7 DEF LastWindow
    <3> QED
      BY <1>2, <3>5, <3>8
  <2> QED
    BY <2>3, <2>4
<1>7. AtMost(g, m, max)
  <2> SUFFICES ASSUME NEW t \in Int, NEW w \in Nat, NEW i \in Nat, w <= i * m + 1
               PROVE  UpTo(g, t + w - 1) - UpTo(g, t - 1) <= (i + 1) * max
    BY DEF AtMost
  <2>1. CASE t <= now /\ now <= t + w - 1
    BY <1>2, <1>6, <2>1, StretchToNow
  <2>2. CASE ~ (t <= now /\ now <= t + w - 1)
    <3>1. PICK most : most = (i + 1) * max
      OBVIOUS
    <3>2. UpTo(f, t + w - 1) - UpTo(f, t - 1) <= most
      BY <3>1 DEF Windowed, AtMost
    <3>3. t + w - 1 \in Int /\ t - 1 \in Int /\ most \in Nat
      BY <3>1, OneWindowMore
    <3>4. UpTo(g, t + w - 1) - UpTo(g, t - 1) <= most
      BY <1>2, <1>3, <1>4, <2>2, <3>2, <3>3
    <3> QED
      BY <3>1, <3>4
  <2> QED
    BY <2>1, <2>2
<1> QED
  BY <1>1, <1>2, <1>6, <1>7 DEF Windowed

-----------------------------------------------------------------------------
\* A scope's requests are served by its own bucket or by the overflow bucket.
Served(b, f, s, n) ==
    \E own, over \in [Time -> Nat] :
        /\ \A t \in Time : f[t] = own[t] + over[t]
        /\ Windowed(b, GlobalKey(s), own, Policy[s].globalWindowMs, Policy[s].globalMax, n)
        /\ Windowed(b, Overflow, over, ShortestWindow, Policy[s].globalMax, n)

AllServed(b, admitted, n) == \A s \in Scope : Served(b, admitted[s], s, n)

Ceilings ==
    /\ now \in Time /\ Buckets(buckets)
    /\ granted \in [Scope -> [Time -> Nat]] /\ AllServed(buckets, granted, now)

LEMMA ServedSwept ==
    ASSUME now \in Time, NEW b, Buckets(b), NEW ops, NEW admitted, AllServed(b, admitted, now)
    PROVE  AllServed(Swept(b, ops), admitted, now)
BY WindowSwept, WindowsPositive, ShortestIsLeast DEF AllServed, Served

\* A call under another key than the scope's own, which may be moved to the overflow bucket.
LEMMA ServedBeside ==
    ASSUME now \in Time, NEW b, Buckets(b), NEW key, NEW span \in Nat,
           NEW s \in Scope, key # GlobalKey(s), Overflow # GlobalKey(s), ShortestWindow <= span,
           NEW f, Served(b, f, s, now)
    PROVE  Served(Consumed(b, key, span), f, s, now)
<1>1. BoundedKey(b, key) # GlobalKey(s)
  BY DEF BoundedKey
<1> QED
  BY <1>1, WindowBeside, WindowsPositive, ShortestIsLeast DEF Served

LEMMA ServedOwn ==
    ASSUME now \in Time, NEW b, Buckets(b), NEW s \in Scope, NEW f \in [Time -> Nat],
           Served(b, f, s, now), Allows(b, GlobalKey(s), Policy[s].globalMax)
    PROVE  Served(Consumed(b, GlobalKey(s), Policy[s].globalWindowMs), OneMore(f), s, now)
<1>1. PICK w, m, max, after : /\ w = Policy[s].globalWindowMs /\ max = Policy[s].globalMax
                              /\ m = ShortestWindow /\ after = Consumed(b, GlobalKey(s), w)
  OBVIOUS
<1>2. /\ w \in Nat \ {0} /\ max \in Nat \ {0} /\ w \in Nat /\ w <= w /\ max \in Nat
      /\ m \in Nat \ {0} /\ m <= w
  BY <1>1, WindowsPositive, ShortestIsLeast
<1>3. PICK own \in [Time -> Nat], over \in [Time -> Nat] :
         /\ \A t \in Time : f[t] = own[t] + over[t]
         /\ Windowed(b, GlobalKey(s), own, w, max, now) /\ Windowed(b, Overflow, over, m, max, now)
  BY <1>1 DEF Served
<1>4. /\ Windowed(after, GlobalKey(s), own, w, max, now)
      /\ Windowed(after, Overflow, over, m, max, now)
  BY <1>1, <1>2, <1>3, WindowBeside
<1>5. OneMore(own) \in [Time -> Nat] /\ OneMore(over) \in [Time -> Nat]
  BY <1>3 DEF OneMore
<1>6. CASE BoundedKey(b, GlobalKey(s)) = GlobalKey(s)
  <2>1. Windowed(after, GlobalKey(s), OneMore(own), w, max, now)
    BY <1>1, <1>2, <1>3, <1>6, WindowOwn
  <2>2. \A t \in Time : OneMore(f)[t] = OneMore(own)[t] + over[t]
    BY <1>3 DEF OneMore, Time
  <2> QED
    BY <1>1, <1>4, <1>5, <2>1, <2>2 DEF Served
<1>7. CASE BoundedKey(b, GlobalKey(s)) = Overflow
  <2>1. Windowed(after, Overflow, OneMore(over), m, max, now)
    BY <1>1, <1>2, <1>3, <1>7, WindowOwn
  <2>2. \A t \in Time : OneMore(f)[t] = own[t] + OneMore(over)[t]
    BY <1>3 DEF OneMore, Time
  <2> QED
    BY <1>1, <1>4, <1>5, <2>1, <2>2 DEF Served
<1> QED
  BY <1>6, <1>7 DEF BoundedKey

\* The map after a call's first bucket is charged.
LEMMA ServedByClient ==
    ASSUME Ceilings, NEW s \in Scope, NEW c \in Client
    PROVE  /\ Buckets(ForClient) /\ AllServed(ForClient, granted, now)
           /\ Buckets(ForGlobal(s, c)) /\ AllServed(ForGlobal(s, c), granted, now)
<1>1. Buckets(ForClient) /\ AllServed(ForClient, granted, now)
  BY SweptKey, ServedSwept DEF Ceilings, ForClient
<1>2. PICK b, after, key, span :
         /\ b = ForClient /\ key = ClientKey(s, c) /\ span = Policy[s].windowMs
         /\ after = Consumed(b, key, span)
  OBVIOUS
<1>3. now \in Time /\ now \in Nat /\ span \in Nat
  BY <1>2, WindowsPositive DEF Ceilings, Time
<1>4. Buckets(after)
  BY <1>1, <1>2, <1>3, ConsumedKey
<1>5. AllServed(after, granted, now)
  <2> SUFFICES ASSUME NEW t \in Scope PROVE Served(after, granted[t], t, now)
    BY DEF AllServed
  <2>1. /\ key # GlobalKey(t) /\ Overflow # GlobalKey(t) /\ ShortestWindow <= span
    BY <1>2, KeysApart, ShortestIsLeast
  <2>2. Served(b, granted[t], t, now)
    BY <1>1, <1>2 DEF AllServed
  <2> QED
    BY <1>1, <1>2, <1>3, <2>1, <2>2, ServedBeside
<1> QED
  BY <1>1, <1>2, <1>3, <1>4, <1>5, SweptKey, ServedSwept DEF ForGlobal

\* While the clock stands still, Ceilings is of the map and the history.
LEMMA CeilingsBecome ==
    ASSUME Ceilings, now' = now, NEW b, NEW admitted, Buckets(b),
           admitted \in [Scope -> [Time -> Nat]], AllServed(b, admitted, now),
           buckets' = b, granted' = admitted
    PROVE  Ceilings'
BY DEF Ceilings, Buckets

LEMMA CeilingsAtCall ==
    ASSUME Ceilings, NEW s \in Scope, NEW c \in Client, CallApi(s, c)
    PROVE  Ceilings'
<1>1. PICK b, g : b = ForClient /\ g = ForGlobal(s, c)
  OBVIOUS
<1>2. /\ Buckets(b) /\ AllServed(b, granted, now) /\ Buckets(g) /\ AllServed(g, granted, now)
      /\ granted \in [Scope -> [Time -> Nat]]
  BY <1>1, ServedByClient DEF Ceilings
<1>3. now' = now
  BY DEF CallApi
<1>4. CASE Admit(s, c)
  <2>1. PICK after, more, w : /\ w = Policy[s].globalWindowMs
                              /\ after = Consumed(g, GlobalKey(s), w)
                              /\ more = [granted EXCEPT ![s] = OneMore(@)]
    OBVIOUS
  <2>2. buckets' = after /\ granted' = more /\ Allows(g, GlobalKey(s), Policy[s].globalMax)
    BY <1>1, <1>4, <2>1 DEF Admit, GlobalAllows
  <2>3. now \in Time /\ now \in Nat /\ w \in Nat
    BY <2>1, WindowsPositive DEF Ceilings, Time
  <2>4. Buckets(after)
    BY <1>2, <2>1, <2>3, ConsumedKey
  <2>5. /\ more \in [Scope -> [Time -> Nat]] /\ more[s] = OneMore(granted[s])
        /\ \A t \in Scope : t # s => more[t] = granted[t]
    <3>1. OneMore(granted[s]) \in [Time -> Nat]
      BY <1>2 DEF OneMore
    <3> QED
      BY <1>2, <2>1, <3>1
  <2>6. Served(after, more[s], s, now)
    BY <1>2, <2>1, <2>2, <2>3, <2>5, ServedOwn DEF AllServed
  <2>7. ASSUME NEW t \in Scope, t # s
        PROVE  Served(after, more[t], t, now)
    <3>1. GlobalKey(s) # GlobalKey(t) /\ Overflow # GlobalKey(t) /\ ShortestWindow <= w
      BY <2>1, <2>7, KeysApart, ShortestIsLeast
    <3> QED
      BY <1>2, <2>1, <2>3, <2>5, <2>7, <3>1, ServedBeside DEF AllServed
  <2> QED
    BY <1>3, <2>2, <2>4, <2>5, <2>6, <2>7, CeilingsBecome DEF AllServed
<1>5. CASE DenyGlobal(s, c)
  BY <1>1, <1>2, <1>3, <1>5, CeilingsBecome DEF DenyGlobal
<1>6. CASE DenyClient(s, c)
  BY <1>1, <1>2, <1>3, <1>6, CeilingsBecome DEF DenyClient
<1> QED
  BY <1>4, <1>5, <1>6 DEF CallApi

LEMMA CeilingsTick ==
    ASSUME Ceilings, ApiTick
    PROVE  Ceilings'
<1>1. /\ now \in Time /\ now' = now + 1 /\ now' \in Time
      /\ UNCHANGED <<buckets, granted>>
  BY ApiAssumption, ClockAssumption DEF Ceilings, ApiTick, apiVars, guardVars, Time
<1>2. PICK b, admitted : b = buckets /\ admitted = granted
  OBVIOUS
<1>3. AllServed(b, admitted, now')
  <2>1. ASSUME NEW s \in Scope
        PROVE  Served(b, admitted[s], s, now')
    <3>1. PICK w, m, max, key : /\ w = Policy[s].globalWindowMs /\ m = ShortestWindow
                                /\ max = Policy[s].globalMax /\ key = GlobalKey(s)
      OBVIOUS
    <3>2. PICK own \in [Time -> Nat], over \in [Time -> Nat] :
             /\ \A t \in Time : admitted[s][t] = own[t] + over[t]
             /\ Windowed(b, key, own, w, max, now) /\ Windowed(b, Overflow, over, m, max, now)
      BY <1>2, <3>1 DEF Ceilings, AllServed, Served
    <3>3. Windowed(b, key, own, w, max, now') /\ Windowed(b, Overflow, over, m, max, now')
      BY <1>1, <1>2, <3>1, <3>2, WindowTicks, WindowsPositive, ShortestIsLeast DEF Ceilings
    <3> QED
      BY <3>1, <3>2, <3>3
      DEF Served
  <2> QED
    BY <2>1 DEF AllServed
<1> QED
  BY <1>1, <1>2, <1>3
  DEF Ceilings, Buckets

LEMMA CeilingsStart ==
    ASSUME now = 0, ApiInit
    PROVE  Ceilings
<1>1. PICK none, b : none = [t \in Time |-> 0] /\ b = buckets
  OBVIOUS
<1>2. now \in Time /\ DOMAIN b = {} /\ granted = [s \in Scope |-> none]
  BY <1>1, ClockAssumption DEF Time, ApiInit, GuardInit
<1>3. none \in [Time -> Nat] /\ History(none, now) /\ \A t \in Time : none[t] = none[t] + none[t]
  BY <1>1, <1>2 DEF History
<1>4. \A t \in Int : UpTo(none, t) = 0
  BY <1>1, ClockAssumption DEF UpTo, Time
<1>5. ASSUME NEW k, NEW m \in Nat \ {0}, NEW max \in Nat
      PROVE  Windowed(b, k, none, m, max, now)
  <2>1. AtMost(none, m, max)
    <3> SUFFICES ASSUME NEW t \in Int, NEW w \in Nat, NEW i \in Nat
                 PROVE  UpTo(none, t + w - 1) - UpTo(none, t - 1) <= (i + 1) * max
      BY DEF AtMost
    <3>1. t + w - 1 \in Int /\ t - 1 \in Int /\ (i + 1) * max \in Nat
      OBVIOUS
    <3> QED
      BY <1>4, <3>1
  <2>2. 0 - m \in Int /\ 0 - m - 1 \in Int /\ 0 - 1 \in Int
    OBVIOUS
  <2>3. Spread(none, m, max, 0 - m)
    <3> SUFFICES ASSUME NEW t \in Int, NEW i \in Nat
                 PROVE  UpTo(none, 0 - m - 1) - UpTo(none, t - 1) <= i * max
      BY DEF Spread
    <3>1. t - 1 \in Int /\ i * max \in Nat
      OBVIOUS
    <3> QED
      BY <1>4, <2>2, <3>1
  <2>4. LastWindow(b, k, none, m, max, 0 - m, 0, now)
    BY <1>2, <1>4, <2>2, <2>3 DEF LastWindow, Running
  <2> QED
    BY <1>3, <2>1, <2>2, <2>4 DEF Windowed
<1>6. ASSUME NEW s \in Scope
      PROVE  Served(b, none, s, now)
  BY <1>3, <1>5, WindowsPositive, ShortestIsLeast DEF Served
<1> QED
  BY <1>1, <1>2, <1>3, <1>6 DEF Ceilings, Buckets, AllServed

LEMMA CeilingsAlways == ApiSpec => []Ceilings
<1>1. Ceilings /\ [ApiNext]_<<now, apiVars>> => Ceilings'
  <2> SUFFICES ASSUME Ceilings, [ApiNext]_<<now, apiVars>> PROVE Ceilings'
    OBVIOUS
  <2>1. CASE UNCHANGED <<now, apiVars>>
    BY <2>1, CeilingsBecome DEF apiVars, guardVars, Ceilings
  <2> QED
    BY <2>1, CeilingsTick, CeilingsAtCall DEF ApiNext
<1> QED
  BY <1>1, CeilingsStart, PTL DEF ApiSpec

\* request-guard.server.ts:46-57: no stretch of a scope's burst window sees more admitted than
\* its ceiling for each window of its own bucket, and of the overflow bucket, that the stretch
\* can touch, however clients fill the map, whatever is swept and whoever opens the overflow
\* bucket with however short a window.
THEOREM CeilingAlwaysHolds == ApiSpec => []CeilingHolds
<1>1. Ceilings => CeilingHolds
  <2> SUFFICES ASSUME Ceilings, NEW s \in Scope, NEW t \in Time, NEW w, w = Policy[s].globalWindowMs
               PROVE  Total(granted[s], t, t + w - 1)
                         <= (WindowsTouched(w, w) + WindowsTouched(w, ShortestWindow))
                               * Policy[s].globalMax
    BY DEF CeilingHolds
  <2>1. PICK m, max, f : /\ m = ShortestWindow /\ max = Policy[s].globalMax
                         /\ f = granted[s]
    OBVIOUS
  <2>2. /\ w \in Nat \ {0} /\ m \in Nat \ {0} /\ max \in Nat \ {0} /\ max \in Nat /\ w \in Nat
        /\ now \in Time /\ t \in Nat
    BY <2>1, WindowsPositive, ShortestIsLeast DEF Ceilings, Time
  <2>3. PICK own \in [Time -> Nat], over \in [Time -> Nat] :
           /\ \A u \in Time : f[u] = own[u] + over[u]
           /\ History(own, now) /\ AtMost(own, w, max)
           /\ History(over, now) /\ AtMost(over, m, max)
    BY <2>1 DEF Ceilings, AllServed, Served, Windowed
  <2>4. ASSUME NEW u \in Int
        PROVE  /\ UpTo(f, u) = UpTo(own, u) + UpTo(over, u)
               /\ UpTo(own, u) \in Nat /\ UpTo(over, u) \in Nat
    <3>1. UpTo(f, u) = UpTo(own, u) + UpTo(over, u)
      BY <2>3, ClockAssumption DEF UpTo, Time
    <3> QED
      BY <2>2, <2>3, <3>1, HistoryFacts
  <2>5. t \in Int /\ t + w - 1 \in Int /\ t - 1 \in Int
    BY <2>2
  <2>6. PICK i \in Nat, j \in Nat : /\ WindowsTouched(w, w) = i + 1 /\ w <= i * w + 1
                                   /\ WindowsTouched(w, m) = j + 1 /\ w <= j * m + 1
    BY <2>2, TouchedCover
  <2>7. /\ UpTo(own, t + w - 1) - UpTo(own, t - 1) <= (i + 1) * max
        /\ UpTo(over, t + w - 1) - UpTo(over, t - 1) <= (j + 1) * max
    BY <2>2, <2>3, <2>5, <2>6 DEF AtMost
  <2>8. PICK ours \in Nat, others \in Nat :
           ours = (i + 1) * max /\ others = (j + 1) * max
    BY <2>2
  <2>9. ((i + 1) + (j + 1)) * max = ours + others
    BY <2>2, <2>8
  <2>10. UpTo(f, t + w - 1) - UpTo(f, t - 1) <= ours + others
    BY <2>4, <2>5, <2>7, <2>8
  <2> QED
    BY <2>1, <2>6, <2>9, <2>10 DEF Total
<1> QED
  BY <1>1, CeilingsAlways, PTL
-----------------------------------------------------------------------------
(* TypeOK: the cache.  Its order lists its keys, each once.                  *)

\* A list of keys without repetition, and what filtering leaves of it.
Once(o) == o \in Seq(Key) /\ \A i, j \in 1 .. Len(o) : i < j => o[i] # o[j]

Chosen(rest, o, keep) ==
    /\ Once(rest) /\ Len(rest) \in Nat /\ Len(rest) <= Len(o)
    /\ \A i \in 1 .. Len(rest) :
          rest[i] \in keep /\ \E p \in 1 .. Len(o) : rest[i] = o[p]
    /\ \A p \in 1 .. Len(o) : o[p] \in keep => \E i \in 1 .. Len(rest) : rest[i] = o[p]

LEMMA OnlyOnce ==
    ASSUME NEW o, Once(o), NEW keep, NEW rest, rest = Only(o, keep)
    PROVE  Chosen(rest, o, keep)
<1>1. Filtered(rest, o, keep, Len(o), Key)
  BY OnlyFilters DEF Once
<1>2. ASSUME NEW i \in 1 .. Len(rest), NEW j \in 1 .. Len(rest), i < j
      PROVE  rest[i] # rest[j]
  <2>1. PICK p \in 1 .. Len(o), q \in 1 .. Len(o) : p < q /\ rest[i] = o[p] /\ rest[j] = o[q]
    BY <1>1, <1>2 DEF Filtered, Subsequence
  <2> QED
    BY <2>1 DEF Once
<1>3. rest \in Seq(Key) /\ Len(rest) \in Nat /\ Len(rest) <= Len(o)
  BY <1>1 DEF Filtered
<1>4. \A i \in 1 .. Len(rest) : rest[i] \in keep /\ \E p \in 1 .. Len(o) : rest[i] = o[p]
  BY <1>1 DEF Filtered
<1>5. \A p \in 1 .. Len(o) : o[p] \in keep => \E i \in 1 .. Len(rest) : rest[i] = o[p]
  BY <1>1 DEF Filtered
<1> QED
  BY <1>2, <1>3, <1>4, <1>5 DEF Once, Chosen

\* The order lists the keys, each once.
Listed(o, e) ==
    /\ Once(o) /\ Len(o) <= MaxEntries
    /\ \A i \in 1 .. Len(o) : o[i] \in DOMAIN e
    /\ \A k \in DOMAIN e : \E i \in 1 .. Len(o) : o[i] = k
    /\ e \in [DOMAIN e -> Nat]

\* A miss takes the key out of both.
LEMMA DroppedListed ==
    ASSUME Listed(order, expiresAt), NEW k \in Key, Dropped(k)
    PROVE  Listed(order', expiresAt')
<1>1. PICK keep, rest : keep = Key \ {k} /\ rest = Only(order, keep)
  OBVIOUS
<1>2. Chosen(rest, order, keep)
  BY <1>1, OnlyOnce DEF Listed
<1>3. PICK e : e = expiresAt'
  OBVIOUS
<1>4. /\ DOMAIN e = DOMAIN expiresAt \ {k}
      /\ e \in [DOMAIN e -> Nat]
  BY <1>3 DEF Dropped, Restrict, Listed
<1>5. \A i \in 1 .. Len(rest) : rest[i] \in DOMAIN e
  BY <1>1, <1>2, <1>4 DEF Listed, Chosen
<1>6. ASSUME NEW j \in DOMAIN e PROVE \E i \in 1 .. Len(rest) : rest[i] = j
  <2>1. PICK p \in 1 .. Len(order) : order[p] = j
    BY <1>4, <1>6 DEF Listed
  <2>2. order[p] \in keep
    BY <1>1, <1>4, <1>6, <2>1 DEF Listed, Once
  <2> QED
    BY <1>2, <2>1, <2>2 DEF Chosen
<1>7. Once(rest) /\ Len(rest) <= MaxEntries
  BY <1>2, CacheAssumption DEF Listed, Chosen, Once
<1>8. Listed(rest, e)
  BY <1>2, <1>4, <1>5, <1>6, <1>7 DEF Listed
<1>9. order' = rest
  BY <1>1 DEF Dropped
<1> QED
  BY <1>3, <1>8, <1>9

\* trimActivityCache keeps the entries that are live, each once, and the newest of them.
LEMMA TrimmedOnce ==
    ASSUME NEW e, NEW o, Once(o), NEW kept, kept = Trimmed(e, o)
    PROVE  /\ Once(kept) /\ Len(kept) <= MaxEntries
           /\ \A i \in 1 .. Len(kept) : kept[i] \in DOMAIN e
<1>1. PICK keep, live, excess :
         /\ keep = {k \in DOMAIN e : e[k] > now}
         /\ live = Only(o, keep)
         /\ excess = IF Len(live) > MaxEntries THEN Len(live) - MaxEntries ELSE 0
  OBVIOUS
<1>2. /\ live \in Seq(Key) /\ Len(live) \in Nat
      /\ \A i, j \in 1 .. Len(live) : i < j => live[i] # live[j]
      /\ \A i \in 1 .. Len(live) : live[i] \in keep
  <2>1. Chosen(live, o, keep)
    BY <1>1, OnlyOnce
  <2> QED
    BY <2>1 DEF Chosen, Once
<1>3. MaxEntries \in Nat /\ excess \in Nat /\ excess <= Len(live) /\ Len(live) - excess <= MaxEntries
  BY <1>1, <1>2, CacheAssumption
<1>4. kept = SubSeq(live, excess + 1, Len(live))
  BY <1>1 DEF Trimmed, Live
<1>5. /\ kept \in Seq(Key) /\ Len(kept) = Len(live) - excess
      /\ \A i \in 1 .. Len(kept) : i + excess \in 1 .. Len(live) /\ kept[i] = live[i + excess]
  BY <1>2, <1>3, <1>4
<1>6. ASSUME NEW i \in 1 .. Len(kept), NEW j \in 1 .. Len(kept), i < j
      PROVE  kept[i] # kept[j]
  <2>1. PICK p \in 1 .. Len(live), q \in 1 .. Len(live) :
           p = i + excess /\ q = j + excess /\ kept[i] = live[p] /\ kept[j] = live[q]
    BY <1>5
  <2>2. p < q
    <3>1. Len(kept) \in Nat
      BY <1>2, <1>3, <1>5
    <3>2. i \in Nat /\ j \in Nat /\ i < j
      BY <1>6, <3>1
    <3> QED
      BY <1>3, <2>1, <3>2
  <2> QED
    BY <1>2, <2>1, <2>2
<1>7. \A i \in 1 .. Len(kept) : kept[i] \in DOMAIN e
  BY <1>1, <1>2, <1>5
<1> QED
  BY <1>3, <1>5, <1>6, <1>7 DEF Once

LEMMA SettleListed ==
    ASSUME now \in Nat, Listed(order, expiresAt), NEW r \in Slot, slots[r].key \in Key,
           NEW retryable \in BOOLEAN, Settle(r, retryable)
    PROVE  Listed(order', expiresAt')
<1>1. PICK k, e, o, kept :
         /\ k = slots[r].key
         /\ e = [j \in DOMAIN expiresAt \cup {k} |->
                    IF j = k THEN now + ResultTtl(retryable) ELSE expiresAt[j]]
         /\ o = IF k \in DOMAIN expiresAt THEN order ELSE Append(order, k)
         /\ kept = Trimmed(e, o)
  OBVIOUS
<1>2. order' = kept /\ expiresAt' = Restrict(e, ToSet(kept))
  BY <1>1 DEF Settle
<1>3. Once(order) /\ order \in Seq(Key) /\ Len(order) \in Nat
  BY DEF Listed, Once
<1>4. Once(o)
  <2>1. CASE k \in DOMAIN expiresAt
    BY <1>1, <1>3, <2>1 DEF Listed
  <2>2. CASE k \notin DOMAIN expiresAt
    <3>1. o = Append(order, k)
      BY <1>1, <2>2
    <3>2. /\ o \in Seq(Key) /\ Len(o) = Len(order) + 1 /\ o[Len(order) + 1] = k
          /\ \A i \in 1 .. Len(order) : o[i] = order[i]
      BY <1>1, <1>3, <3>1
    <3>3. \A i \in 1 .. Len(order) : order[i] # k
      BY <2>2 DEF Listed
    <3>4. ASSUME NEW i \in 1 .. Len(o), NEW j \in 1 .. Len(o), i < j
          PROVE  o[i] # o[j]
      <4>1. i \in 1 .. Len(order)
        BY <1>3, <3>2, <3>4
      <4>2. CASE j = Len(order) + 1
        BY <3>2, <3>3, <4>1, <4>2
      <4>3. CASE j \in 1 .. Len(order)
        BY <1>3, <3>2, <3>4, <4>1, <4>3 DEF Once
      <4> QED
        BY <1>3, <3>2, <4>2, <4>3
    <3> QED
      BY <3>2, <3>4 DEF Once
  <2> QED
    BY <2>1, <2>2
<1>5. /\ Once(kept) /\ kept \in Seq(Key) /\ Len(kept) <= MaxEntries
      /\ \A i \in 1 .. Len(kept) : kept[i] \in DOMAIN e
  <2>1. kept = Trimmed(e, o)
    BY <1>1
  <2>2. /\ Once(kept) /\ Len(kept) <= MaxEntries
        /\ \A i \in 1 .. Len(kept) : kept[i] \in DOMAIN e
    BY <1>4, <2>1, TrimmedOnce
  <2> QED
    BY <2>2 DEF Once
<1>6. \A j \in DOMAIN e : e[j] \in Nat
  BY <1>1, CooldownFacts DEF Listed
<1>7. DOMAIN kept = 1 .. Len(kept)
  BY <1>5
<1>8. PICK after : after = Restrict(e, ToSet(kept))
  OBVIOUS
<1>9. /\ after = [j \in ToSet(kept) |-> e[j]]
      /\ ToSet(kept) = {kept[i] : i \in 1 .. Len(kept)}
  BY <1>7, <1>8 DEF Restrict, ToSet
<1>10. /\ DOMAIN after = ToSet(kept) /\ after \in [DOMAIN after -> Nat]
       /\ \A i \in 1 .. Len(kept) : kept[i] \in DOMAIN after
       /\ \A j \in DOMAIN after : \E i \in 1 .. Len(kept) : kept[i] = j
  BY <1>5, <1>6, <1>9
<1>11. Listed(kept, after)
  BY <1>5, <1>10 DEF Listed
<1> QED
  BY <1>2, <1>8, <1>11

-----------------------------------------------------------------------------
RouteInv ==
    /\ now \in Time /\ GuardTypeOK /\ QuietInv
    /\ Listed(order, expiresAt)
    /\ DOMAIN pending \subseteq Key

LEMMA RouteProceeds ==
    ASSUME RouteInv, NEW r \in Slot, Proceed(r), UNCHANGED <<now, guardVars>>
    PROVE  Listed(order', expiresAt') /\ DOMAIN pending' \subseteq Key
<1>1. CASE UNCHANGED <<order, expiresAt, pending>>
  BY <1>1 DEF RouteInv
<1>2. ASSUME NEW k \in Key, Join(r, k) \/ StartFetch(r, k)
      PROVE  Listed(order', expiresAt') /\ DOMAIN pending' \subseteq Key
  <2>1. Dropped(k) /\ DOMAIN pending' \subseteq DOMAIN pending \cup {k}
    BY <1>2 DEF Join, StartFetch
  <2> QED
    BY <2>1, DroppedListed DEF RouteInv
<1>3. ASSUME NEW retryable \in BOOLEAN, Settle(r, retryable)
      PROVE  Listed(order', expiresAt') /\ DOMAIN pending' \subseteq Key
  <2>1. UNCHANGED pending /\ slots[r].key \in Key /\ now \in Nat
    BY <1>3 DEF Settle, RouteInv, QuietInv
  <2> QED
    BY <1>3, <2>1, SettleListed DEF RouteInv
<1>4. CASE Finish(r)
  <2>1. DOMAIN pending' \subseteq DOMAIN pending /\ UNCHANGED <<order, expiresAt>>
    BY <1>4 DEF Finish, Forgotten, Restrict
  <2> QED
    BY <2>1 DEF RouteInv
<1> QED
  BY <1>1, <1>2, <1>3, <1>4
  DEF Proceed, AnswerWithoutChain, AnswerJoined, ServeCached, Reject

\* The cache's keys are as many as its order is long.
LEMMA ListedCount ==
    ASSUME NEW o, NEW e, Listed(o, e)
    PROVE  IsInjective(o) /\ ToSet(o) = DOMAIN e /\ Cardinality(DOMAIN e) <= MaxEntries
<1>1. o \in Seq(Key) /\ Len(o) \in Nat /\ DOMAIN o = 1 .. Len(o)
  BY DEF Listed, Once
<1>2. IsInjective(o)
  <2> SUFFICES ASSUME NEW i \in 1 .. Len(o), NEW j \in 1 .. Len(o), o[i] = o[j]
               PROVE  i = j
    BY <1>1 DEF IsInjective
  <2> QED
    BY <1>1 DEF Listed, Once
<1>3. ToSet(o) = DOMAIN e
  BY <1>1 DEF Listed, ToSet
<1>4. o \in Surjection(1 .. Len(o), DOMAIN e)
  BY <1>1 DEF Listed, Surjection
<1>5. IsFiniteSet(1 .. Len(o)) /\ Cardinality(1 .. Len(o)) = Len(o)
  BY <1>1, FS_Interval
<1>6. IsFiniteSet(DOMAIN e) /\ Cardinality(DOMAIN e) <= Len(o)
  BY <1>4, <1>5, FS_Surjection
<1>7. Cardinality(DOMAIN e) \in Nat
  BY <1>6, FS_CardinalityType
<1> QED
  BY <1>1, <1>2, <1>3, <1>6, <1>7, CacheAssumption DEF Listed

\* The maps of the route are what they are meant to be, and its cache never holds more
\* than MAX_ACTIVITY_CACHE_ENTRIES, in whatever order lookups that overlap store their
\* results (helius-activity.server.ts:359, trimActivityCache).
THEOREM RouteTypeCorrect == Spec => []TypeOK
<1>1. Init => RouteInv
  <2> SUFFICES ASSUME Init PROVE RouteInv
    OBVIOUS
  <2>1. now \in Time
    BY ClockAssumption DEF Init, Time
  <2>2. GuardTypeOK
    BY GuardAssumption DEF Init, GuardInit, GuardTypeOK
  <2>3. Listed(order, expiresAt) /\ DOMAIN pending \subseteq Key
    BY CacheAssumption DEF Init, CacheInit, Listed, Once
  <2> QED
    BY <2>1, <2>2, <2>3, QuietStarts DEF RouteInv
<1>2. RouteInv /\ [Next]_vars => RouteInv'
  <2> SUFFICES ASSUME RouteInv, [Next]_vars PROVE RouteInv'
    OBVIOUS
  <2>1. QuietInv'
    BY QuietStep DEF RouteInv
  <2>2. now' \in Time
    BY ClockAssumption DEF RouteInv, Next, vars, Refuse, Get, Advance, Tick, Time
  <2>3. GuardTypeOK'
    <3>1. ASSUME NEW c \in Client, \/ Admit(ActivityScope, c)
                                   \/ DenyClient(ActivityScope, c)
                                   \/ DenyGlobal(ActivityScope, c)
          PROVE  GuardTypeOK'
      BY <3>1, RouteAssumption, GuardTyped DEF RouteInv
    <3>2. CASE UNCHANGED guardVars
      BY <3>2 DEF guardVars, RouteInv, GuardTypeOK
    <3> QED
      BY <3>1, <3>2 DEF Next, vars, Refuse, Get, Advance, Tick
  <2>4. Listed(order', expiresAt') /\ DOMAIN pending' \subseteq Key
    <3>1. ASSUME NEW r \in Slot, Advance(r)
          PROVE  Listed(order', expiresAt') /\ DOMAIN pending' \subseteq Key
      BY <3>1, RouteProceeds DEF Advance
    <3>2. CASE UNCHANGED <<order, expiresAt, pending>>
      BY <3>2 DEF RouteInv
    <3> QED
      BY <3>1, <3>2 DEF Next, vars, cacheVars, Refuse, Get, Enter, Tick
  <2> QED
    BY <2>1, <2>2, <2>3, <2>4 DEF RouteInv
<1>3. RouteInv => TypeOK
  <2> SUFFICES ASSUME RouteInv PROVE TypeOK
    OBVIOUS
  <2>1. IsInjective(order) /\ ToSet(order) = DOMAIN expiresAt
        /\ Cardinality(DOMAIN expiresAt) <= MaxEntries
    BY ListedCount DEF RouteInv
  <2>2. expiresAt \in [DOMAIN expiresAt -> Nat] /\ DOMAIN expiresAt \subseteq Key
    BY DEF RouteInv, Listed, Once
  <2> QED
    BY <2>1, <2>2 DEF TypeOK, RouteInv, QuietInv, PendingInv
<1> QED
  BY <1>1, <1>2, <1>3, PTL DEF Spec
=============================================================================
