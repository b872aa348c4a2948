---------------------------- MODULE ActivityCache ----------------------------
(***************************************************************************)
(* The cache of Helius lookups of the activity route                       *)
(* (helius-activity.server.ts): results with an expiry in an insertion-    *)
(* ordered map, and the promises of lookups in flight, which later         *)
(* requests for the same key join.                                         *)
(*                                                                         *)
(* A request occupies a slot until it is answered.  The promise of a       *)
(* lookup is named by the slot that made it, which stays taken until its   *)
(* finally block has run.  Code without an await is one step; what runs    *)
(* after a settled promise is a step of its own.                           *)
(***************************************************************************)
EXTENDS Clock, Lists, SequencesExt, Functions

CONSTANTS
    Key,         \* activityCacheKey: cluster, escrow, limit and cursor
    Slot,        \* bound on concurrent requests
    Ttl,         \* ttlMs
    MaxCooldown, \* 5000 ms in the code
    MaxEntries,  \* MAX_ACTIVITY_CACHE_ENTRIES (256)
    NoKey        \* of a request that has not read its World

ASSUME CacheAssumption ==
    /\ {Ttl, MaxCooldown, MaxEntries} \subseteq Nat \ {0}
    /\ NoKey \notin Key

VARIABLES
    expiresAt,  \* activityCache: its domain is the keys it holds
    order,      \* the order in which it holds them
    pending,    \* activityRequests: key to the slot of the lookup
    slots,      \* the requests in progress
    quietUntil  \* history: a lookup of the key before this time is one too many

cacheVars == <<expiresAt, order, pending, slots, quietUntil>>

Cooldown == IF Ttl < MaxCooldown THEN Ttl ELSE MaxCooldown
Idle == [at |-> "idle", key |-> NoKey]
Request == [at : {"idle", "resolving", "fetching", "joined", "settled", "rejected", "woken"},
            key : Key \cup {NoKey}]

At(r, at) == slots[r].at = at
MoveTo(r, at, k) == slots' = [slots EXCEPT ![r] = [at |-> at, key |-> k]]

-----------------------------------------------------------------------------
\* The request has its World to read.
Enter(r) ==
    /\ At(r, "idle")
    /\ MoveTo(r, "resolving", NoKey)
    /\ UNCHANGED <<expiresAt, order, pending, quietUntil>>

\* No such World, a failed catalog, or a World not connected to a chain.
AnswerWithoutChain(r) ==
    /\ At(r, "resolving")
    /\ slots' = [slots EXCEPT ![r] = Idle]
    /\ UNCHANGED <<expiresAt, order, pending, quietUntil>>

Fresh(k) == k \in DOMAIN expiresAt /\ expiresAt[k] > now

Pending(k) == k \in DOMAIN pending

ServeCached(r, k) ==
    /\ At(r, "resolving")
    /\ Fresh(k)
    /\ slots' = [slots EXCEPT ![r] = Idle]
    /\ UNCHANGED <<expiresAt, order, pending, quietUntil>>

\* A miss drops the expired entry first.
Dropped(k) ==
    /\ expiresAt' = Restrict(expiresAt, DOMAIN expiresAt \ {k})
    /\ order' = Only(order, Key \ {k})

\* The promise may have settled already: then the await returns at once.
Join(r, k) ==
    /\ At(r, "resolving")
    /\ ~ Fresh(k)
    /\ Pending(k)
    /\ Dropped(k)
    /\ MoveTo(r, IF At(pending[k], "fetching") THEN "joined" ELSE "woken", k)
    /\ UNCHANGED <<pending, quietUntil>>

StartFetch(r, k) ==
    /\ At(r, "resolving")
    /\ ~ Fresh(k)
    /\ ~ Pending(k)
    /\ Dropped(k)
    /\ MoveTo(r, "fetching", k)
    /\ pending' = [j \in DOMAIN pending \cup {k} |-> IF j = k THEN r ELSE pending[j]]
    /\ quietUntil' = [quietUntil EXCEPT ![k] = now + Cooldown]

-----------------------------------------------------------------------------
\* Mutant: only what was found is kept.
FoundOnly(retryable) == IF retryable THEN 0 ELSE Ttl

ResultTtl(retryable) == IF retryable THEN Cooldown ELSE Ttl

Live(e, o) == Only(o, {k \in DOMAIN e : e[k] > now})

\* Mutant: the expired entries are enough.
ExpiredOnly(e, o) == Live(e, o)

\* trimActivityCache: what stays of a cache with these entries, in order.
Trimmed(e, o) ==
    LET live == Live(e, o)
        excess == IF Len(live) > MaxEntries THEN Len(live) - MaxEntries ELSE 0
    IN  SubSeq(live, excess + 1, Len(live))

\* The lookup's promise settles: everyone who awaits it can go on.
Woken(r, at) ==
    LET Step(s) == IF s = r THEN at
                   ELSE IF At(s, "joined") /\ pending[slots[s].key] = r THEN "woken"
                   ELSE slots[s].at
    IN  slots' = [s \in Slot |-> [at |-> Step(s), key |-> slots[s].key]]

\* The .then of the lookup: store the result, trim.
Settle(r, retryable) ==
    LET k == slots[r].key
        e == [j \in DOMAIN expiresAt \cup {k} |->
                 IF j = k THEN now + ResultTtl(retryable) ELSE expiresAt[j]]
        o == IF k \in DOMAIN expiresAt THEN order ELSE Append(order, k)
        kept == Trimmed(e, o)
    IN  /\ At(r, "fetching")
        /\ order' = kept
        /\ expiresAt' = Restrict(e, ToSet(kept))
        /\ quietUntil' = [j \in Key |->
                             IF j \in DOMAIN e \ ToSet(kept) /\ e[j] > now THEN 0
                             ELSE quietUntil[j]]
        /\ Woken(r, "settled")
        /\ UNCHANGED pending

\* A payload of null makes the lookup throw: nothing is stored.
Reject(r) ==
    /\ At(r, "fetching")
    /\ Woken(r, "rejected")
    /\ quietUntil' = [quietUntil EXCEPT ![slots[r].key] = 0]
    /\ UNCHANGED <<expiresAt, order, pending>>

\* Mutant: the entry is removed after the await, not in a finally block.
ForgottenIfSettled(r) ==
    IF At(r, "settled") THEN Restrict(pending, DOMAIN pending \ {slots[r].key}) ELSE pending

Forgotten(r) ==
    IF pending[slots[r].key] = r THEN Restrict(pending, DOMAIN pending \ {slots[r].key})
    ELSE pending

\* The rest of the request that made the lookup: finally, then the answer.
Finish(r) ==
    /\ At(r, "settled") \/ At(r, "rejected")
    /\ pending' = Forgotten(r)
    /\ slots' = [slots EXCEPT ![r] = Idle]
    /\ UNCHANGED <<expiresAt, order, quietUntil>>

AnswerJoined(r) ==
    /\ At(r, "woken")
    /\ slots' = [slots EXCEPT ![r] = Idle]
    /\ UNCHANGED <<expiresAt, order, pending, quietUntil>>

CacheInit ==
    /\ expiresAt = [k \in {} |-> 0]
    /\ order = << >>
    /\ pending = [k \in {} |-> 0]
    /\ slots = [r \in Slot |-> Idle]
    /\ quietUntil = [k \in Key |-> 0]

Proceed(r) ==
    \/ AnswerWithoutChain(r)
    \/ \E k \in Key : ServeCached(r, k) \/ Join(r, k) \/ StartFetch(r, k)
    \/ \E retryable \in BOOLEAN : Settle(r, retryable)
    \/ Reject(r)
    \/ Finish(r)
    \/ AnswerJoined(r)
=============================================================================
