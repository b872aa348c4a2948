----------------------------- MODULE RequestGuard -----------------------------
(***************************************************************************)
(* The rate limiter of the public API routes (request-guard.server.ts):    *)
(* fixed windows, one bucket for each client of a scope and one for the    *)
(* whole scope, all in one bounded map with an overflow bucket.            *)
(*                                                                         *)
(* consumePublicApiRateLimit runs without an await, so that a request is   *)
(* one step: Admit or Deny.                                                *)
(***************************************************************************)
EXTENDS Clock, Integers, FiniteSets, Functions

CONSTANTS
    Scope,         \* scopes of the routes
    Client,        \* client fingerprints
    Policy,        \* per scope: clientMax, windowMs, globalMax, globalWindowMs
    Global,        \* stands for the client in the key of a scope's global bucket
    Overflow,      \* "__overflow__"
    MaxBuckets,    \* MAX_BUCKETS (10000 in the code)
    PruneEvery     \* 250 in the code

Limits == [clientMax : Nat \ {0}, windowMs : Nat \ {0},
           globalMax : Nat \ {0}, globalWindowMs : Nat \ {0}]

ASSUME GuardAssumption ==
    /\ Global \notin Client /\ Overflow \notin Scope \X (Client \cup {Global})
    /\ {MaxBuckets, PruneEvery} \subseteq Nat \ {0}
    /\ Policy \in [Scope -> Limits]

VARIABLES
    buckets,    \* the map: its domain is the set of keys in use
    operations, \* calls of consume, modulo PruneEvery
    granted     \* history: requests of each scope admitted up to each moment

guardVars == <<buckets, operations, granted>>

BucketKey == (Scope \X (Client \cup {Global})) \cup {Overflow}
Bucket == [count : Nat, resetAt : Nat]

-----------------------------------------------------------------------------
\* Mutant: the oldest bucket makes room, expired or not.
PrunedAnyway(b) ==
    LET oldest == {k \in DOMAIN b : \A j \in DOMAIN b : b[k].resetAt <= b[j].resetAt}
    IN  Restrict(b, DOMAIN b \ oldest)

Pruned(b) == Restrict(b, {k \in DOMAIN b : b[k].resetAt > now})

\* The map as one call of consume sees it, after its own pruning.
Swept(b, ops) ==
    IF ops = 0 \/ Cardinality(DOMAIN b) >= MaxBuckets THEN Pruned(b) ELSE b

\* Mutant: a key of its own for everyone.
UnboundedKey(b, key) == key

BoundedKey(b, key) ==
    IF key \in DOMAIN b \/ Cardinality(DOMAIN b) < MaxBuckets THEN key ELSE Overflow

Running(b, key) == key \in DOMAIN b /\ b[key].resetAt > now

\* consume, on a swept map: is the call allowed, and what does it leave?
Allows(b, key, limit) ==
    LET k == BoundedKey(b, key)
    IN  Running(b, k) => b[k].count < limit

Consumed(b, key, window) ==
    LET k == BoundedKey(b, key)
        bucket == IF Running(b, k)
                  THEN [b[k] EXCEPT !.count = @ + 1]
                  ELSE [count |-> 1, resetAt |-> now + window]
    IN  [j \in DOMAIN b \cup {k} |-> IF j = k THEN bucket ELSE b[j]]

\* Mutant: one bucket for a client, whatever it calls.
ClientKeyOfNoScope(s, c) == <<CHOOSE any \in Scope : TRUE, c>>

ClientKey(s, c) == <<s, c>>

GlobalKey(s) == <<s, Global>>

NextOp(n) == (operations + n) % PruneEvery

ForClient == Swept(buckets, NextOp(1))

ForGlobal(s, c) == Swept(Consumed(ForClient, ClientKey(s, c), Policy[s].windowMs), NextOp(2))

ClientAllows(s, c) == Allows(ForClient, ClientKey(s, c), Policy[s].clientMax)
GlobalAllows(s, c) == Allows(ForGlobal(s, c), GlobalKey(s), Policy[s].globalMax)

\* One more, from now on.
OneMore(counts) == [t \in Time |-> IF t >= now THEN counts[t] + 1 ELSE counts[t]]

\* consumePublicApiRateLimit: the client's bucket, then the global one.
Admit(s, c) ==
    /\ ClientAllows(s, c) /\ GlobalAllows(s, c)
    /\ buckets' = Consumed(ForGlobal(s, c), GlobalKey(s), Policy[s].globalWindowMs)
    /\ operations' = NextOp(2)
    /\ granted' = [granted EXCEPT ![s] = OneMore(@)]

\* 429, from the client's bucket: the global one is not touched.
DenyClient(s, c) ==
    /\ ~ ClientAllows(s, c)
    /\ buckets' = ForClient
    /\ operations' = NextOp(1)
    /\ UNCHANGED granted

\* 429, from the global bucket: the client has paid all the same.
DenyGlobal(s, c) ==
    /\ ClientAllows(s, c) /\ ~ GlobalAllows(s, c)
    /\ buckets' = ForGlobal(s, c)
    /\ operations' = NextOp(2)
    /\ UNCHANGED granted

GuardInit ==
    /\ buckets = [k \in {} |-> 0]
    /\ operations = 0
    /\ granted = [s \in Scope |-> [t \in Time |-> 0]]

-----------------------------------------------------------------------------
(* Properties *)

GuardTypeOK ==
    /\ DOMAIN buckets \subseteq BucketKey
    /\ \A k \in DOMAIN buckets : buckets[k] \in Bucket
    /\ operations \in 0 .. PruneEvery - 1
    /\ granted \in [Scope -> [Time -> Nat]]

\* "A bounded keyspace" (request-guard.server.ts:46), however many clients
\* call and whatever is swept when.
KeyspaceBounded == Cardinality(DOMAIN buckets) <= MaxBuckets + 1

\* What a history counts up to a moment, and from one moment to another.
UpTo(counts, t) == IF t < 0 THEN 0 ELSE counts[IF t > MaxTime THEN MaxTime ELSE t]
Total(counts, from, to) == UpTo(counts, to) - UpTo(counts, from - 1)

\* The windows a bucket of the map may have.  A scope's global bucket has its own;
\* the overflow bucket has that of whichever call opens it.
AllWindows == UNION {{Policy[s].windowMs, Policy[s].globalWindowMs} : s \in Scope}
ShortestWindow == CHOOSE m \in AllWindows : \A v \in AllWindows : m <= v

\* Disjoint windows, none shorter than m, that a stretch of w can touch:
\* one, and one more for each m begun after its first moment.
WindowsTouched(w, m) == 1 + ((w + m - 2) \div m)

\* The process-wide burst ceiling: the requests of a scope admitted in any stretch
\* of its globalWindowMs.  They come from its own bucket and, while the map is full,
\* from the overflow bucket, globalMax of them for each window.
CeilingHolds ==
    \A s \in Scope, t \in Time :
        LET w == Policy[s].globalWindowMs
        IN  Total(granted[s], t, t + w - 1)
               <= (WindowsTouched(w, w) + WindowsTouched(w, ShortestWindow)) * Policy[s].globalMax
=============================================================================
