---------------------------- MODULE ActivityRoute ----------------------------
(***************************************************************************)
(* GET /api/launchpad/worlds/[slug]/activity: the rate limiter, then the   *)
(* World, then the cached Helius lookup, with several requests in progress *)
(* at once in one server process.                                          *)
(***************************************************************************)
EXTENDS RequestGuard, ActivityCache

vars == <<now, guardVars, cacheVars>>

\* getActivityRateLimitPolicy
ActivityScope == "world-activity"

ASSUME RouteAssumption == ActivityScope \in Scope

Get(c, r) == Admit(ActivityScope, c) /\ Enter(r) /\ UNCHANGED now

\* 429: answered at once.
Refuse(c) ==
    /\ DenyClient(ActivityScope, c) \/ DenyGlobal(ActivityScope, c)
    /\ UNCHANGED <<now, cacheVars>>

Advance(r) == Proceed(r) /\ UNCHANGED <<now, guardVars>>

Tick ==
    /\ now < MaxTime
    /\ now' = now + 1
    /\ UNCHANGED <<guardVars, cacheVars>>

Init == now = 0 /\ GuardInit /\ CacheInit

Next ==
    \/ \E c \in Client : Refuse(c) \/ \E r \in Slot : Get(c, r)
    \/ \E r \in Slot : Advance(r)
    \/ Tick

Spec == Init /\ [][Next]_vars
-----------------------------------------------------------------------------
\* The maps hold what their type says, the cache's order lists its keys, and these are
\* never more than MAX_ACTIVITY_CACHE_ENTRIES, although lookups that overlap store
\* their results one after the other.
TypeOK ==
    /\ now \in Time
    /\ GuardTypeOK
    /\ expiresAt \in [DOMAIN expiresAt -> Nat] /\ DOMAIN expiresAt \subseteq Key
    /\ IsInjective(order) /\ ToSet(order) = DOMAIN expiresAt
    /\ Cardinality(DOMAIN expiresAt) <= MaxEntries
    /\ DOMAIN pending \subseteq Key /\ \A k \in DOMAIN pending : pending[k] \in Slot
    /\ slots \in [Slot -> Request]
    /\ quietUntil \in [Key -> Nat]

\* Concurrent lookups of one key are coalesced, and a result, a retryable
\* failure included, spares the service for a while: of two lookups of a key
\* the second starts when the first is over, and at least Cooldown after its
\* start, unless the first threw or its result was evicted.
\* (docs/electric-relic-v1.md:277: coalesced, a cooldown of at most 5 seconds.)
NoRequestStorm ==
    [][\A r \in Slot, k \in Key :
          slots[r].at # "fetching" /\ slots'[r] = [at |-> "fetching", key |-> k]
             => /\ now >= quietUntil[k]
                /\ \A s \in Slot : slots[s] # slots'[r]]_vars

\* A promise in activityRequests is one whose request is still there to
\* remove it: no key is left answering from a promise that is over.
PendingIsLive ==
    \A k \in DOMAIN pending :
        /\ slots[pending[k]].key = k
        /\ slots[pending[k]].at \in {"fetching", "settled", "rejected"}
=============================================================================
