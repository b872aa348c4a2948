------------------------------ MODULE PublicApi ------------------------------
(***************************************************************************)
(* The public API routes together around their one limiter: calls of       *)
(* several clients to several scopes, whose keys share the bounded map and *)
(* its overflow bucket (request-guard.server.ts and the route handlers     *)
(* that call consumePublicApiRateLimit first).                             *)
(***************************************************************************)
EXTENDS RequestGuard

CONSTANT MaxCallTime    \* bound on the clock

ASSUME ApiAssumption == MaxCallTime \in Time

VARIABLES
    charged     \* history: calls of each client its own bucket let pass, up to each moment

apiVars == <<guardVars, charged>>

Charge(s, c) == charged' = [charged EXCEPT ![s][c] = OneMore(@)]

\* One request to a route of scope s.
CallApi(s, c) ==
    /\ \/ (Admit(s, c) \/ DenyGlobal(s, c)) /\ Charge(s, c)
       \/ DenyClient(s, c) /\ UNCHANGED charged
    /\ UNCHANGED now

ApiTick ==
    /\ now < MaxCallTime
    /\ now' = now + 1
    /\ UNCHANGED apiVars

ApiInit ==
    /\ GuardInit
    /\ charged = [s \in Scope |-> [c \in Client |-> [t \in Time |-> 0]]]

ApiNext == ApiTick \/ \E s \in Scope, c \in Client : CallApi(s, c)

ApiSpec == now = 0 /\ ApiInit /\ [][ApiNext]_<<now, apiVars>>

-----------------------------------------------------------------------------
(* Properties *)

\* What was counted of the last window.
Recent(counts, window) == Total(counts, now - window + 1, now)

\* A refusal is earned.  Unless the map is full, a client is refused only after calls
\* of its own to this very scope used up its window, and a scope refuses everyone only
\* after it admitted its burst: neither other clients nor other scopes can bring a
\* refusal about, and a client that is refused spends nothing of the others' quota.
RefusalsEarned ==
    \A s \in Scope, c \in Client :
        /\ ~ ClientAllows(s, c) =>
              \/ BoundedKey(ForClient, ClientKey(s, c)) = Overflow
              \/ Recent(charged[s][c], Policy[s].windowMs) >= Policy[s].clientMax
        /\ ClientAllows(s, c) /\ ~ GlobalAllows(s, c) =>
              \/ BoundedKey(ForGlobal(s, c), GlobalKey(s)) = Overflow
              \/ Recent(granted[s], Policy[s].globalWindowMs) >= Policy[s].globalMax
=============================================================================
