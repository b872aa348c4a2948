---------------------------- MODULE FoundingAccess ----------------------------
(***************************************************************************)
(* Founding access of one X account (founding-access.server.ts and POST    *)
(* access): the account must be on the allowlist and X must report enough  *)
(* followers.  X's answer is remembered for a while; requests that find    *)
(* nothing remembered ask X at the same time, and their answers arrive in  *)
(* any order.                                                              *)
(***************************************************************************)
EXTENDS Clock, Integers, FiniteSets

CONSTANTS
    Visitors,          \* requests under way at most
    MetricsTtl,        \* RELIC_X_METRICS_CACHE_SECONDS, forced into 60 .. 3600
    MetricsTimeout     \* the 7 seconds fetch is given

ASSUME FoundingAssumption == MetricsTtl \in Nat \ {0} /\ MetricsTimeout \in Nat

VARIABLES
    famous,        \* at X: the account has RELIC_X_MIN_FOLLOWERS followers
    listed,        \* at Privy: subject or user name is on the allowlist
    metrics,       \* xMetricCache for this subject
    visits,        \* per visitor the request under way
    lastWas        \* history: when the account was last famous, and last not

visitVars == <<famous, listed, metrics, visits, lastWas>>

accessVars == <<now, visitVars>>

Never == - (MetricsTtl + MetricsTimeout + 1)
NoMetrics == [famous |-> FALSE, expires |-> Never]
NoVisit == [stage |-> "none", listed |-> FALSE, famous |-> FALSE, since |-> 0]

Refusals == {"401", "403", "503"}

-----------------------------------------------------------------------------
(* Requests *)

\* Mutant: what was remembered once is good for ever.
RememberedForEver == metrics # NoMetrics

MetricsRemembered == metrics.expires > now

Verdict(isListed, isFamous) == IF isListed /\ isFamous THEN "allowed" ELSE "refused"

Visit(v, visit) == visits' = [visits EXCEPT ![v] = visit]

Decide(v, outcome) == Visit(v, [NoVisit EXCEPT !.stage = outcome])

\* The settings, the identity token and its X account, in this order; a failure of
\* Privy counts as an invalid token, a malformed subject as missing metrics.
TurnAway(v, status) ==
    /\ visits[v].stage = "none"
    /\ status \in Refusals
    /\ Decide(v, status)
    /\ UNCHANGED <<now, famous, listed, metrics, lastWas>>

\* The identity is verified, the allowlist consulted and the memory looked up.
Identify(v) ==
    /\ visits[v].stage = "none"
    /\ IF MetricsRemembered
       THEN Decide(v, Verdict(listed, metrics.famous))
       ELSE Visit(v, [stage |-> "asking", listed |-> listed, famous |-> FALSE, since |-> now])
    /\ UNCHANGED <<now, famous, listed, metrics, lastWas>>

\* X counts the followers some time before its answer arrives.
CountFollowers(v) ==
    /\ visits[v].stage = "asking"
    /\ Visit(v, [stage |-> "counted", listed |-> visits[v].listed, famous |-> famous,
                 since |-> visits[v].since])
    /\ UNCHANGED <<now, famous, listed, metrics, lastWas>>

\* The answer replaces whatever is remembered, be it newer.
ReceiveMetrics(v) ==
    /\ visits[v].stage = "counted"
    /\ metrics' = [famous |-> visits[v].famous, expires |-> now + MetricsTtl]
    /\ Decide(v, Verdict(visits[v].listed, visits[v].famous))
    /\ UNCHANGED <<now, famous, listed, lastWas>>

\* X refuses, answers nonsense or is late; nothing is remembered.
MetricsUnavailable(v) ==
    /\ visits[v].stage \in {"asking", "counted"}
    /\ Decide(v, "503")
    /\ UNCHANGED <<now, famous, listed, metrics, lastWas>>

Leave(v) ==
    /\ visits[v].stage \in Refusals \cup {"allowed", "refused"}
    /\ Visit(v, NoVisit)
    /\ UNCHANGED <<now, famous, listed, metrics, lastWas>>

-----------------------------------------------------------------------------
(* Time, and the account at X and Privy *)

\* No request waits for X longer than its timeout.
AccessTick ==
    /\ now < MaxTime
    /\ \A v \in Visitors :
          visits[v].stage \in {"asking", "counted"} => now < visits[v].since + MetricsTimeout
    /\ now' = now + 1
    /\ lastWas' = [lastWas EXCEPT ![famous] = now + 1]
    /\ UNCHANGED <<famous, listed, metrics, visits>>

FollowersChange ==
    /\ famous' = ~ famous
    /\ lastWas' = [lastWas EXCEPT ![~ famous] = now]
    /\ UNCHANGED <<now, listed, metrics, visits>>

\* The user takes another name, or gives it up.
Rename ==
    /\ listed' = ~ listed
    /\ UNCHANGED <<now, famous, metrics, visits, lastWas>>

AccessInit ==
    /\ now = 0
    /\ famous \in BOOLEAN /\ listed = TRUE
    /\ metrics = NoMetrics
    /\ visits = [v \in Visitors |-> NoVisit]
    /\ lastWas = [b \in BOOLEAN |-> IF b = famous THEN 0 ELSE Never]

AccessNext ==
    \/ \E v \in Visitors :
          \/ \E status \in Refusals : TurnAway(v, status)
          \/ Identify(v) \/ CountFollowers(v) \/ ReceiveMetrics(v)
          \/ MetricsUnavailable(v) \/ Leave(v)
    \/ AccessTick \/ FollowersChange \/ Rename

AccessSpec == AccessInit /\ [][AccessNext]_accessVars

-----------------------------------------------------------------------------
(* Properties *)

AccessTypeOK ==
    /\ now \in Time
    /\ metrics.expires \in Never .. MaxTime + MetricsTtl
    /\ \A v \in Visitors :
          visits[v].stage \in {"none", "asking", "counted", "allowed", "refused"} \cup Refusals

\* Whoever is let in was on the allowlist when he asked, and had the followers at
\* some moment no longer ago than an answer may be remembered and may take to
\* arrive; whoever is refused lacked one of the two in the same span.
VerdictWasTrueLately ==
    [][\A v \in Visitors :
          LET wasListed == IF visits[v].stage = "none" THEN listed ELSE visits[v].listed
              lately(b) == lastWas[b] >= now - MetricsTtl - MetricsTimeout
          IN  visits'[v] # visits[v] =>
                /\ visits'[v].stage = "allowed" => wasListed /\ lately(TRUE)
                /\ visits'[v].stage = "refused" => ~ wasListed \/ lately(FALSE)]_accessVars
=============================================================================
