----------------------------- MODULE WorldsProofs -----------------------------
(***************************************************************************)
(* Theorems about the components around a World, which MCWorlds lets TLC   *)
(* run side by side: each is proved of its own specification, for any      *)
(* number of assets, requests and slots; the types are also proved of the  *)
(* composition.                                                            *)
(***************************************************************************)
EXTENDS MCWorlds, SharedProofs, FiniteSetTheorems, TLAPS

-----------------------------------------------------------------------------
(* Reserve: the two promises of the projections, for every backing per asset *)
(* and both switches of the rules.                                           *)

\* The counts of a snapshot are never negative: what projectCapture and projectRelease
\* subtract they compared first.
ReserveTypeOK == reserve \in Nat /\ inventory \in Nat /\ active \in Nat

\* The backing of two groups of assets is the sum of their backings.
LEMMA BackingDistributes ==
    ASSUME NEW a \in Int, NEW c \in Int
    PROVE  /\ BackingPerNft * a \in Int
           /\ BackingPerNft * (a + c) = BackingPerNft * a + BackingPerNft * c
           /\ BackingPerNft * (a - c) = BackingPerNft * a - BackingPerNft * c
BY ReserveAssumption

\* A natural number of assets has a natural backing.
LEMMA BackingNatural ==
    ASSUME NEW c \in Nat
    PROVE  BackingPerNft * c \in Nat
BY ReserveAssumption

\* Whole division tells how many assets the coins back.
LEMMA DivisionCounts ==
    ASSUME NEW coins \in Nat, NEW c \in Nat
    PROVE  /\ coins \div BackingPerNft \in Nat
           /\ BackingPerNft * c <= coins <=> c <= coins \div BackingPerNft
<1>1. BackingPerNft \in Nat /\ BackingPerNft > 0
  BY ReserveAssumption
<1> DEFINE q == coins \div BackingPerNft
<1>2. /\ q \in Nat
      /\ BackingPerNft * q <= coins
      /\ coins < BackingPerNft * q + BackingPerNft
  BY <1>1
<1>3. c <= q => BackingPerNft * c <= coins
  BY <1>1, <1>2
<1>4. ASSUME c > q PROVE BackingPerNft * c > coins
  <2>1. c >= q + 1
    BY <1>2, <1>4
  <2>2. BackingPerNft * c >= BackingPerNft * (q + 1)
    BY <1>1, <1>2, <2>1
  <2> QED
    BY <1>1, <1>2, <2>2
<1> HIDE DEF q
<1>5. BackingPerNft * c \in Nat
  BY BackingNatural
<1>6. BackingPerNft * c <= coins <=> c <= q
  BY <1>2, <1>3, <1>4, <1>5
<1> QED
  BY <1>2, <1>6 DEF q

\* Every step keeps the counts natural.
LEMMA ReserveTypeStep == ReserveTypeOK /\ [ReserveNext]_reserveVars => ReserveTypeOK'
<1> SUFFICES ASSUME ReserveTypeOK, [ReserveNext]_reserveVars
             PROVE  ReserveTypeOK'
  OBVIOUS
<1>1. ASSUME NEW count \in 1 .. inventory, ProjectCapture(count)
      PROVE  ReserveTypeOK'
  <2>1. BackingPerNft * count \in Nat
    BY <1>1, BackingNatural DEF ReserveTypeOK
  <2> QED
    BY <1>1, <2>1 DEF ReserveTypeOK, ProjectCapture, Capturable
<1>2. ASSUME NEW count \in 1 .. active, ProjectRelease(count)
      PROVE  ReserveTypeOK'
  <2>1. BackingPerNft * count \in Nat
    BY <1>2, BackingNatural DEF ReserveTypeOK
  <2> QED
    BY <1>2, <2>1 DEF ReserveTypeOK, ProjectRelease, Releasable
<1>3. ASSUME NEW amount \in 1 .. MaxReserve, Donate(amount)
      PROVE  ReserveTypeOK'
  BY <1>3 DEF ReserveTypeOK, Donate
<1>4. CASE UNCHANGED reserveVars
  BY <1>4 DEF ReserveTypeOK, reserveVars
<1> QED
  BY <1>1, <1>2, <1>3, <1>4 DEF ReserveNext

\* In every reachable state the counts are natural numbers.
LEMMA ReserveTypeCorrect == ReserveSpec => []ReserveTypeOK
<1>1. ReserveInit => ReserveTypeOK
  BY ReserveAssumption DEF ReserveInit, ReserveTypeOK
<1> QED
  BY <1>1, ReserveTypeStep, PTL DEF ReserveSpec

\* What one step may do to the surplus and to the assets: the body of SurplusNeverSpent.
SurplusKept ==
    /\ reserve' - BackingPerNft * active' >= reserve - RequiredReserve
    /\ inventory' + active' = inventory + active

\* Captures and releases move exactly the backing of the assets they move; donations
\* only add.
LEMMA SurplusStep == ReserveTypeOK /\ [ReserveNext]_reserveVars => [SurplusKept]_reserveVars
<1> SUFFICES ASSUME ReserveTypeOK, ReserveNext
             PROVE  SurplusKept
  OBVIOUS
<1>1. ASSUME NEW count \in 1 .. inventory, ProjectCapture(count)
      PROVE  SurplusKept
  <2>1. /\ BackingPerNft * (active + count) = BackingPerNft * active + BackingPerNft * count
        /\ BackingPerNft * active \in Int /\ BackingPerNft * count \in Int
    BY BackingDistributes DEF ReserveTypeOK
  <2> QED
    BY <1>1, <2>1 DEF ReserveTypeOK, ProjectCapture, SurplusKept, RequiredReserve
<1>2. ASSUME NEW count \in 1 .. active, ProjectRelease(count)
      PROVE  SurplusKept
  <2>1. /\ BackingPerNft * (active - count) = BackingPerNft * active - BackingPerNft * count
        /\ BackingPerNft * active \in Int /\ BackingPerNft * count \in Int
    BY BackingDistributes DEF ReserveTypeOK
  <2> QED
    BY <1>2, <2>1 DEF ReserveTypeOK, ProjectRelease, SurplusKept, RequiredReserve
<1>3. ASSUME NEW amount \in 1 .. MaxReserve, Donate(amount)
      PROVE  SurplusKept
  <2>1. BackingPerNft * active \in Int
    BY BackingDistributes DEF ReserveTypeOK
  <2> QED
    BY <1>3, <2>1 DEF ReserveTypeOK, Donate, SurplusKept, RequiredReserve
<1> QED
  BY <1>1, <1>2, <1>3 DEF ReserveNext

\* No sequence of captures, releases and donations spends the surplus of a World, and
\* none makes an asset appear or disappear (projectCapture, projectRelease).
THEOREM SurplusIsNeverSpent == ReserveSpec => SurplusNeverSpent
<1>1. ReserveTypeOK /\ [ReserveNext]_reserveVars => [SurplusKept]_reserveVars
  BY SurplusStep
<1> QED
  BY <1>1, ReserveTypeCorrect, PTL DEF ReserveSpec, SurplusNeverSpent, SurplusKept

\* Whatever the counts are, MaxReleasable says how many assets projectRelease accepts.
LEMMA HonestWhateverTheCounts == ReserveTypeOK => ReleasableIsHonest
<1> SUFFICES ASSUME ReserveTypeOK
             PROVE  ReleasableIsHonest
  OBVIOUS
<1> USE DEF ReserveTypeOK
<1> DEFINE q == reserve \div BackingPerNft
<1>1. /\ q \in Nat
      /\ \A c \in Nat : BackingPerNft * c <= reserve <=> c <= q
  BY DivisionCounts
<1>2. MaxReleasable = IF q > active THEN active ELSE q
  BY DEF MaxReleasable
<1> HIDE DEF q
<1>3. ASSUME NEW count \in 1 .. active + 1
      PROVE  Releasable(count) <=> ReleaseEnabled /\ count <= MaxReleasable
  <2>1. BackingPerNft * count <= reserve <=> count <= q
    BY <1>1
  <2>2. count \in Nat /\ count > 0
    OBVIOUS
  <2>3. count <= MaxReleasable <=> count <= active /\ count <= q
    BY <1>1, <1>2, <2>2
  <2> QED
    BY <2>1, <2>2, <2>3 DEF Releasable
<1>4. FullyBacked <=> MaxReleasable = active
  <2>1. BackingPerNft * active <= reserve <=> active <= q
    BY <1>1
  <2>2. BackingPerNft * active \in Nat
    BY BackingNatural
  <2>3. FullyBacked <=> active <= q
    BY <2>1, <2>2 DEF FullyBacked, RequiredReserve
  <2> QED
    BY <1>1, <1>2, <2>3
<1> QED
  BY <1>3, <1>4 DEF ReleasableIsHonest

\* In every reachable state the number of assets a page calls releasable is exactly what
\* projectRelease accepts, and a fully backed World can release every active asset
\* (calculateReserveMetrics).
THEOREM ReleasableIsAlwaysHonest == ReserveSpec => []ReleasableIsHonest
BY ReserveTypeCorrect, HonestWhateverTheCounts, PTL

-----------------------------------------------------------------------------
(* FoundingAccess: a verdict is never older than the memory and the timeout *)
(* allow, for any number of overlapping requests.                           *)

Stages == {"none", "asking", "counted", "allowed", "refused"} \cup Refusals

\* The account is at this moment what it is, and a moment of the past is past.
HistorySound ==
    /\ now \in Nat /\ famous \in BOOLEAN /\ listed \in BOOLEAN
    /\ lastWas \in [BOOLEAN -> Int]
    /\ lastWas[famous] = now
    /\ \A b \in BOOLEAN : lastWas[b] >= Never /\ lastWas[b] <= now

\* What is remembered was true within the timeout of the request that brought it.
MemorySound ==
    /\ metrics \in [famous : BOOLEAN, expires : Int]
    /\ lastWas[metrics.famous] >= metrics.expires - MetricsTtl - MetricsTimeout

\* A request waits for X no longer than its timeout, and what X counted was true since.
WaitSound(visit) ==
    /\ visit.stage \in {"asking", "counted"} =>
          visit.since <= now /\ now <= visit.since + MetricsTimeout
    /\ visit.stage = "counted" => lastWas[visit.famous] >= visit.since

VisitsSound ==
    /\ visits \in [Visitors -> [stage : Stages, listed : BOOLEAN, famous : BOOLEAN,
                                since : Nat]]
    /\ \A v \in Visitors : WaitSound(visits[v])

\* The property speaks of one step; this is what makes every step satisfy it.
AccessSound == HistorySound /\ MemorySound /\ VisitsSound

\* The step relation of VerdictWasTrueLately.
Lately(b) == lastWas[b] >= now - MetricsTtl - MetricsTimeout

WasListed(v) == IF visits[v].stage = "none" THEN listed ELSE visits[v].listed

TrueVerdict(v) ==
    visits'[v] # visits[v] =>
        /\ visits'[v].stage = "allowed" => WasListed(v) /\ Lately(TRUE)
        /\ visits'[v].stage = "refused" => ~ WasListed(v) \/ Lately(FALSE)

\* A new visit that is sound leaves all visits sound, while the account rests.
LEMMA OneVisit ==
    ASSUME HistorySound, VisitsSound, NEW v \in Visitors,
           NEW visit \in [stage : Stages, listed : BOOLEAN, famous : BOOLEAN, since : Nat],
           WaitSound(visit), Visit(v, visit),
           UNCHANGED <<now, famous, listed, lastWas>>
    PROVE  /\ HistorySound' /\ VisitsSound'
           /\ visits'[v] = visit
           /\ \A u \in Visitors \ {v} : visits'[u] = visits[u]
<1>1. /\ visits'[v] = visit
      /\ \A u \in Visitors \ {v} : visits'[u] = visits[u]
      /\ visits' \in [Visitors -> [stage : Stages, listed : BOOLEAN, famous : BOOLEAN,
                                   since : Nat]]
  BY DEF VisitsSound, Visit
<1>2. HistorySound'
  BY DEF HistorySound
<1>3. ASSUME NEW u \in Visitors PROVE WaitSound(visits[u])'
  <2>1. CASE u = v
    BY <2>1, <1>1 DEF WaitSound
  <2>2. CASE u # v
    BY <2>2, <1>1 DEF WaitSound, VisitsSound
  <2> QED
    BY <2>1, <2>2
<1> QED
  BY <1>1, <1>2, <1>3 DEF VisitsSound

\* A decision ends the wait.
LEMMA DecisionSound ==
    ASSUME NEW outcome \in {"allowed", "refused"} \cup Refusals
    PROVE  /\ [NoVisit EXCEPT !.stage = outcome] \in
                 [stage : Stages, listed : BOOLEAN, famous : BOOLEAN, since : Nat]
           /\ [NoVisit EXCEPT !.stage = outcome].stage = outcome
           /\ WaitSound([NoVisit EXCEPT !.stage = outcome])
BY DEF NoVisit, Stages, WaitSound, Refusals

\* A verdict is one of the two, and says which of its reasons failed.
LEMMA VerdictSays ==
    ASSUME NEW isListed \in BOOLEAN, NEW isFamous \in BOOLEAN
    PROVE  /\ Verdict(isListed, isFamous) \in {"allowed", "refused"}
           /\ Verdict(isListed, isFamous) = "allowed" => isListed /\ isFamous = TRUE
           /\ Verdict(isListed, isFamous) = "refused" => ~ isListed \/ isFamous = FALSE
BY DEF Verdict

\* A verdict given to one request, from a fact about the account that is not old.
LEMMA VerdictSound ==
    ASSUME AccessSound, NEW v \in Visitors, NEW isFamous \in BOOLEAN,
           WasListed(v) \in BOOLEAN, Lately(isFamous),
           Decide(v, Verdict(WasListed(v), isFamous)),
           UNCHANGED <<now, famous, listed, lastWas>>
    PROVE  HistorySound' /\ VisitsSound' /\ \A u \in Visitors : TrueVerdict(u)
<1> DEFINE outcome == Verdict(WasListed(v), isFamous)
           visit == [NoVisit EXCEPT !.stage = outcome]
<1>1. /\ outcome \in {"allowed", "refused"}
      /\ outcome = "allowed" => WasListed(v) /\ isFamous = TRUE
      /\ outcome = "refused" => ~ WasListed(v) \/ isFamous = FALSE
  BY VerdictSays
<1>2. /\ visit \in [stage : Stages, listed : BOOLEAN, famous : BOOLEAN, since : Nat]
      /\ visit.stage = outcome
      /\ WaitSound(visit)
  BY <1>1, DecisionSound
<1>3. Visit(v, visit)
  BY DEF Decide
<1> HIDE DEF outcome, visit
<1>4. /\ HistorySound' /\ VisitsSound'
      /\ visits'[v] = visit
      /\ \A u \in Visitors \ {v} : visits'[u] = visits[u]
  BY <1>2, <1>3, OneVisit DEF AccessSound
<1>5. TrueVerdict(v)
  BY <1>1, <1>2, <1>4 DEF TrueVerdict
<1>6. \A u \in Visitors \ {v} : TrueVerdict(u)
  BY <1>4 DEF TrueVerdict
<1> QED
  BY <1>4, <1>5, <1>6

\* Whatever else becomes of a request is no verdict.
LEMMA NotDecided ==
    ASSUME HistorySound, VisitsSound, NEW v \in Visitors,
           NEW visit \in [stage : Stages, listed : BOOLEAN, famous : BOOLEAN, since : Nat],
           WaitSound(visit), visit.stage \notin {"allowed", "refused"}, Visit(v, visit),
           UNCHANGED <<now, famous, listed, lastWas>>
    PROVE  HistorySound' /\ VisitsSound' /\ \A u \in Visitors : TrueVerdict(u)
<1>1. /\ HistorySound' /\ VisitsSound'
      /\ visits'[v] = visit
      /\ \A u \in Visitors \ {v} : visits'[u] = visits[u]
  BY OneVisit
<1> QED
  BY <1>1 DEF TrueVerdict

\* A service that refuses, before X is asked or after.
LEMMA RefusalStep ==
    ASSUME AccessSound, NEW v \in Visitors, NEW status \in Refusals, Decide(v, status),
           UNCHANGED <<now, famous, listed, metrics, lastWas>>
    PROVE  AccessSound' /\ \A u \in Visitors : TrueVerdict(u)
<1> DEFINE visit == [NoVisit EXCEPT !.stage = status]
<1>1. /\ visit \in [stage : Stages, listed : BOOLEAN, famous : BOOLEAN, since : Nat]
      /\ visit.stage = status
      /\ WaitSound(visit)
  BY DecisionSound
<1>2. Visit(v, visit) /\ status \notin {"allowed", "refused"}
  BY DEF Decide, Refusals
<1> HIDE DEF visit
<1>3. HistorySound' /\ VisitsSound' /\ \A u \in Visitors : TrueVerdict(u)
  BY <1>1, <1>2, NotDecided DEF AccessSound
<1> QED
  BY <1>3 DEF AccessSound, MemorySound

\* A request that finds the metrics remembered is answered from them; another one
\* starts to wait.
LEMMA IdentifyStep ==
    ASSUME AccessSound, NEW v \in Visitors, Identify(v)
    PROVE  AccessSound' /\ \A u \in Visitors : TrueVerdict(u)
<1>1. MemorySound'
  BY DEF AccessSound, MemorySound, Identify
<1>2. CASE MetricsRemembered
  <2>1. metrics.famous \in BOOLEAN /\ Lately(metrics.famous)
    <3>1. /\ metrics.famous \in BOOLEAN /\ metrics.expires \in Int
          /\ lastWas[metrics.famous] \in Int /\ now \in Nat
      BY DEF AccessSound, MemorySound, HistorySound
    <3> QED
      BY <1>2, <3>1, FoundingAssumption
      DEF AccessSound, MemorySound, MetricsRemembered, Lately
  <2>2. WasListed(v) = listed /\ listed \in BOOLEAN
    BY DEF WasListed, Identify, AccessSound, HistorySound
  <2>3. Decide(v, Verdict(WasListed(v), metrics.famous))
    BY <1>2, <2>2 DEF Identify
  <2>4. HistorySound' /\ VisitsSound' /\ \A u \in Visitors : TrueVerdict(u)
    BY <2>1, <2>2, <2>3, VerdictSound DEF Identify
  <2> QED
    BY <1>1, <2>4 DEF AccessSound
<1>3. CASE ~ MetricsRemembered
  <2> DEFINE visit == [stage |-> "asking", listed |-> listed, famous |-> FALSE, since |-> now]
  <2>1. /\ visit \in [stage : Stages, listed : BOOLEAN, famous : BOOLEAN, since : Nat]
        /\ visit.stage = "asking"
        /\ WaitSound(visit)
    BY FoundingAssumption DEF AccessSound, HistorySound, Stages, WaitSound
  <2>2. Visit(v, visit)
    BY <1>3 DEF Identify
  <2> HIDE DEF visit
  <2>3. HistorySound' /\ VisitsSound' /\ \A u \in Visitors : TrueVerdict(u)
    BY <2>1, <2>2, NotDecided DEF AccessSound, Identify
  <2> QED
    BY <1>1, <2>3 DEF AccessSound
<1> QED
  BY <1>2, <1>3

\* X counts: what it counts is true now.
LEMMA CountStep ==
    ASSUME AccessSound, NEW v \in Visitors, CountFollowers(v)
    PROVE  AccessSound' /\ \A u \in Visitors : TrueVerdict(u)
<1> DEFINE visit == [stage |-> "counted", listed |-> visits[v].listed, famous |-> famous,
                     since |-> visits[v].since]
<1>1. /\ visits[v] \in [stage : Stages, listed : BOOLEAN, famous : BOOLEAN, since : Nat]
      /\ visits[v].since <= now /\ now <= visits[v].since + MetricsTimeout
  BY DEF AccessSound, VisitsSound, WaitSound, CountFollowers
<1>2. /\ visit \in [stage : Stages, listed : BOOLEAN, famous : BOOLEAN, since : Nat]
      /\ visit.stage = "counted"
      /\ WaitSound(visit)
  BY <1>1 DEF AccessSound, HistorySound, Stages, WaitSound
<1>3. Visit(v, visit)
  BY DEF CountFollowers
<1> HIDE DEF visit
<1>4. HistorySound' /\ VisitsSound' /\ \A u \in Visitors : TrueVerdict(u)
  BY <1>2, <1>3, NotDecided DEF AccessSound, CountFollowers
<1> QED
  BY <1>4 DEF AccessSound, MemorySound, CountFollowers

\* The answer of X arrives within the timeout, decides, and is remembered.
LEMMA ReceiveStep ==
    ASSUME AccessSound, NEW v \in Visitors, ReceiveMetrics(v)
    PROVE  AccessSound' /\ \A u \in Visitors : TrueVerdict(u)
<1> DEFINE isFamous == visits[v].famous
<1>1. /\ visits[v].stage = "counted"
      /\ isFamous \in BOOLEAN /\ visits[v].listed \in BOOLEAN /\ visits[v].since \in Nat
      /\ now <= visits[v].since + MetricsTimeout
      /\ lastWas[isFamous] >= visits[v].since
      /\ lastWas[isFamous] \in Int /\ now \in Nat
  BY DEF AccessSound, VisitsSound, WaitSound, ReceiveMetrics, HistorySound
<1>2. lastWas[isFamous] >= now - MetricsTimeout
  BY <1>1, FoundingAssumption
<1>3. Lately(isFamous)
  BY <1>1, <1>2, FoundingAssumption DEF Lately
<1>4. WasListed(v) = visits[v].listed
  BY <1>1 DEF WasListed
<1>5. HistorySound' /\ VisitsSound' /\ \A u \in Visitors : TrueVerdict(u)
  BY <1>1, <1>3, <1>4, VerdictSound DEF ReceiveMetrics
<1>6. MemorySound'
  <2>1. /\ metrics' = [famous |-> isFamous, expires |-> now + MetricsTtl]
        /\ lastWas' = lastWas
    BY DEF ReceiveMetrics
  <2> HIDE DEF isFamous
  <2> QED
    BY <1>1, <1>2, <2>1, FoundingAssumption DEF MemorySound
<1> QED
  BY <1>5, <1>6 DEF AccessSound

\* The caller has its answer.
LEMMA LeaveStep ==
    ASSUME AccessSound, NEW v \in Visitors, Leave(v)
    PROVE  AccessSound' /\ \A u \in Visitors : TrueVerdict(u)
<1>1. /\ NoVisit \in [stage : Stages, listed : BOOLEAN, famous : BOOLEAN, since : Nat]
      /\ NoVisit.stage = "none"
      /\ WaitSound(NoVisit)
  BY DEF NoVisit, Stages, WaitSound
<1>2. HistorySound' /\ VisitsSound' /\ \A u \in Visitors : TrueVerdict(u)
  BY <1>1, NotDecided DEF AccessSound, Leave
<1> QED
  BY <1>2 DEF AccessSound, MemorySound, Leave

\* A moment later the account has been what it is for a moment more, and no request is
\* over its timeout.
LEMMA TickStep ==
    ASSUME AccessSound, AccessTick
    PROVE  AccessSound' /\ \A u \in Visitors : TrueVerdict(u)
<1>1. /\ lastWas' \in [BOOLEAN -> Int] /\ now' = now + 1 /\ now \in Nat
      /\ lastWas'[famous] = now + 1
      /\ \A b \in BOOLEAN : lastWas[b] \in Int /\ lastWas'[b] \in Int
                            /\ lastWas'[b] >= lastWas[b] /\ lastWas'[b] <= now + 1
  BY DEF AccessSound, HistorySound, AccessTick
<1>2. HistorySound'
  BY <1>1, FoundingAssumption DEF AccessSound, HistorySound, AccessTick, Never
<1>3. MemorySound'
  BY <1>1, FoundingAssumption DEF AccessSound, MemorySound, AccessTick
<1>4. ASSUME NEW v \in Visitors PROVE WaitSound(visits[v])'
  <2>1. /\ visits'[v] = visits[v]
        /\ visits[v].since \in Nat /\ visits[v].famous \in BOOLEAN
        /\ WaitSound(visits[v])
    BY DEF AccessSound, VisitsSound, AccessTick
  <2>2. visits[v].stage \in {"asking", "counted"} => now < visits[v].since + MetricsTimeout
    BY DEF AccessTick
  <2> QED
    BY <1>1, <2>1, <2>2, FoundingAssumption DEF WaitSound
<1>5. VisitsSound'
  BY <1>4 DEF AccessSound, VisitsSound, AccessTick
<1> QED
  BY <1>2, <1>3, <1>5 DEF AccessSound, AccessTick, TrueVerdict

\* From now on the account is something else, and it was what it was until now.
LEMMA FollowersStep ==
    ASSUME AccessSound, FollowersChange
    PROVE  AccessSound' /\ \A u \in Visitors : TrueVerdict(u)
<1>1. /\ lastWas' \in [BOOLEAN -> Int] /\ now' = now /\ now \in Nat
      /\ famous' = ~ famous /\ famous' \in BOOLEAN /\ famous \in BOOLEAN
  BY DEF AccessSound, HistorySound, FollowersChange
<1>2. /\ lastWas'[famous'] = now
      /\ \A b \in BOOLEAN : lastWas[b] \in Int /\ lastWas'[b] \in Int
                            /\ lastWas'[b] >= lastWas[b] /\ lastWas'[b] <= now
  BY <1>1 DEF AccessSound, HistorySound, FollowersChange
<1>3. HistorySound'
  BY <1>1, <1>2, FoundingAssumption DEF AccessSound, HistorySound, FollowersChange, Never
<1>4. MemorySound'
  BY <1>1, <1>2, FoundingAssumption DEF AccessSound, MemorySound, FollowersChange
<1>5. ASSUME NEW v \in Visitors PROVE WaitSound(visits[v])'
  <2>1. /\ visits'[v] = visits[v]
        /\ visits[v].since \in Nat /\ visits[v].famous \in BOOLEAN
        /\ WaitSound(visits[v])
    BY DEF AccessSound, VisitsSound, FollowersChange
  <2> QED
    BY <1>1, <1>2, <2>1, FoundingAssumption DEF WaitSound
<1>6. VisitsSound'
  BY <1>5 DEF AccessSound, VisitsSound, FollowersChange
<1> QED
  BY <1>3, <1>4, <1>6 DEF AccessSound, FollowersChange, TrueVerdict

\* Every step keeps the invariant and gives true verdicts only.
LEMMA AccessStep ==
    AccessSound /\ [AccessNext]_accessVars =>
        AccessSound' /\ [\A u \in Visitors : TrueVerdict(u)]_accessVars
<1> SUFFICES ASSUME AccessSound, AccessNext
             PROVE  AccessSound' /\ \A u \in Visitors : TrueVerdict(u)
  BY DEF AccessSound, HistorySound, MemorySound, VisitsSound, WaitSound, accessVars, visitVars
<1>1. ASSUME NEW v \in Visitors, NEW status \in Refusals, TurnAway(v, status)
      PROVE  AccessSound' /\ \A u \in Visitors : TrueVerdict(u)
  BY <1>1, RefusalStep DEF TurnAway
<1>2. ASSUME NEW v \in Visitors, MetricsUnavailable(v)
      PROVE  AccessSound' /\ \A u \in Visitors : TrueVerdict(u)
  BY <1>2, RefusalStep DEF MetricsUnavailable, Refusals
<1>3. CASE Rename
  BY <1>3 DEF Rename, AccessSound, HistorySound, MemorySound, VisitsSound, WaitSound, TrueVerdict
<1> QED
  BY <1>1, <1>2, <1>3, IdentifyStep, CountStep, ReceiveStep, LeaveStep, TickStep, FollowersStep
  DEF AccessNext

\* An account of which nothing is remembered.
LEMMA AccessStarts == AccessInit => AccessSound
<1> SUFFICES ASSUME AccessInit PROVE AccessSound
  OBVIOUS
<1>1. HistorySound
  BY FoundingAssumption DEF AccessInit, HistorySound, Never
<1>2. MemorySound
  <2>1. Never \in Int /\ Never <= 0
    BY FoundingAssumption DEF Never
  <2> DEFINE was == lastWas[FALSE]
  <2>2. was = 0 \/ was = Never
    BY Zenon DEF AccessInit
  <2> HIDE DEF was
  <2>3. metrics = [famous |-> FALSE, expires |-> Never]
    BY DEF AccessInit, NoMetrics
  <2>4. /\ metrics \in [famous : BOOLEAN, expires : Int]
        /\ metrics.famous = FALSE /\ metrics.expires = Never
    BY <2>1, <2>3
  <2>5. was >= Never - MetricsTtl - MetricsTimeout
    BY <2>1, <2>2, FoundingAssumption
  <2> QED
    BY <2>4, <2>5, Zenon DEF MemorySound, was
<1>3. VisitsSound
  BY DEF AccessInit, VisitsSound, WaitSound, NoVisit, Stages
<1> QED
  BY <1>1, <1>2, <1>3 DEF AccessSound

\* Whoever is let in was on the allowlist when he asked and had the followers no longer
\* ago than an answer is remembered and may take to arrive; whoever is refused lacked
\* one of the two (verifyFoundingAccess, fetchXMetrics).
THEOREM VerdictsAreRecent == AccessSpec => VerdictWasTrueLately
<1>1. AccessInit => AccessSound
  BY AccessStarts
<1>2. [\A u \in Visitors : TrueVerdict(u)]_accessVars <=>
         [\A v \in Visitors :
             LET wasListed == IF visits[v].stage = "none" THEN listed ELSE visits[v].listed
                 lately(b) == lastWas[b] >= now - MetricsTtl - MetricsTimeout
             IN  visits'[v] # visits[v] =>
                   /\ visits'[v].stage = "allowed" => wasListed /\ lately(TRUE)
                   /\ visits'[v].stage = "refused" => ~ wasListed \/ lately(FALSE)]_accessVars
  BY DEF TrueVerdict, WasListed, Lately
<1> QED
  BY <1>1, <1>2, AccessStep, PTL DEF AccessSpec, VerdictWasTrueLately

-----------------------------------------------------------------------------
(* PumpInspection: what the page says of a coin, for chains of any length. *)

CoinSlot ==
    [mint   : {{}} \cup {Mint(program) : program \in TokenPrograms},
     curve  : {{}, Curve("system", "none")} \cup {Curve("pump", layout) : layout \in PumpLayouts},
     tokens : {{}} \cup {CurveTokens(program) : program \in TokenPrograms}]

Verdicts ==
    {NoVerdict, "UNVERIFIED", "NOT_A_PUMP_COIN", "PUMP_CLASSIC_SPL_COMPATIBLE",
     "PUMP_TOKEN_2022_INCOMPATIBLE"}

Inspections ==
    [stage : {"none", "asked", "classified", "answered"}, mintSlot : Nat, curveSlot : Nat,
     verdict : Verdicts]

\* A coin, once minted, stays what it is, and the curve at Pump's address tells its origin.
CoinChainSound ==
    /\ coin \in Seq(CoinSlot) /\ Len(coin) > 0 /\ genuine \in BOOLEAN
    /\ genuine => LatestCoin.mint # {}
    /\ \A i, j \in 1 .. Len(coin) :
          i <= j /\ coin[i].mint # {} => coin[j].mint = coin[i].mint
    /\ \A i \in 1 .. Len(coin) :
          /\ (\E a \in coin[i].curve : a.owner = "pump") => genuine
          /\ genuine /\ coin[i].mint # {} => coin[i].curve # {}

\* What a verdict rests on.
Grounded(verdict, mintSlot, curveSlot) ==
    /\ verdict \in {"PUMP_CLASSIC_SPL_COMPATIBLE", "PUMP_TOKEN_2022_INCOMPATIBLE"} =>
          /\ genuine /\ LatestCoin.mint # {}
          /\ verdict = "PUMP_CLASSIC_SPL_COMPATIBLE"
                <=> OwnerOf(LatestCoin.mint) = "CLASSIC_SPL"
    /\ verdict = "NOT_A_PUMP_COIN" =>
          /\ mintSlot \in 1 .. Len(coin) /\ curveSlot \in 1 .. Len(coin)
          /\ coin[mintSlot].mint # {} /\ coin[curveSlot].curve = {}

InspectionSound ==
    /\ inspection \in Inspections
    /\ inspection.stage = "classified" =>
          inspection.mintSlot \in 1 .. Len(coin) /\ coin[inspection.mintSlot].mint # {}
    /\ inspection.stage = "answered" =>
          Grounded(inspection.verdict, inspection.mintSlot, inspection.curveSlot)
    /\ checker \in [state : {"idle", "checking", "complete", "failed"}, shown : Verdicts]
    /\ checker.shown # NoVerdict =>
          inspection.stage = "answered" /\ inspection.verdict = checker.shown

CoinSound == CoinChainSound /\ InspectionSound

\* The token program is the owner of the mint.
LEMMA OwnerOfMint ==
    ASSUME NEW program
    PROVE  OwnerOf(Mint(program)) = program /\ Mint(program) # {}
<1> DEFINE a == [owner |-> program, executable |-> FALSE, full |-> TRUE, initialized |-> TRUE]
<1>1. Mint(program) = {a}
  BY DEF Mint
<1>2. (CHOOSE x \in Mint(program) : TRUE) = a
  BY <1>1
<1> QED
  BY <1>1, <1>2 DEF OwnerOf

\* The invariant gives the property: a curve that was not there when the mint was is a
\* curve of an earlier slot.
LEMMA GroundedIsTrue == CoinSound => VerdictIsTrue
<1> SUFFICES ASSUME CoinSound PROVE VerdictIsTrue
  OBVIOUS
<1>1. CASE checker.shown = NoVerdict
  BY <1>1 DEF VerdictIsTrue, NoVerdict
<1>2. CASE checker.shown # NoVerdict
  <2>1. Grounded(checker.shown, inspection.mintSlot, inspection.curveSlot)
    BY <1>2 DEF CoinSound, InspectionSound
  <2>2. ASSUME checker.shown = "NOT_A_PUMP_COIN", genuine
        PROVE  inspection.curveSlot < inspection.mintSlot
    <3> DEFINE m == inspection.mintSlot
               c == inspection.curveSlot
    <3>1. /\ m \in 1 .. Len(coin) /\ c \in 1 .. Len(coin)
          /\ coin[m].mint # {} /\ coin[c].curve = {}
      BY <2>1, <2>2 DEF Grounded
    <3> HIDE DEF m, c
    <3>2. m <= c => coin[c].mint = coin[m].mint
      BY <3>1 DEF CoinSound, CoinChainSound
    <3>3. ~ (m <= c)
      BY <3>1, <3>2, <2>2 DEF CoinSound, CoinChainSound
    <3> QED
      BY <3>1, <3>3, Len(coin) \in Nat DEF m, c, CoinSound, CoinChainSound
  <2> QED
    BY <2>1, <2>2 DEF VerdictIsTrue, Grounded
<1> QED
  BY <1>1, <1>2

\* What a new slot must be like for the chain and every verdict on it to stay sound.
LEMMA NewSlotSound ==
    ASSUME CoinSound, NEW e \in CoinSlot, NewSlot(e), genuine' \in BOOLEAN,
           genuine => genuine',
           genuine' # genuine => LatestCoin.mint = {},
           LatestCoin.mint # {} => e.mint = LatestCoin.mint,
           (\E a \in e.curve : a.owner = "pump") => genuine',
           genuine' => e.mint # {} /\ e.curve # {}
    PROVE  CoinSound'
<1> DEFINE n == Len(coin)
<1>1. /\ coin \in Seq(CoinSlot) /\ n \in Nat /\ n > 0 /\ genuine \in BOOLEAN
      /\ coin' = Append(coin, e)
      /\ UNCHANGED <<checker, inspection>>
  BY DEF CoinSound, CoinChainSound, NewSlot
<1>2. /\ coin' \in Seq(CoinSlot) /\ Len(coin') = n + 1 /\ coin'[n + 1] = e
      /\ \A i \in 1 .. n : coin'[i] = coin[i]
  BY <1>1
<1>3. LatestCoin = coin[n] /\ LatestCoin' = e
  BY <1>2 DEF LatestCoin
<1>4. /\ \A i, j \in 1 .. n : i <= j /\ coin[i].mint # {} => coin[j].mint = coin[i].mint
      /\ \A i \in 1 .. n : (\E a \in coin[i].curve : a.owner = "pump") => genuine
      /\ \A i \in 1 .. n : genuine /\ coin[i].mint # {} => coin[i].curve # {}
  BY DEF CoinSound, CoinChainSound
<1> HIDE DEF n
<1>5. \A i \in 1 .. n : coin[i].mint # {} => e.mint = coin[i].mint
  BY <1>1, <1>3, <1>4
<1>6. \A i \in 1 .. n : coin[i].mint # {} => genuine' = genuine
  BY <1>1, <1>3, <1>4
<1>7. CoinChainSound'
  <2>1. ASSUME NEW i \in 1 .. n + 1, NEW j \in 1 .. n + 1, i <= j, coin'[i].mint # {}
        PROVE  coin'[j].mint = coin'[i].mint
    BY <1>1, <1>2, <1>4, <1>5, <2>1
  <2>2. ASSUME NEW i \in 1 .. n + 1
        PROVE  /\ (\E a \in coin'[i].curve : a.owner = "pump") => genuine'
               /\ genuine' /\ coin'[i].mint # {} => coin'[i].curve # {}
    BY <1>1, <1>2, <1>4, <1>6
  <2> QED
    BY <1>1, <1>2, <1>3, <2>1, <2>2 DEF CoinChainSound
<1>8. InspectionSound'
  <2>1. ASSUME NEW verdict, NEW s, NEW t, Grounded(verdict, s, t)
        PROVE  Grounded(verdict, s, t)'
    BY <1>1, <1>2, <1>3, <2>1 DEF Grounded
  <2>2. /\ inspection' = inspection /\ checker' = checker
        /\ inspection.mintSlot \in 1 .. n => coin'[inspection.mintSlot] = coin[inspection.mintSlot]
    BY <1>1, <1>2
  <2>3. Grounded(inspection.verdict, inspection.mintSlot, inspection.curveSlot) =>
           Grounded(inspection.verdict, inspection.mintSlot, inspection.curveSlot)'
    BY <1>1, <1>2, <1>3, <2>2 DEF Grounded
  <2>4. inspection.mintSlot \in 1 .. n => inspection.mintSlot \in 1 .. Len(coin')
    BY <1>1, <1>2
  <2> QED
    BY <1>1, <1>2, <2>2, <2>3, <2>4 DEF CoinSound, InspectionSound, n
<1> QED
  BY <1>7, <1>8 DEF CoinSound

\* Pump makes a coin.
LEMMA PumpCreatesStep ==
    ASSUME CoinSound, NEW program \in TokenPrograms, NEW layout \in PumpLayouts,
           PumpCreates(program, layout)
    PROVE  CoinSound'
<1> DEFINE e == [mint |-> Mint(program), curve |-> Curve("pump", layout),
                 tokens |-> CurveTokens(program)]
<1>1. e \in CoinSlot
  BY DEF CoinSlot
<1>2. e.mint # {} /\ e.curve # {}
  BY OwnerOfMint DEF Curve
<1>3. NewSlot(e) /\ genuine' = TRUE /\ LatestCoin.mint = {}
  BY DEF PumpCreates
<1> HIDE DEF e
<1> QED
  BY <1>1, <1>2, <1>3, NewSlotSound

\* The latest slot is one of the slots.
LEMMA LatestSound ==
    ASSUME CoinSound
    PROVE  /\ LatestCoin \in CoinSlot
           /\ (\E a \in LatestCoin.curve : a.owner = "pump") => genuine
           /\ genuine => LatestCoin.mint # {} /\ LatestCoin.curve # {}
<1>1. Len(coin) \in 1 .. Len(coin)
  BY DEF CoinSound, CoinChainSound
<1> QED
  BY <1>1 DEF CoinSound, CoinChainSound, LatestCoin

\* The accounts of a slot, one by one.
LEMMA SlotParts ==
    ASSUME NEW e \in CoinSlot
    PROVE  /\ \A program \in TokenPrograms : [e EXCEPT !.mint = Mint(program)] \in CoinSlot
           /\ [e EXCEPT !.curve = Curve("system", "none")] \in CoinSlot
           /\ \A program \in TokenPrograms : [e EXCEPT !.tokens = CurveTokens(program)] \in CoinSlot
           /\ [e EXCEPT !.tokens = {}] \in CoinSlot
           /\ e.mint # {} => OwnerOf(e.mint) \in TokenPrograms
BY OwnerOfMint DEF CoinSlot

\* Whatever else comes onto the chain does not pretend to be Pump's.
LEMMA OthersStep ==
    ASSUME CoinSound,
           \/ \E program \in TokenPrograms : CreatedElsewhere(program)
           \/ LamportsToCurve \/ TokensToCurve \/ Graduate
    PROVE  CoinSound'
<1>1. PICK l : l = LatestCoin
  OBVIOUS
<1>2. /\ l \in CoinSlot /\ genuine \in BOOLEAN
      /\ (\E a \in l.curve : a.owner = "pump") => genuine
      /\ genuine => l.mint # {} /\ l.curve # {}
  BY <1>1, LatestSound DEF CoinSound, CoinChainSound
<1>3. ASSUME NEW program \in TokenPrograms, CreatedElsewhere(program)
      PROVE  CoinSound'
  <2>1. PICK e : e = [l EXCEPT !.mint = Mint(program)]
    OBVIOUS
  <2>2. e \in CoinSlot /\ e.curve = l.curve /\ l.mint = {}
    BY <1>1, <1>2, <1>3, <2>1, SlotParts DEF CreatedElsewhere, CoinSlot
  <2>3. NewSlot(e) /\ genuine' = genuine
    BY <1>1, <1>3, <2>1 DEF CreatedElsewhere
  <2> QED
    BY <1>1, <1>2, <2>2, <2>3, NewSlotSound
<1>4. CASE LamportsToCurve
  <2>1. PICK e : e = [l EXCEPT !.curve = Curve("system", "none")]
    OBVIOUS
  <2>2. e \in CoinSlot /\ e.mint = l.mint /\ l.curve = {} /\ e.curve = Curve("system", "none")
    BY <1>1, <1>2, <1>4, <2>1, SlotParts DEF LamportsToCurve, CoinSlot
  <2>3. NewSlot(e) /\ genuine' = genuine
    BY <1>1, <1>4, <2>1 DEF LamportsToCurve
  <2>4. \A a \in e.curve : a.owner # "pump"
    BY <2>2 DEF Curve
  <2> QED
    BY <1>1, <1>2, <2>2, <2>3, <2>4, NewSlotSound
<1>5. ASSUME NEW tokens, NewSlot([l EXCEPT !.tokens = tokens]),
             [l EXCEPT !.tokens = tokens] \in CoinSlot, genuine' = genuine
      PROVE  CoinSound'
  <2>1. PICK e : e = [l EXCEPT !.tokens = tokens]
    OBVIOUS
  <2>2. e \in CoinSlot /\ e.mint = l.mint /\ e.curve = l.curve /\ NewSlot(e)
    BY <1>2, <1>5, <2>1 DEF CoinSlot
  <2> QED
    BY <1>1, <1>2, <1>5, <2>2, NewSlotSound
<1>6. CASE TokensToCurve
  BY <1>1, <1>2, <1>5, <1>6, SlotParts DEF TokensToCurve
<1>7. CASE Graduate
  BY <1>1, <1>2, <1>5, <1>7, SlotParts DEF Graduate
<1> QED
  BY <1>3, <1>4, <1>6, <1>7

\* The page and the request leave the chain as it is.
LEMMA ChainStays ==
    ASSUME CoinSound, UNCHANGED <<coin, genuine>>
    PROVE  CoinChainSound' /\ LatestCoin' = LatestCoin
BY DEF CoinSound, CoinChainSound, LatestCoin

\* A verdict is grounded in the slots it was read from.
LEMMA VerdictGrounded ==
    ASSUME CoinSound, NEW s \in 1 .. Len(coin), NEW t \in 1 .. Len(coin), coin[s].mint # {}
    PROVE  /\ Grounded(CoinVerdict(coin[s].mint, coin[t].curve, coin[t].tokens), s, t)
           /\ CoinVerdict(coin[s].mint, coin[t].curve, coin[t].tokens) \in Verdicts
<1> DEFINE verdict == CoinVerdict(coin[s].mint, coin[t].curve, coin[t].tokens)
<1>1. LatestCoin.mint = coin[s].mint
  BY DEF CoinSound, CoinChainSound, LatestCoin
<1>2. CASE coin[t].curve = {}
  BY <1>2 DEF Grounded, CoinVerdict, Verdicts
<1>3. CASE coin[t].curve # {} /\ CurveReadable(coin[t].curve)
  <2>1. genuine
    BY <1>3 DEF CurveReadable, CoinSound, CoinChainSound
  <2> QED
    BY <1>1, <1>3, <2>1 DEF Grounded, CoinVerdict, Verdicts
<1>4. CASE coin[t].curve # {} /\ ~ CurveReadable(coin[t].curve)
  BY <1>4 DEF Grounded, CoinVerdict, Verdicts
<1> QED
  BY <1>2, <1>3, <1>4

\* What becomes of a request.
LEMMA InspectionParts ==
    ASSUME NEW q \in Inspections, NEW v \in Verdicts, NEW n \in Nat
    PROVE  /\ [q EXCEPT !.stage = "answered", !.verdict = v] \in Inspections
           /\ [q EXCEPT !.curveSlot = n] \in Inspections
           /\ [q EXCEPT !.stage = "classified", !.mintSlot = n] \in Inspections
BY DEF Inspections

\* The request: what it concludes is grounded.
LEMMA RequestStep ==
    ASSUME CoinSound,
           \/ InspectionUnverified
           \/ \E slot \in 1 .. Len(coin) : ReadMint(slot) \/ ReadCurve(slot)
    PROVE  CoinSound'
<1>1. PICK q : q = inspection
  OBVIOUS
<1>2. /\ q \in Inspections /\ q.stage # "answered"
      /\ checker \in [state : {"idle", "checking", "complete", "failed"}, shown : Verdicts] /\ checker.shown = NoVerdict
      /\ UNCHANGED <<coin, checker, genuine>>
  BY <1>1 DEF CoinSound, InspectionSound, InspectionUnverified, ReadMint, ReadCurve
<1>3. CoinChainSound'
  BY <1>2, ChainStays
<1>4. ASSUME NEW v \in Verdicts, Conclude(v) = inspection',
             v \notin {"PUMP_CLASSIC_SPL_COMPATIBLE", "PUMP_TOKEN_2022_INCOMPATIBLE",
                       "NOT_A_PUMP_COIN"}
      PROVE  InspectionSound'
  <2>1. PICK p : p = inspection'
    OBVIOUS
  <2>2. p = [q EXCEPT !.stage = "answered", !.verdict = v]
    BY <1>1, <1>4, <2>1 DEF Conclude
  <2>3. p \in Inspections
    BY <1>2, <1>4, <2>2, InspectionParts
  <2>4. p.stage = "answered" /\ p.verdict = v
    BY <1>2, <2>2 DEF Inspections
  <2> QED
    BY <1>2, <1>4, <2>1, <2>3, <2>4 DEF InspectionSound, Grounded, NoVerdict
<1>5. CASE InspectionUnverified
  BY <1>3, <1>4, <1>5 DEF InspectionUnverified, Verdicts, CoinSound
<1>6. ASSUME NEW slot \in 1 .. Len(coin), slot \in Nat, ReadMint(slot)
      PROVE  InspectionSound'
  <2>1. CASE CoinMintReadable(coin[slot].mint)
    <3>1. PICK p : p = inspection'
      OBVIOUS
    <3>2. p = [q EXCEPT !.stage = "classified", !.mintSlot = slot]
      BY <1>1, <1>6, <2>1, <3>1 DEF ReadMint
    <3>3. p \in Inspections
      BY <1>2, <3>2, InspectionParts, <1>6, NoVerdict \in Verdicts DEF Verdicts
    <3>5. p.stage = "classified" /\ p.mintSlot = slot
      BY <1>2, <3>2 DEF Inspections
    <3>4. coin[slot].mint # {}
      BY <2>1 DEF CoinMintReadable
    <3> QED
      BY <1>2, <3>1, <3>3, <3>4, <3>5 DEF InspectionSound, NoVerdict
  <2>2. CASE ~ CoinMintReadable(coin[slot].mint)
    BY <1>4, <1>6, <2>2 DEF ReadMint, Verdicts
  <2> QED
    BY <2>1, <2>2
<1>7. ASSUME NEW slot \in 1 .. Len(coin), slot \in Nat, ReadCurve(slot)
      PROVE  InspectionSound'
  <2> DEFINE s == q.mintSlot
             v == CoinVerdict(coin[s].mint, coin[slot].curve, coin[slot].tokens)
  <2>1. s \in 1 .. Len(coin) /\ coin[s].mint # {}
    BY <1>1, <1>7 DEF CoinSound, InspectionSound, ReadCurve
  <2>2. Grounded(v, s, slot) /\ v \in Verdicts
    BY <2>1, VerdictGrounded
  <2>3. PICK p : p = inspection'
    OBVIOUS
  <2>4. p = [[q EXCEPT !.stage = "answered", !.verdict = v] EXCEPT !.curveSlot = slot]
    BY <1>1, <1>7, <2>3 DEF ReadCurve, Conclude
  <2> HIDE DEF s, v
  <2>5. PICK r : r = [q EXCEPT !.stage = "answered", !.verdict = v]
    OBVIOUS
  <2>6. /\ r \in Inspections /\ r.stage = "answered" /\ r.verdict = v
        /\ r.mintSlot = q.mintSlot
    <3>1. r \in Inspections
      BY <1>2, <2>2, <2>5, InspectionParts
    <3> QED
      BY <1>2, <2>5, <3>1 DEF Inspections
  <2>7. p = [r EXCEPT !.curveSlot = slot]
    BY <2>4, <2>5
  <2>8. p \in Inspections
    BY <2>2, <2>6, <2>7, InspectionParts, <1>7
  <2>9. p.stage = "answered" /\ p.verdict = v /\ p.mintSlot = q.mintSlot /\ p.curveSlot = slot
    BY <2>6, <2>7 DEF Inspections
  <2>10. LatestCoin' = LatestCoin
    BY <1>2, ChainStays
  <2> QED
    BY <1>2, <2>2, <2>3, <2>8, <2>9, <2>10 DEF InspectionSound, Grounded, NoVerdict, s
<1> QED
  BY <1>3, <1>5, <1>6, <1>7, Len(coin) \in Nat DEF CoinSound, CoinChainSound

\* The page: it shows what the request concluded.
LEMMA PageStep ==
    ASSUME CoinSound,
           (\E plausible \in BOOLEAN : SubmitMint(plausible)) \/ ShowVerdict \/ InspectionLost
    PROVE  CoinSound'
<1>1. CoinChainSound'
  BY ChainStays DEF SubmitMint, ShowVerdict, InspectionLost
<1>2. /\ NoInspection \in Inspections
      /\ [NoInspection EXCEPT !.stage = "asked"] \in Inspections
      /\ NoInspection.stage = "none"
      /\ [NoInspection EXCEPT !.stage = "asked"].stage = "asked"
  BY DEF NoInspection, Inspections, Verdicts, NoVerdict
<1>3. ASSUME NEW plausible \in BOOLEAN, SubmitMint(plausible)
      PROVE  InspectionSound'
  <2>1. PICK p, k : p = inspection' /\ k = checker'
    OBVIOUS
  <2>2. p \in Inspections /\ p.stage \in {"none", "asked"}
    BY <1>2, <1>3, <2>1 DEF SubmitMint
  <2>3. \/ k = [state |-> "checking", shown |-> NoVerdict]
        \/ k = [state |-> "failed", shown |-> NoVerdict]
    BY <1>3, <2>1 DEF SubmitMint
  <2>4. /\ k \in [state : {"idle", "checking", "complete", "failed"}, shown : Verdicts]
        /\ k.shown = NoVerdict
    BY <2>3 DEF Verdicts
  <2> QED
    BY <2>1, <2>2, <2>4 DEF InspectionSound
<1>4. CASE InspectionLost
  BY <1>1, <1>2, <1>4 DEF InspectionLost, CoinSound, InspectionSound, NoVerdict, Verdicts
<1>5. CASE ShowVerdict
  <2>1. LatestCoin' = LatestCoin
    BY <1>5, ChainStays DEF ShowVerdict
  <2>2. PICK k : k = checker'
    OBVIOUS
  <2>3. k = [state |-> "complete", shown |-> inspection.verdict]
    BY <1>5, <2>2 DEF ShowVerdict
  <2>4. /\ k \in [state : {"idle", "checking", "complete", "failed"}, shown : Verdicts]
        /\ k.shown = inspection.verdict
    BY <2>3 DEF CoinSound, InspectionSound, Inspections
  <2> QED
    BY <1>1, <1>5, <2>1, <2>2, <2>4 DEF ShowVerdict, CoinSound, InspectionSound, Grounded
<1> QED
  BY <1>1, <1>3, <1>4, <1>5 DEF CoinSound

\* Every step keeps the invariant.
LEMMA CoinStep == CoinSound /\ [CoinNext]_coinVars => CoinSound'
<1> SUFFICES ASSUME CoinSound, [CoinNext]_coinVars PROVE CoinSound'
  OBVIOUS
<1>1. CASE UNCHANGED coinVars
  <2>1. CoinChainSound' /\ LatestCoin' = LatestCoin
    BY <1>1, ChainStays DEF coinVars
  <2>2. UNCHANGED <<coin, checker, inspection, genuine>>
    BY <1>1 DEF coinVars
  <2>3. Grounded(inspection.verdict, inspection.mintSlot, inspection.curveSlot) =>
           Grounded(inspection.verdict, inspection.mintSlot, inspection.curveSlot)'
    BY <2>1, <2>2 DEF Grounded
  <2>4. InspectionSound'
    BY <2>2, <2>3 DEF CoinSound, InspectionSound
  <2> QED
    BY <2>1, <2>4 DEF CoinSound
<1> QED
  BY <1>1, PumpCreatesStep, OthersStep, RequestStep, PageStep DEF CoinNext

\* A chain without the coin, and a page that was not asked.
LEMMA CoinStarts == CoinInit => CoinSound
<1> SUFFICES ASSUME CoinInit PROVE CoinSound
  OBVIOUS
<1>1. CoinChainSound
  <2>1. PICK e : e = [mint |-> {}, curve |-> {}, tokens |-> {}]
    OBVIOUS
  <2>2. e \in CoinSlot /\ e.mint = {} /\ e.curve = {}
    BY <2>1 DEF CoinSlot
  <2>3. coin = <<e>> /\ genuine = FALSE
    BY <2>1 DEF CoinInit
  <2>4. coin \in Seq(CoinSlot) /\ Len(coin) = 1 /\ \A i \in 1 .. Len(coin) : coin[i] = e
    BY <2>2, <2>3
  <2>5. Len(coin) > 0
    BY <2>4
  <2>6. genuine \in BOOLEAN /\ ~ genuine
    BY <2>3, Zenon
  <2>7. \A i \in 1 .. Len(coin) : coin[i].mint = {} /\ coin[i].curve = {}
    BY <2>2, <2>4, Zenon
  <2> QED
    BY <2>4, <2>5, <2>6, <2>7, Zenon DEF CoinChainSound
<1>2. InspectionSound
  BY DEF CoinInit, NoInspection, NoVerdict, InspectionSound, Inspections, Verdicts
<1> QED
  BY <1>1, <1>2 DEF CoinSound

\* A coin the page calls a Pump coin is one, of the token program it names, and a coin of
\* Pump is called none only when the second node lagged behind the first, whatever
\* lamports, curves and token accounts others put at Pump's addresses, for any layouts
\* and any number of slots (inspectPumpMint, PumpMintChecker).
THEOREM VerdictsAreTrue == CoinSpec => []VerdictIsTrue
<1>1. CoinInit => CoinSound
  BY CoinStarts
<1> QED
  BY <1>1, CoinStep, GroundedIsTrue, PTL DEF CoinSpec

-----------------------------------------------------------------------------
(* PumpPreflight: what PASSED stands for, for any number of overlapping calls. *)

Results ==
    [status : {"none", "PASSED", "FAILED"}, cluster : Clusters \cup {"none"},
     kind : {"none", "classic"}, accepted : BOOLEAN]

\* A result that is called passed was accepted, and is of classic instructions.
TrueResult(result) ==
    result.status = "PASSED" => result.accepted /\ result.kind = "classic"

Calls ==
    [stage : {"none", "sent", "refusal", "built", "answer"}, cluster : Clusters \cup {"none"},
     draft : Drafts \cup {"none"}, result : Results]

CallSound(call) ==
    /\ call \in Calls /\ TrueResult(call.result)
    /\ call.stage # "none" => call.cluster \in Clusters
    /\ call.stage = "built" => call.result.kind = "classic"
    /\ call.stage = "answer" =>
          /\ call.result.cluster = call.cluster
          /\ call.result.status # "none"

Under(c) == rehearsals[c].stage # "none"

\* While no cluster was chosen during a run, the one call under way is that of the
\* cluster on display, and the console waits for it.
InStep ==
    /\ \A c, d \in RehearsalCalls : Under(c) /\ Under(d) => c = d
    /\ \A c \in RehearsalCalls : Under(c) =>
          /\ rehearsals[c].cluster = rehearsal.cluster
          /\ rehearsal.state = "RUNNING" /\ rehearsal.result = NoResult
    /\ rehearsal.result # NoResult =>
          /\ rehearsal.result.cluster = rehearsal.cluster
          /\ rehearsal.result.status = rehearsal.state

ConsoleSound ==
    /\ rehearsal \in [cluster : Clusters, state : {"IDLE", "RUNNING", "PASSED", "FAILED"},
                      result : Results]
    /\ TrueResult(rehearsal.result)
    /\ rehearsal.state = "PASSED" => rehearsal.result.status = "PASSED"

CallsSound ==
    /\ rehearsals \in [RehearsalCalls -> Calls]
    /\ \A c \in RehearsalCalls : CallSound(rehearsals[c])

RehearsalSound ==
    /\ ConsoleSound /\ CallsSound
    /\ overtaken \in BOOLEAN
    /\ ~ overtaken => InStep

\* The property is what the invariant says of the result, and a set whose elements are
\* one and the same has one element at most.
LEMMA SoundIsChosen == RehearsalSound => ResultOfChosenCluster
<1> SUFFICES ASSUME RehearsalSound PROVE ResultOfChosenCluster
  OBVIOUS
<1>1. ASSUME ~ overtaken
      PROVE  Cardinality({c \in RehearsalCalls : rehearsals[c].stage # "none"}) <= 1
  <2> DEFINE S == {c \in RehearsalCalls : rehearsals[c].stage # "none"}
  <2>1. \A c, d \in S : c = d
    BY <1>1 DEF RehearsalSound, InStep, Under
  <2> HIDE DEF S
  <2>2. ASSUME S = {} PROVE Cardinality(S) <= 1
    BY <2>2, FS_EmptySet
  <2>3. ASSUME NEW c \in S PROVE Cardinality(S) <= 1
    <3>1. S = {c}
      BY <2>1, <2>3
    <3> QED
      BY <3>1, FS_Singleton
  <2>4. Cardinality(S) <= 1
    BY <2>2, <2>3, FS_EmptySet
  <2> QED
    BY <2>4 DEF S
<1> QED
  BY <1>1 DEF RehearsalSound, ConsoleSound, InStep, TrueResult, ResultOfChosenCluster

\* One call becomes another.
LEMMA OneCall ==
    ASSUME CallsSound, NEW c \in RehearsalCalls, NEW call, CallSound(call), Call(c, call)
    PROVE  /\ CallsSound'
           /\ rehearsals'[c] = call
           /\ \A d \in RehearsalCalls \ {c} : rehearsals'[d] = rehearsals[d]
<1>1. /\ rehearsals' \in [RehearsalCalls -> Calls]
      /\ rehearsals'[c] = call
      /\ \A d \in RehearsalCalls \ {c} : rehearsals'[d] = rehearsals[d]
  BY DEF CallsSound, CallSound, Call
<1>2. ASSUME NEW d \in RehearsalCalls PROVE CallSound(rehearsals[d])'
  <2>1. CallSound(rehearsals'[d])
    BY <1>1 DEF CallsSound
  <2> QED
    BY <2>1 DEF CallSound, TrueResult
<1> QED
  BY <1>1, <1>2 DEF CallsSound

\* A call that goes on under the same cluster disturbs nothing on display.
LEMMA CallGoesOn ==
    ASSUME RehearsalSound, NEW c \in RehearsalCalls, Under(c), NEW call, CallSound(call),
           call.cluster = rehearsals[c].cluster, Call(c, call),
           UNCHANGED <<rehearsal, overtaken>>
    PROVE  RehearsalSound'
<1>1. /\ CallsSound'
      /\ rehearsals'[c] = call
      /\ \A d \in RehearsalCalls \ {c} : rehearsals'[d] = rehearsals[d]
  BY OneCall DEF RehearsalSound
<1>2. ~ overtaken => InStep'
  BY <1>1 DEF RehearsalSound, InStep, Under
<1> QED
  BY <1>1, <1>2 DEF RehearsalSound, ConsoleSound

\* The server, and a call that ends with a refusal in between.
LEMMA ServerStep ==
    ASSUME RehearsalSound, NEW c \in RehearsalCalls,
           BuildLaunch(c) \/ \E reached \in BOOLEAN : SimulateLaunch(c, reached)
    PROVE  RehearsalSound'
<1>1. PICK call : call = rehearsals[c]
  OBVIOUS
<1>2. CallSound(call) /\ call \in Calls /\ call.result \in Results
  BY <1>1 DEF RehearsalSound, CallsSound, CallSound, Calls
<1>3. CASE BuildLaunch(c)
  <2>1. PICK kind : kind = pump[call.cluster].kind
    OBVIOUS
  <2>2. call.stage = "sent" /\ Under(c)
    BY <1>1, <1>3 DEF BuildLaunch, Under
  <2>3. CASE Call(c, [call EXCEPT !.stage = "refusal"])
    <3>1. PICK next : next = [call EXCEPT !.stage = "refusal"]
      OBVIOUS
    <3>2. /\ next \in Calls /\ next.stage = "refusal" /\ next.cluster = call.cluster
          /\ next.result = call.result
      BY <1>2, <3>1 DEF Calls
    <3>3. CallSound(next)
      BY <1>2, <2>2, <3>2 DEF CallSound
    <3> QED
      BY <1>1, <1>3, <2>2, <2>3, <3>1, <3>2, <3>3, CallGoesOn DEF BuildLaunch
  <2>4. CASE kind = "classic" /\ Call(c, [call EXCEPT !.stage = "built", !.result.kind = kind])
    <3>1. PICK result : result = [call.result EXCEPT !.kind = "classic"]
      OBVIOUS
    <3>2. result \in Results /\ TrueResult(result) /\ result.kind = "classic"
      BY <1>2, <3>1 DEF Results, CallSound, TrueResult
    <3>3. PICK next : next = [call EXCEPT !.stage = "built", !.result = result]
      OBVIOUS
    <3>4. next \in Calls
      BY <1>2, <3>2, <3>3 DEF Calls
    <3>5. next.stage = "built" /\ next.cluster = call.cluster /\ next.result = result
      BY <1>2, <3>3 DEF Calls
    <3>6. CallSound(next)
      BY <1>2, <2>2, <3>2, <3>4, <3>5 DEF CallSound
    <3>7. Call(c, next)
      BY <2>4, <3>1, <3>3
    <3> QED
      BY <1>1, <1>3, <2>2, <3>5, <3>6, <3>7, CallGoesOn DEF BuildLaunch
  <2> QED
    BY <1>1, <1>3, <2>1, <2>3, <2>4 DEF BuildLaunch, ClassicInstructions
<1>4. ASSUME NEW reached \in BOOLEAN, SimulateLaunch(c, reached)
      PROVE  RehearsalSound'
  <2> DEFINE accepted == reached /\ pump[call.cluster].deployed
             status == IF accepted THEN "PASSED" ELSE "FAILED"
  <2>1. call.stage = "built" /\ Under(c) /\ call.cluster \in Clusters
    BY <1>1, <1>2, <1>4 DEF SimulateLaunch, Under, CallSound
  <2>2. PICK result : result = [call.result EXCEPT !.cluster = call.cluster,
                                                   !.accepted = accepted, !.status = status]
    OBVIOUS
  <2>3. /\ result \in Results /\ TrueResult(result)
        /\ result.cluster = call.cluster /\ result.status # "none"
    <3>1. CASE accepted
      <4>1. result = [call.result EXCEPT !.cluster = call.cluster, !.accepted = TRUE,
                                         !.status = "PASSED"]
        BY <2>2, <3>1
      <4>2. result \in Results
        BY <1>2, <2>1, <4>1 DEF Results
      <4>3. /\ result.accepted = TRUE /\ result.status = "PASSED"
            /\ result.cluster = call.cluster /\ result.kind = call.result.kind
        BY <1>2, <4>1 DEF Results
      <4> QED
        BY <1>2, <2>1, <4>2, <4>3 DEF TrueResult, CallSound
    <3>2. CASE ~ accepted
      <4>1. result = [call.result EXCEPT !.cluster = call.cluster, !.accepted = FALSE,
                                         !.status = "FAILED"]
        BY <2>2, <3>2
      <4>2. result \in Results
        BY <1>2, <2>1, <4>1 DEF Results
      <4>3. result.status = "FAILED" /\ result.cluster = call.cluster
        BY <1>2, <4>1 DEF Results
      <4> QED
        BY <4>2, <4>3 DEF TrueResult
    <3> QED
      BY <3>1, <3>2
  <2>4. PICK next : next = [call EXCEPT !.stage = "answer", !.result = result]
    OBVIOUS
  <2>5. next \in Calls
    BY <1>2, <2>3, <2>4 DEF Calls
  <2>6. next.stage = "answer" /\ next.cluster = call.cluster /\ next.result = result
    BY <1>2, <2>4 DEF Calls
  <2>7. CallSound(next)
    BY <1>2, <2>1, <2>3, <2>5, <2>6 DEF CallSound
  <2>8. Call(c, next)
    BY <1>1, <1>4, <2>2, <2>4 DEF SimulateLaunch
  <2> QED
    BY <1>1, <1>4, <2>1, <2>6, <2>7, <2>8, CallGoesOn DEF SimulateLaunch
<1> QED
  BY <1>3, <1>4

\* The values a console or a call starts from.
LEMMA NothingYet ==
    /\ NoResult \in Results /\ TrueResult(NoResult) /\ NoResult.status = "none"
    /\ NoCall \in Calls /\ NoCall.stage = "none" /\ NoCall.result = NoResult
    /\ CallSound(NoCall)
<1>1. NoResult \in Results /\ TrueResult(NoResult) /\ NoResult.status = "none"
  BY DEF NoResult, Results, TrueResult
<1>2. NoCall \in Calls /\ NoCall.stage = "none" /\ NoCall.result = NoResult
  BY <1>1 DEF NoCall, Calls
<1> QED
  BY <1>1, <1>2 DEF CallSound

\* A call ends on the console, which shows a refusal or the result.
LEMMA CallEnds ==
    ASSUME RehearsalSound, NEW c \in RehearsalCalls, Under(c), NEW console,
           console \in [cluster : Clusters, state : {"IDLE", "RUNNING", "PASSED", "FAILED"},
                        result : Results],
           console.cluster = rehearsal.cluster, TrueResult(console.result),
           console.state = "PASSED" => console.result.status = "PASSED",
           ~ overtaken /\ console.result # NoResult =>
              /\ console.result.cluster = console.cluster
              /\ console.result.status = console.state,
           rehearsal' = console, Call(c, NoCall), UNCHANGED overtaken
    PROVE  RehearsalSound'
<1>1. /\ CallsSound'
      /\ rehearsals'[c] = NoCall
      /\ \A d \in RehearsalCalls \ {c} : rehearsals'[d] = rehearsals[d]
  BY OneCall, NothingYet DEF RehearsalSound
<1>2. ASSUME ~ overtaken PROVE InStep'
  <2>1. \A d \in RehearsalCalls : rehearsals'[d].stage = "none"
    BY <1>1, <1>2, NothingYet DEF RehearsalSound, InStep, Under
  <2> QED
    BY <1>2, <2>1 DEF InStep, Under
<1>3. ConsoleSound'
  BY DEF ConsoleSound, TrueResult
<1> QED
  BY <1>1, <1>2, <1>3 DEF RehearsalSound

\* The console: a call ends, or one begins, or a cluster is chosen.
LEMMA ConsoleStep ==
    ASSUME RehearsalSound,
           \/ \E cluster \in Clusters : ChooseCluster(cluster)
           \/ \E c \in RehearsalCalls :
                 (\E draft \in Drafts : RunPreflight(c, draft)) \/ ShowRefusal(c) \/ ShowResult(c)
    PROVE  RehearsalSound'
<1> DEFINE Consoles == [cluster : Clusters, state : {"IDLE", "RUNNING", "PASSED", "FAILED"},
                        result : Results]
<1>1. PICK r : r = rehearsal
  OBVIOUS
<1>2. r \in Consoles /\ TrueResult(r.result)
  BY <1>1 DEF RehearsalSound, ConsoleSound
<1>3. ASSUME NEW c \in RehearsalCalls, ShowRefusal(c)
      PROVE  RehearsalSound'
  <2>1. PICK console : console = [r EXCEPT !.state = "FAILED"]
    OBVIOUS
  <2>2. console \in Consoles
    BY <1>2, <2>1
  <2>3. console.cluster = r.cluster /\ console.result = r.result /\ console.state = "FAILED"
    BY <1>2, <2>1
  <2>4. Under(c) /\ Call(c, NoCall) /\ rehearsal' = console /\ UNCHANGED overtaken
    BY <1>1, <1>3, <2>1 DEF ShowRefusal, Under
  <2>5. ~ overtaken => console.result = NoResult
    BY <1>1, <2>3, <2>4 DEF RehearsalSound, InStep
  <2> QED
    BY <1>1, <1>2, <2>2, <2>3, <2>4, <2>5, CallEnds
<1>4. ASSUME NEW c \in RehearsalCalls, ShowResult(c)
      PROVE  RehearsalSound'
  <2>1. PICK result : result = rehearsals[c].result
    OBVIOUS
  <2>2. /\ CallSound(rehearsals[c]) /\ rehearsals[c].stage = "answer" /\ Under(c)
        /\ rehearsals[c] \in Calls
    BY <1>4 DEF RehearsalSound, CallsSound, ShowResult, Under, CallSound
  <2>3. /\ result \in Results /\ TrueResult(result)
        /\ result.cluster = rehearsals[c].cluster /\ result.status \in {"PASSED", "FAILED"}
    BY <2>1, <2>2 DEF CallSound, Calls, Results
  <2>4. PICK console : console = [r EXCEPT !.state = result.status, !.result = result]
    OBVIOUS
  <2>5. console \in Consoles
    BY <1>2, <2>3, <2>4
  <2>6. console.cluster = r.cluster /\ console.result = result /\ console.state = result.status
    BY <1>2, <2>4
  <2>7. ~ overtaken => result.cluster = r.cluster
    BY <1>1, <2>2, <2>3 DEF RehearsalSound, InStep
  <2>8. Call(c, NoCall) /\ rehearsal' = console /\ UNCHANGED overtaken
    BY <1>1, <1>4, <2>1, <2>4 DEF ShowResult
  <2> QED
    BY <1>1, <2>2, <2>3, <2>5, <2>6, <2>7, <2>8, CallEnds
<1>5. ASSUME NEW c \in RehearsalCalls, NEW draft \in Drafts, RunPreflight(c, draft)
      PROVE  RehearsalSound'
  <2>1. PICK console : console = [r EXCEPT !.state = "RUNNING", !.result = NoResult]
    OBVIOUS
  <2>2. console \in Consoles
    BY <1>2, <2>1, NothingYet
  <2>3. /\ console.cluster = r.cluster /\ console.result = NoResult /\ console.state = "RUNNING"
        /\ r.cluster \in Clusters
    BY <1>2, <2>1
  <2>4. PICK call : call = [NoCall EXCEPT !.stage = "sent", !.cluster = r.cluster, !.draft = draft]
    OBVIOUS
  <2>5. call \in Calls
    BY <2>3, <2>4, NothingYet DEF Calls
  <2>6. call.stage = "sent" /\ call.cluster = r.cluster /\ call.result = NoResult
    BY <2>4, NothingYet DEF Calls
  <2>7. CallSound(call)
    BY <2>3, <2>5, <2>6, NothingYet DEF CallSound
  <2>8. /\ Call(c, call) /\ rehearsal' = console /\ UNCHANGED overtaken
        /\ rehearsal.state # "RUNNING"
    BY <1>1, <1>5, <2>1, <2>4 DEF RunPreflight
  <2>9. /\ CallsSound'
        /\ rehearsals'[c] = call
        /\ \A d \in RehearsalCalls \ {c} : rehearsals'[d] = rehearsals[d]
    BY <2>7, <2>8, OneCall DEF RehearsalSound
  <2>10. ASSUME ~ overtaken PROVE InStep'
    <3>1. \A d \in RehearsalCalls : ~ Under(d)
      BY <2>8, <2>10 DEF RehearsalSound, InStep
    <3> QED
      BY <1>1, <2>3, <2>6, <2>8, <2>9, <3>1 DEF InStep, Under
  <2>11. ConsoleSound'
    BY <2>2, <2>3, <2>8, NothingYet DEF ConsoleSound, TrueResult
  <2> QED
    BY <2>8, <2>9, <2>10, <2>11 DEF RehearsalSound
<1>6. ASSUME NEW cluster \in Clusters, ChooseCluster(cluster)
      PROVE  RehearsalSound'
  <2>1. PICK console : console = [r EXCEPT !.cluster = cluster, !.state = "IDLE",
                                           !.result = NoResult]
    OBVIOUS
  <2>2. console \in Consoles
    BY <1>2, <2>1, NothingYet
  <2>3. console.result = NoResult /\ console.state = "IDLE"
    BY <1>2, <2>1
  <2>4. /\ rehearsal' = console /\ rehearsals' = rehearsals
        /\ overtaken' = (overtaken \/ \E c \in RehearsalCalls : Under(c))
    BY <1>1, <1>6, <2>1 DEF ChooseCluster, Under
  <2>5. CallsSound'
    BY <2>4 DEF RehearsalSound, CallsSound, CallSound, TrueResult
  <2>6. overtaken' \in BOOLEAN
    BY <2>4
  <2>7. ~ overtaken' => InStep'
    BY <2>3, <2>4 DEF InStep, Under
  <2>8. ConsoleSound'
    BY <2>2, <2>3, <2>4, NothingYet DEF ConsoleSound, TrueResult
  <2> QED
    BY <2>5, <2>6, <2>7, <2>8 DEF RehearsalSound
<1> QED
  BY <1>3, <1>4, <1>5, <1>6

\* Every step keeps the invariant.
LEMMA RehearsalStep == RehearsalSound /\ [RehearsalNext]_rehearsalVars => RehearsalSound'
<1> SUFFICES ASSUME RehearsalSound, [RehearsalNext]_rehearsalVars PROVE RehearsalSound'
  OBVIOUS
<1>1. ASSUME UNCHANGED <<rehearsal, rehearsals, overtaken>> PROVE RehearsalSound'
  BY <1>1 DEF RehearsalSound, ConsoleSound, CallsSound, CallSound, TrueResult, InStep, Under
<1>2. ASSUME NEW cluster \in Clusters, PumpMoves(cluster) PROVE RehearsalSound'
  BY <1>1, <1>2 DEF PumpMoves
<1>3. ASSUME UNCHANGED rehearsalVars PROVE RehearsalSound'
  BY <1>1, <1>3 DEF rehearsalVars
<1> QED
  BY <1>2, <1>3, ConsoleStep, ServerStep DEF RehearsalNext

\* A console that was not used.
LEMMA RehearsalStarts == RehearsalInit => RehearsalSound
<1> SUFFICES ASSUME RehearsalInit PROVE RehearsalSound
  OBVIOUS
<1>1. ConsoleSound
  BY NothingYet DEF RehearsalInit, ConsoleSound, Clusters
<1>2. CallsSound
  BY NothingYet DEF RehearsalInit, CallsSound
<1>3. InStep
  BY NothingYet DEF RehearsalInit, InStep, Under
<1> QED
  BY <1>1, <1>2, <1>3 DEF RehearsalInit, RehearsalSound

\* However many calls overlap, PASSED stands for a simulation that was accepted, of
\* instructions without Token-2022; and unless the cluster was changed during a run, one
\* call runs at most, and the result on display is one of the chosen cluster and is what
\* the console says (PumpPreflightConsole, POST preflight).
THEOREM ResultIsOfChosenCluster == RehearsalSpec => []ResultOfChosenCluster
<1>1. RehearsalInit => RehearsalSound
  BY RehearsalStarts
<1> QED
  BY <1>1, RehearsalStep, SoundIsChosen, PTL DEF RehearsalSpec

-----------------------------------------------------------------------------
(* CanaryState: what the server promises of the canary, from reads of slots as *)
(* far apart as they may be.                                                   *)

Queries ==
    [kind : {"state", "prepare"}, action : {"AWAKEN", "RELEASE"},
     wallet : {None, Tester, "operator", "stranger", "malformed"},
     stage : {"genesis", "reading", "built", "answered"},
     accounts : 0 .. MaxCanarySlot + 1, program : 0 .. MaxCanarySlot + 1,
     balance : 0 .. MaxCanarySlot + 1,
     answer : {"none", "safe", "unsafe", "prepared", "422", "409", "503"}]

\* The slots a request has read so far are slots of the chain.
ReadSlots(q) ==
    /\ TesterResolves
    /\ q.accounts \in 0 .. Len(devnet)
    /\ q.kind = "state" => q.program \in 0 .. Len(devnet)
    /\ q.balance \in (0 .. Len(devnet)) \cup {MaxCanarySlot + 1}

\* A slot at which every coin of the reserve is the backing of an asset out of escrow.
Whole(e) ==
    /\ BindingsVerified(e) /\ "inventory" \notin e.odd
    /\ e.reserve = (IF e.owner = "escrow" THEN 0 ELSE CanaryBacking)

SeenAt(q) == IF q.kind = "prepare" THEN q.accounts ELSE q.program

RestsOn(q) ==
    /\ q.accounts \in 1 .. Len(devnet) /\ Whole(devnet[q.accounts])
    /\ SeenAt(q) \in 1 .. Len(devnet) /\ devnet[SeenAt(q)].data.hash = "reviewed"

\* What a transaction for this wallet needs, at the slots that were read for it.
Performable(q) ==
    /\ q.kind = "prepare" /\ q.wallet = TesterWallet /\ q.wallet \in {Tester, "operator"}
    /\ q.balance \in 1 .. Len(devnet) /\ devnet[q.balance].sol >= Buffer(q.action)
    /\ IF q.action = "AWAKEN"
       THEN /\ devnet[q.accounts].owner = "escrow"
            /\ devnet[q.accounts].coins >= CanaryBacking
       ELSE devnet[q.accounts].owner = Tester /\ q.wallet = Tester

QuerySound(q) ==
    /\ q \in Queries
    /\ q.stage # "answered" => q.answer = "none"
    /\ q.stage = "genesis" => q.accounts = 0
    /\ q.stage \in {"reading", "built"} => ReadSlots(q)
    /\ q.stage = "built" \/ q.answer = "prepared" => RestsOn(q) /\ Performable(q)
    /\ q.answer = "safe" => RestsOn(q)

\* The program at the observed deployment is the reviewed one, at every slot.
DevnetSound ==
    /\ devnet \in Seq(CanarySlots)
    /\ Len(devnet) \in 1 .. MaxCanarySlot /\ Len(devnet) >= DeployedSlot
    /\ \A i \in 1 .. Len(devnet) :
          devnet[i].data.slot = DeployedSlot => devnet[i].data.hash = "reviewed"

SetupSound ==
    /\ setup \in Setups
    /\ TesterResolves => TesterWallet \in {None, Tester, "operator"}

CanarySound == DevnetSound /\ SetupSound /\ QuerySound(query)

-----------------------------------------------------------------------------
\* A request that becomes another one, while the chain and the configuration rest.
LEMMA QueryBecomes ==
    ASSUME CanarySound, NEW q, QuerySound(q), query' = q, UNCHANGED <<devnet, setup>>
    PROVE  CanarySound'
<1>1. DevnetSound' /\ SetupSound'
  BY DEF CanarySound, DevnetSound, SetupSound, TesterResolves, TesterWallet
<1>2. QuerySound(query)'
  BY DEF QuerySound, ReadSlots, RestsOn, Performable, SeenAt, TesterResolves, TesterWallet
<1> QED
  BY <1>1, <1>2 DEF CanarySound

\* A request begins, or ends without a promise.
LEMMA NoQuerySound ==
    /\ NoQuery \in Queries /\ NoQuery.stage = "answered" /\ NoQuery.answer = "none"
    /\ \A answer \in {"unsafe", "422", "409", "503"} :
          QuerySound([NoQuery EXCEPT !.answer = answer])
    /\ \A wallet \in {None, Tester, "operator", "stranger"} :
          QuerySound([NoQuery EXCEPT !.wallet = wallet, !.stage = "genesis"])
    /\ \A action \in {"AWAKEN", "RELEASE"}, wallet \in {Tester, "operator", "stranger"} :
          QuerySound([NoQuery EXCEPT !.kind = "prepare", !.action = action,
                                     !.wallet = wallet, !.stage = "genesis"])
<1>1. NoQuery \in Queries /\ NoQuery.stage = "answered" /\ NoQuery.answer = "none"
  BY CanaryAssumption DEF NoQuery, Queries
<1>2. ASSUME NEW answer \in {"unsafe", "422", "409", "503"}
      PROVE  QuerySound([NoQuery EXCEPT !.answer = answer])
  <2>1. [NoQuery EXCEPT !.answer = answer] \in Queries
    BY <1>1 DEF Queries
  <2>2. /\ [NoQuery EXCEPT !.answer = answer].stage = "answered"
        /\ [NoQuery EXCEPT !.answer = answer].answer = answer
    BY DEF NoQuery
  <2> QED
    BY <2>1, <2>2 DEF QuerySound
<1>3. ASSUME NEW wallet \in {None, Tester, "operator", "stranger"}
      PROVE  QuerySound([NoQuery EXCEPT !.wallet = wallet, !.stage = "genesis"])
  <2> DEFINE q == [NoQuery EXCEPT !.wallet = wallet, !.stage = "genesis"]
  <2>1. q \in Queries
    BY <1>1 DEF Queries
  <2>2. q.stage = "genesis" /\ q.answer = "none" /\ q.accounts = 0
    BY DEF NoQuery
  <2> QED
    BY <2>1, <2>2 DEF QuerySound
<1>4. ASSUME NEW action \in {"AWAKEN", "RELEASE"}, NEW wallet \in {Tester, "operator", "stranger"}
      PROVE  QuerySound([NoQuery EXCEPT !.kind = "prepare", !.action = action,
                                        !.wallet = wallet, !.stage = "genesis"])
  <2> DEFINE q == [NoQuery EXCEPT !.kind = "prepare", !.action = action,
                                  !.wallet = wallet, !.stage = "genesis"]
  <2>1. q \in Queries
    BY <1>1 DEF Queries
  <2>2. q.stage = "genesis" /\ q.answer = "none" /\ q.accounts = 0
    BY DEF NoQuery
  <2> QED
    BY <2>1, <2>2 DEF QuerySound
<1> QED
  BY <1>1, <1>2, <1>3, <1>4

\* Refusals of every kind.
LEMMA RefusedSound ==
    ASSUME CanarySound, NEW outcome \in {"unsafe", "422", "409", "503"}, Reply(outcome),
           UNCHANGED <<devnet, setup>>
    PROVE  CanarySound'
<1>1. query' = [NoQuery EXCEPT !.answer = outcome]
  BY DEF Reply
<1> QED
  BY <1>1, NoQuerySound, QueryBecomes

\* A request is taken up.
LEMMA AskStep ==
    ASSUME CanarySound,
           \/ \E wallet \in {None, Tester, "operator", "stranger", "malformed"} :
                 AskState(wallet)
           \/ \E action \in {"AWAKEN", "RELEASE"},
                 wallet \in {Tester, "operator", "stranger", "malformed"} :
                 AskPrepare(action, wallet)
    PROVE  CanarySound'
<1>1. ASSUME NEW wallet \in {None, Tester, "operator", "stranger", "malformed"}, AskState(wallet)
      PROVE  CanarySound'
  <2>1. UNCHANGED <<devnet, setup>>
    BY <1>1 DEF AskState, Still
  <2>2. CASE Reply("422") \/ Reply("503")
    BY <2>1, <2>2, RefusedSound
  <2>3. CASE wallet # "malformed" /\ query' = [NoQuery EXCEPT !.wallet = wallet, !.stage = "genesis"]
    <3>1. QuerySound([NoQuery EXCEPT !.wallet = wallet, !.stage = "genesis"])
      BY <2>3, NoQuerySound
    <3> QED
      BY <2>1, <2>3, <3>1, QueryBecomes
  <2> QED
    BY <1>1, <2>2, <2>3 DEF AskState
<1>2. ASSUME NEW action \in {"AWAKEN", "RELEASE"},
             NEW wallet \in {Tester, "operator", "stranger", "malformed"},
             AskPrepare(action, wallet)
      PROVE  CanarySound'
  <2> DEFINE q == [NoQuery EXCEPT !.kind = "prepare", !.action = action,
                                  !.wallet = wallet, !.stage = "genesis"]
  <2>1. UNCHANGED <<devnet, setup>>
    BY <1>2 DEF AskPrepare, Still
  <2>2. CASE Reply("422") \/ Reply("503") \/ Reply("409")
    BY <2>1, <2>2, RefusedSound
  <2>3. CASE wallet # "malformed" /\ query' = q
    <3>1. QuerySound(q)
      BY <2>3, NoQuerySound
    <3> QED
      BY <2>1, <2>3, <3>1, QueryBecomes
  <2> QED
    BY <1>2, <2>2, <2>3 DEF AskPrepare
<1> QED
  BY <1>1, <1>2

\* The fields of a request that a step of it does not touch.
LEMMA QueryParts ==
    ASSUME NEW q \in Queries
    PROVE  /\ \A n \in 0 .. MaxCanarySlot + 1 :
                 /\ [q EXCEPT !.accounts = n] \in Queries
                 /\ [q EXCEPT !.program = n] \in Queries
                 /\ [q EXCEPT !.balance = n] \in Queries
           /\ [q EXCEPT !.stage = "built"] \in Queries
           /\ \A answer \in {"safe", "prepared"} :
                 [q EXCEPT !.stage = "answered", !.answer = answer] \in Queries
BY DEF Queries

\* The slots of the chain are slots a request may name.
LEMMA SlotsFit ==
    ASSUME CanarySound
    PROVE  /\ Len(devnet) \in Nat
           /\ \A n \in 0 .. Len(devnet) :
                 n \in 0 .. MaxCanarySlot + 1 /\ n \in Nat /\ n # MaxCanarySlot + 1
           /\ MaxCanarySlot + 1 \in 0 .. MaxCanarySlot + 1
BY CanaryAssumption DEF CanarySound, DevnetSound

\* The three reads begin, with those marked that are not made.
LEMMA GenesisStep ==
    ASSUME CanarySound, CheckGenesis
    PROVE  CanarySound'
<1>1. UNCHANGED <<devnet, setup>>
  BY DEF CheckGenesis, Still
<1>2. CASE ~ (setup.devnet /\ TesterResolves)
  BY <1>1, <1>2, RefusedSound DEF CheckGenesis, Failure
<1>3. CASE setup.devnet /\ TesterResolves
  <2>1. PICK q, p, b : /\ q = query
                       /\ p = (IF q.kind = "prepare" THEN MaxCanarySlot + 1 ELSE 0)
                       /\ b = (IF Authorized(q) THEN 0 ELSE MaxCanarySlot + 1)
    OBVIOUS
  <2>2. q \in Queries /\ q.stage = "genesis" /\ q.answer = "none" /\ q.accounts = 0
    BY <2>1 DEF CanarySound, QuerySound, CheckGenesis
  <2>3. PICK r : r = [q EXCEPT !.stage = "reading", !.program = p, !.balance = b]
    OBVIOUS
  <2>4. p \in 0 .. MaxCanarySlot + 1 /\ b \in 0 .. MaxCanarySlot + 1
    BY <2>1, SlotsFit
  <2>5. r \in Queries
    BY <2>2, <2>3, <2>4 DEF Queries
  <2>6. r.stage = "reading" /\ r.answer = "none" /\ r.program = p /\ r.balance = b
    BY <2>2, <2>3 DEF Queries
  <2>7. r.kind = q.kind /\ r.accounts = q.accounts
    BY <2>2, <2>3 DEF Queries
  <2>8. ReadSlots(r)
    BY <1>3, <2>1, <2>2, <2>6, <2>7, SlotsFit DEF ReadSlots
  <2>9. QuerySound(r)
    BY <2>5, <2>6, <2>8 DEF QuerySound
  <2>10. query' = r
    BY <1>3, <2>1, <2>3 DEF CheckGenesis
  <2> QED
    BY <1>1, <2>9, <2>10, QueryBecomes
<1> QED
  BY <1>2, <1>3

\* Each of the three reads may be answered from a slot of its own.
LEMMA ReadStep ==
    ASSUME CanarySound, NEW slot \in 1 .. Len(devnet),
           ReadAccounts(slot) \/ ReadHeader(slot) \/ ReadBalance(slot)
    PROVE  CanarySound'
<1>1. PICK q : q = query
  OBVIOUS
<1>2. /\ UNCHANGED <<devnet, setup>>
      /\ q \in Queries /\ q.stage = "reading" /\ q.answer = "none" /\ ReadSlots(q)
  BY <1>1 DEF CanarySound, QuerySound, ReadAccounts, ReadHeader, ReadBalance, Still
<1>3. slot \in 0 .. Len(devnet) /\ slot \in 0 .. MaxCanarySlot + 1 /\ slot # 0
  BY SlotsFit
<1>4. ASSUME NEW r, r \in Queries, r.stage = q.stage, r.answer = q.answer, r.kind = q.kind,
             r.accounts \in {q.accounts, slot}, r.program \in {q.program, slot},
             r.balance \in {q.balance, slot}, query' = r
      PROVE  CanarySound'
  <2>1. ReadSlots(r)
    BY <1>2, <1>3, <1>4 DEF ReadSlots
  <2>2. QuerySound(r)
    BY <1>2, <1>4, <2>1 DEF QuerySound
  <2> QED
    BY <1>2, <1>4, <2>2, QueryBecomes
<1>5. CASE ReadAccounts(slot)
  <2>1. PICK r : r = [q EXCEPT !.accounts = slot]
    OBVIOUS
  <2>2. r \in Queries
    BY <1>2, <1>3, <2>1, QueryParts
  <2> QED
    BY <1>1, <1>2, <1>4, <1>5, <2>1, <2>2 DEF ReadAccounts, Queries
<1>6. CASE ReadHeader(slot)
  <2>1. PICK r : r = [q EXCEPT !.program = slot]
    OBVIOUS
  <2>2. r \in Queries
    BY <1>2, <1>3, <2>1, QueryParts
  <2> QED
    BY <1>1, <1>2, <1>4, <1>6, <2>1, <2>2 DEF ReadHeader, Queries
<1>7. CASE ReadBalance(slot)
  <2>1. PICK r : r = [q EXCEPT !.balance = slot]
    OBVIOUS
  <2>2. r \in Queries
    BY <1>2, <1>3, <2>1, QueryParts
  <2> QED
    BY <1>1, <1>2, <1>4, <1>7, <2>1, <2>2 DEF ReadBalance, Queries
<1> QED
  BY <1>5, <1>6, <1>7

\* An asset is where its owner says.
LEMMA LocationSays ==
    ASSUME NEW e, TesterWallet \in {None, Tester, "operator"}
    PROVE  /\ Location(e) = "escrow" <=> e.owner = "escrow"
           /\ Location(e) = "operator" <=> e.owner = "operator"
           /\ Location(e) = "tester" <=> e.owner = Tester /\ TesterWallet = Tester
BY DEF Location, Tester, None

\* What the checks establish: a World that is safe is whole, and an action that is
\* enabled can be performed.
LEMMA SafeIsWhole ==
    ASSUME CanarySound, TesterResolves, NEW e, NEW v, Safe(e, v)
    PROVE  Whole(e) /\ v
<1>1. TesterWallet \in {None, Tester, "operator"}
  BY DEF CanarySound, SetupSound
<1>2. ActiveCount(e) = (IF e.owner = "escrow" THEN 0 ELSE 1)
  BY <1>1, LocationSays DEF ActiveCount
<1>3. CanaryBacking * 0 = 0 /\ CanaryBacking * 1 = CanaryBacking
  BY CanaryAssumption
<1> QED
  BY <1>2, <1>3 DEF Safe, Whole, ExactReserve

\* The header of the observed deployment is that of the reviewed code.
LEMMA VerifiedIsReviewed ==
    ASSUME CanarySound, NEW i \in 1 .. Len(devnet),
           FreshVerified(devnet[i]) \/ HeaderVerified(devnet[i])
    PROVE  devnet[i].data.hash = "reviewed"
BY DEF CanarySound, DevnetSound, FreshVerified, HeaderVerified

\* The verdict over the reads.
LEMMA ReconcileStep ==
    ASSUME CanarySound, Reconcile
    PROVE  CanarySound'
<1>1. PICK q : q = query
  OBVIOUS
<1>2. /\ UNCHANGED <<devnet, setup>>
      /\ q \in Queries /\ q.stage = "reading" /\ ReadSlots(q) /\ QuerySound(q)
      /\ 0 \notin {q.accounts, q.program, q.balance}
  BY <1>1 DEF CanarySound, QuerySound, Reconcile, Still
<1>3. /\ q.accounts \in 1 .. Len(devnet)
      /\ q.kind = "state" => q.program \in 1 .. Len(devnet)
      /\ SeenAt(q) \in 1 .. Len(devnet)
      /\ TesterResolves
  BY <1>2, SlotsFit DEF ReadSlots, SeenAt, Queries
<1>4. LiveSafe(q) => RestsOn(q)
  <2> SUFFICES ASSUME LiveSafe(q) PROVE RestsOn(q)
    OBVIOUS
  <2>1. PICK e, v : e = devnet[q.accounts] /\ v = ProgramVerified(q)
    OBVIOUS
  <2>2. Safe(e, v)
    BY <2>1 DEF LiveSafe
  <2>3. Whole(e) /\ v
    BY <1>3, <2>2, SafeIsWhole
  <2>4. FreshVerified(devnet[SeenAt(q)]) \/ HeaderVerified(devnet[SeenAt(q)])
    BY <2>1, <2>3 DEF ProgramVerified, SeenAt
  <2>5. devnet[SeenAt(q)].data.hash = "reviewed"
    BY <1>3, <2>4, VerifiedIsReviewed
  <2> QED
    BY <1>3, <2>1, <2>3, <2>5 DEF RestsOn
<1>5. CASE Reply(Failure) \/ Reply("unsafe")
  BY <1>2, <1>5, RefusedSound DEF Failure
<1>6. CASE LiveSafe(q) /\ Reply("safe")
  <2>1. PICK r : r = [q EXCEPT !.stage = "answered", !.answer = "safe"]
    OBVIOUS
  <2>2. r \in Queries
    BY <1>2, <2>1, QueryParts
  <2>3. r.stage = "answered" /\ r.answer = "safe"
    BY <1>2, <2>1 DEF Queries
  <2>4. r.accounts = q.accounts /\ r.program = q.program /\ r.kind = q.kind
    BY <1>2, <2>1 DEF Queries
  <2>5. RestsOn(r)
    BY <1>4, <1>6, <2>4 DEF RestsOn, SeenAt
  <2>6. QuerySound(r)
    BY <2>2, <2>3, <2>5 DEF QuerySound
  <2>7. query' = r
    BY <1>1, <1>6, <2>1 DEF Reply
  <2> QED
    BY <1>2, <2>6, <2>7, QueryBecomes
<1>7. ASSUME q.kind = "prepare", Enabled(q, q.action), query' = [q EXCEPT !.stage = "built"]
      PROVE  CanarySound'
  <2>1. RestsOn(q)
    BY <1>4, <1>7 DEF Enabled
  <2>2. q.wallet = TesterWallet /\ q.wallet \in {Tester, "operator"}
    BY <1>3, <1>7 DEF Enabled, Authorized, CanarySound, SetupSound
  <2>3. PICK e, sol : e = devnet[q.accounts] /\ sol = Sol(q)
    OBVIOUS
  <2>4. ActionEnabled(q.action, e, sol)
    BY <1>7, <2>3 DEF Enabled
  <2>5. sol >= Buffer(q.action) /\ Buffer(q.action) \in {TesterSol, AwakenSol}
    BY <2>4 DEF ActionEnabled, Buffer
  <2>6. q.balance \in 1 .. Len(devnet) /\ devnet[q.balance].sol >= Buffer(q.action)
    BY <1>2, <2>3, <2>5, SlotsFit, CanaryAssumption DEF ReadSlots, Sol, TesterSol, AwakenSol
  <2>7. IF q.action = "AWAKEN"
        THEN e.owner = "escrow" /\ e.coins >= CanaryBacking
        ELSE e.owner = Tester /\ q.wallet = Tester
    BY <2>2, <2>4, LocationSays DEF ActionEnabled
  <2>8. Performable(q)
    BY <1>7, <2>2, <2>3, <2>6, <2>7 DEF Performable
  <2>9. PICK r : r = [q EXCEPT !.stage = "built"]
    OBVIOUS
  <2>10. r \in Queries
    BY <1>2, <2>9, QueryParts
  <2>11. r.stage = "built" /\ r.answer = q.answer
    BY <1>2, <2>9 DEF Queries
  <2>12. /\ r.accounts = q.accounts /\ r.program = q.program /\ r.balance = q.balance
         /\ r.kind = q.kind /\ r.action = q.action /\ r.wallet = q.wallet
    BY <1>2, <2>9 DEF Queries
  <2>13. ReadSlots(r) /\ RestsOn(r) /\ Performable(r)
    BY <1>2, <2>1, <2>8, <2>12 DEF ReadSlots, RestsOn, SeenAt, Performable
  <2>14. QuerySound(r)
    BY <1>2, <2>10, <2>11, <2>13 DEF QuerySound
  <2> QED
    BY <1>2, <1>7, <2>9, <2>14, QueryBecomes
<1> QED
  BY <1>1, <1>2, <1>5, <1>6, <1>7 DEF Reconcile, Queries

\* The simulation, and a request that fails.
LEMMA EndStep ==
    ASSUME CanarySound, QueryFails \/ \E slot \in 1 .. Len(devnet) : Simulate(slot)
    PROVE  CanarySound'
<1>1. PICK q : q = query
  OBVIOUS
<1>2. UNCHANGED <<devnet, setup>>
  BY DEF QueryFails, Simulate, Still
<1>3. CASE Reply(Failure)
  BY <1>2, <1>3, RefusedSound DEF Failure
<1>4. CASE q.stage = "built" /\ Reply("prepared")
  <2>1. q \in Queries /\ RestsOn(q) /\ Performable(q)
    BY <1>1, <1>4 DEF CanarySound, QuerySound
  <2>2. PICK r : r = [q EXCEPT !.stage = "answered", !.answer = "prepared"]
    OBVIOUS
  <2>3. r \in Queries
    BY <2>1, <2>2, QueryParts
  <2>4. r.stage = "answered" /\ r.answer = "prepared"
    BY <2>1, <2>2 DEF Queries
  <2>5. /\ r.accounts = q.accounts /\ r.program = q.program /\ r.balance = q.balance
        /\ r.kind = q.kind /\ r.action = q.action /\ r.wallet = q.wallet
    BY <2>1, <2>2 DEF Queries
  <2>6. RestsOn(r) /\ Performable(r)
    BY <2>1, <2>5 DEF RestsOn, SeenAt, Performable
  <2>7. QuerySound(r)
    BY <2>3, <2>4, <2>6 DEF QuerySound
  <2>8. query' = r
    BY <1>1, <1>4, <2>2 DEF Reply
  <2> QED
    BY <1>2, <2>7, <2>8, QueryBecomes
<1> QED
  BY <1>1, <1>3, <1>4 DEF QueryFails, Simulate

\* A new slot: what was read stays what it was.
LEMMA GrowSound ==
    ASSUME CanarySound, NEW e \in CanarySlots, Grow(e),
           e.data.slot = DeployedSlot => e.data.hash = "reviewed"
    PROVE  CanarySound'
<1> DEFINE n == Len(devnet)
<1>1. /\ devnet \in Seq(CanarySlots) /\ n \in Nat /\ n < MaxCanarySlot
      /\ devnet' = Append(devnet, e) /\ UNCHANGED <<setup, query>>
  BY DEF CanarySound, DevnetSound, Grow
<1>2. /\ devnet' \in Seq(CanarySlots) /\ Len(devnet') = n + 1 /\ devnet'[n + 1] = e
      /\ \A i \in 1 .. n : devnet'[i] = devnet[i]
  BY <1>1
<1>3. DevnetSound'
  <2>1. n + 1 \in 1 .. MaxCanarySlot /\ n + 1 >= DeployedSlot
    BY <1>1, CanaryAssumption DEF CanarySound, DevnetSound
  <2>2. ASSUME NEW i \in 1 .. n + 1, devnet'[i].data.slot = DeployedSlot
        PROVE  devnet'[i].data.hash = "reviewed"
    <3>1. CASE i = n + 1
      BY <1>2, <2>2, <3>1
    <3>2. CASE i # n + 1
      <4>1. i \in 1 .. n
        BY <1>1, <3>2
      <4> QED
        BY <1>2, <2>2, <4>1 DEF CanarySound, DevnetSound
    <3> QED
      BY <3>1, <3>2
  <2> QED
    BY <1>2, <2>1, <2>2 DEF DevnetSound
<1>4. SetupSound' /\ TesterResolves' = TesterResolves /\ TesterWallet' = TesterWallet
  BY <1>1 DEF CanarySound, SetupSound, TesterResolves, TesterWallet
<1> HIDE DEF n
<1>5. PICK q : q = query
  OBVIOUS
<1>6. QuerySound(q) /\ query' = q
  BY <1>1, <1>5 DEF CanarySound
<1>7. \A i \in 0 .. n : i \in 0 .. n + 1
  BY <1>1
<1>8. \A i \in 1 .. n : i \in 1 .. n + 1
  BY <1>1
<1>9. ReadSlots(q) => ReadSlots(q)'
  BY <1>2, <1>4, <1>7 DEF ReadSlots, n
<1>10. RestsOn(q) => RestsOn(q)'
  BY <1>2, <1>8 DEF RestsOn, SeenAt, n
<1>11. Performable(q) /\ RestsOn(q) => Performable(q)'
  BY <1>2, <1>4, <1>8 DEF Performable, RestsOn, n
<1> QED
  BY <1>3, <1>4, <1>6, <1>9, <1>10, <1>11 DEF CanarySound, QuerySound, ReadSlots, RestsOn, SeenAt, Performable

\* The asset moves, coins are given away or spent, the recipe is changed, or the program
\* upgraded, which no later slot can do at the slot that was observed.
LEMMA ChainStep ==
    ASSUME CanarySound,
           \/ \E action \in {"AWAKEN", "RELEASE"} : Exchange(action)
           \/ DonateCoin \/ Spend \/ Reconfigure \/ Upgrade
    PROVE  CanarySound'
<1>1. PICK t : t = Tip
  OBVIOUS
<1>2. /\ t \in CanarySlots
      /\ t.data.slot = DeployedSlot => t.data.hash = "reviewed"
  <2>1. Len(devnet) \in 1 .. Len(devnet)
    BY DEF CanarySound, DevnetSound
  <2> QED
    BY <1>1, <2>1 DEF CanarySound, DevnetSound, Tip
<1>3. /\ t.reserve \in Nat /\ t.coins \in Nat /\ t.sol \in Nat
      /\ t.terms.backing \in Nat /\ t.terms.captureFee \in Nat
  BY <1>2 DEF CanarySlots
<1>4. ASSUME NEW e, e \in CanarySlots, e.data = t.data, Grow(e)
      PROVE  CanarySound'
  BY <1>2, <1>4, GrowSound
<1>5. ASSUME NEW action \in {"AWAKEN", "RELEASE"}, Exchange(action)
      PROVE  CanarySound'
  <2>1. PICK holder : holder = Exchanger /\ holder \in Owners
    BY DEF Exchanger, Owners
  <2>2. CASE action = "AWAKEN"
    <3>1. PICK e : e = [t EXCEPT !.owner = holder, !.reserve = t.reserve + t.terms.backing,
                                 !.coins = t.coins - t.terms.backing - t.terms.captureFee,
                                 !.sol = t.sol - ExchangeCost]
      OBVIOUS
    <3>2. t.sol >= ExchangeCost /\ t.coins >= t.terms.backing + t.terms.captureFee
      BY <1>1, <1>5, <2>2 DEF Exchange, Executable
    <3>3. /\ t.reserve + t.terms.backing \in Nat /\ t.sol - ExchangeCost \in Nat
          /\ t.coins - t.terms.backing - t.terms.captureFee \in Nat
      BY <1>3, <3>2 DEF ExchangeCost
    <3>4. e \in CanarySlots
      BY <1>2, <2>1, <3>1, <3>3 DEF CanarySlots
    <3>5. e.data = t.data
      BY <1>2, <3>1 DEF CanarySlots
    <3>6. Grow(e)
      BY <1>1, <1>5, <2>1, <2>2, <3>1 DEF Exchange, Exchanged
    <3> QED
      BY <1>4, <3>4, <3>5, <3>6
  <2>3. CASE action = "RELEASE"
    <3>1. PICK e : e = [t EXCEPT !.owner = "escrow", !.reserve = t.reserve - t.terms.backing,
                                 !.coins = t.coins + t.terms.backing,
                                 !.sol = t.sol - ExchangeCost]
      OBVIOUS
    <3>2. t.sol >= ExchangeCost /\ t.reserve >= t.terms.backing
      BY <1>1, <1>5, <2>3 DEF Exchange, Executable
    <3>3. /\ t.reserve - t.terms.backing \in Nat /\ t.sol - ExchangeCost \in Nat
          /\ t.coins + t.terms.backing \in Nat /\ "escrow" \in Owners
      BY <1>3, <3>2 DEF ExchangeCost, Owners
    <3>4. e \in CanarySlots
      BY <1>2, <3>1, <3>3 DEF CanarySlots
    <3>5. e.data = t.data
      BY <1>2, <3>1 DEF CanarySlots
    <3>6. Grow(e)
      BY <1>1, <1>5, <2>3, <3>1 DEF Exchange, Exchanged
    <3> QED
      BY <1>4, <3>4, <3>5, <3>6
  <2> QED
    BY <2>2, <2>3
<1>6. CASE DonateCoin
  <2>1. PICK e : e = [t EXCEPT !.coins = t.coins - 1, !.reserve = t.reserve + 1]
    OBVIOUS
  <2>2. t.coins - 1 \in Nat /\ t.reserve + 1 \in Nat
    BY <1>1, <1>3, <1>6 DEF DonateCoin
  <2>3. e \in CanarySlots
    BY <1>2, <2>1, <2>2 DEF CanarySlots
  <2>4. e.data = t.data
    BY <1>2, <2>1 DEF CanarySlots
  <2>5. Grow(e)
    BY <1>1, <1>6, <2>1 DEF DonateCoin
  <2> QED
    BY <1>4, <2>3, <2>4, <2>5
<1>7. CASE Spend
  <2>1. PICK e : e = [t EXCEPT !.sol = 5]
    OBVIOUS
  <2>2. e \in CanarySlots
    BY <1>2, <2>1 DEF CanarySlots
  <2>3. e.data = t.data
    BY <1>2, <2>1 DEF CanarySlots
  <2>4. Grow(e)
    BY <1>1, <1>7, <2>1 DEF Spend
  <2> QED
    BY <1>4, <2>2, <2>3, <2>4
<1>8. CASE Reconfigure
  <2>1. PICK terms : terms = [t.terms EXCEPT !.captureFee = 1]
    OBVIOUS
  <2>2. terms \in [backing : Nat, captureFee : Nat, path : Nat]
    BY <1>2, <2>1 DEF CanarySlots
  <2>3. PICK e : e = [t EXCEPT !.terms = terms]
    OBVIOUS
  <2>4. e \in CanarySlots
    BY <1>2, <2>2, <2>3 DEF CanarySlots
  <2>5. e.data = t.data
    BY <1>2, <2>3 DEF CanarySlots
  <2>6. Grow(e)
    BY <1>1, <1>8, <2>1, <2>3 DEF Reconfigure
  <2> QED
    BY <1>4, <2>4, <2>5, <2>6
<1>9. CASE Upgrade
  <2>1. PICK data : data = [t.data EXCEPT !.hash = "upgraded", !.slot = Len(devnet) + 1]
    OBVIOUS
  <2>2. Len(devnet) + 1 \in Nat /\ Len(devnet) + 1 # DeployedSlot
    BY CanaryAssumption DEF CanarySound, DevnetSound
  <2>3. PICK e : e = [t EXCEPT !.data = data]
    OBVIOUS
  <2>4. e \in CanarySlots
    BY <1>2, <2>1, <2>2, <2>3 DEF CanarySlots
  <2>5. e.data.slot # DeployedSlot
    BY <1>2, <2>1, <2>2, <2>3 DEF CanarySlots
  <2>6. Grow(e)
    BY <1>1, <1>9, <2>1, <2>3 DEF Upgrade
  <2> QED
    BY <2>4, <2>5, <2>6, GrowSound
<1> QED
  BY <1>5, <1>6, <1>7, <1>8, <1>9

\* The window closes: who the tester is stays.
LEMMA GateStep ==
    ASSUME CanarySound, CloseGate
    PROVE  CanarySound'
<1>1. PICK s : s = setup
  OBVIOUS
<1>2. s \in Setups /\ setup' = [s EXCEPT !.gate = "closed"] /\ UNCHANGED <<devnet, query>>
  BY <1>1 DEF CanarySound, SetupSound, CloseGate
<1>3. setup' \in Setups /\ setup'.tester = setup.tester /\ setup'.env = setup.env
  BY <1>1, <1>2 DEF Setups
<1>4. TesterResolves' = TesterResolves /\ TesterWallet' = TesterWallet
  BY <1>3 DEF TesterResolves, TesterWallet
<1>5. DevnetSound' /\ SetupSound'
  BY <1>2, <1>3, <1>4 DEF CanarySound, DevnetSound, SetupSound
<1>6. QuerySound(query)'
  BY <1>2, <1>4 DEF CanarySound, QuerySound, ReadSlots, RestsOn, SeenAt, Performable
<1> QED
  BY <1>5, <1>6 DEF CanarySound

\* Every step keeps the invariant.
LEMMA CanaryStep == CanarySound /\ [CanaryNext]_canaryVars => CanarySound'
<1> SUFFICES ASSUME CanarySound, [CanaryNext]_canaryVars PROVE CanarySound'
  OBVIOUS
<1>1. ASSUME UNCHANGED canaryVars PROVE CanarySound'
  <2>1. PICK q : q = query
    OBVIOUS
  <2> QED
    BY <1>1, <2>1, QueryBecomes DEF canaryVars, CanarySound
<1>2. ASSUME Serve PROVE CanarySound'
  BY <1>2, GenesisStep, ReconcileStep, ReadStep, EndStep DEF Serve
<1>3. ASSUME World PROVE CanarySound'
  BY <1>3, ChainStep, GateStep DEF World
<1> QED
  BY <1>1, <1>2, <1>3, AskStep DEF CanaryNext

\* The invariant holds of every chain and configuration to start with.
LEMMA CanaryStartsSound == CanaryInit => CanarySound
<1> SUFFICES ASSUME CanaryInit PROVE CanarySound
  OBVIOUS
<1>1. DevnetSound
  BY CanaryAssumption DEF CanaryInit, DevnetSound
<1>2. SetupSound
  BY CanaryAssumption DEF CanaryInit, SetupSound, TesterResolves, TesterWallet
<1>3. QuerySound(query)
  BY NoQuerySound DEF CanaryInit, QuerySound
<1> QED
  BY <1>1, <1>2, <1>3 DEF CanarySound

\* In every reachable state the invariant holds.
LEMMA CanaryAlways == CanarySpec => []CanarySound
BY CanaryStartsSound, CanaryStep, PTL DEF CanarySpec

\* A promise speaks of a whole World.
LEMMA SoundMeansSafe == CanarySound => SafeMeansSound
BY DEF CanarySound, QuerySound, RestsOn, SeenAt, Whole, BindingsVerified, SafeMeansSound

\* A World that is reported safe, or that a transaction was prepared for, was whole at
\* the slot the answer names, takes no fee, and runs the reviewed program, however far
\* apart the slots of the reads are and whatever happens on the chain between them; the
\* deployment that was observed being of the past (readDevnetCanaryLiveState).
THEOREM SafeIsSound == CanarySpec => []SafeMeansSound
BY CanaryAlways, SoundMeansSafe, PTL

-----------------------------------------------------------------------------
(* PreparedTransaction: the two account tables of an exchange.                *)

WrittenTo(action) == (1 .. 12) \ (IF action = "AWAKEN" THEN {} ELSE {9})

\* Both tables name the same accounts with the same rights.
LEMMA OneTable ==
    ASSUME NEW action \in {"AWAKEN", "RELEASE"}, NEW wallet
    PROVE  /\ Instruction(action, wallet) = Metas(BrowserTable(wallet), {1}, WrittenTo(action))
           /\ ExpectedAccounts(action, wallet)
                 = Metas(BrowserTable(wallet), {1}, WrittenTo(action))
<1>1. (IF action = "AWAKEN" THEN 1 .. 12 ELSE (1 .. 12) \ {9}) = WrittenTo(action)
  BY DEF WrittenTo
<1> QED
  BY <1>1 DEF Instruction, ExpectedAccounts, BrowserTable, Writable

\* Of the accounts of a tester who is not the operator only the recipe is named twice,
\* and with the same rights.
LEMMA NamedOnce ==
    /\ DOMAIN BrowserTable(Tester) = 1 .. 17
    /\ \A i \in 1 .. 17 : BrowserTable(Tester)[i] = BrowserTable(Tester)[1] => i = 1
    /\ \A i \in 1 .. 17 : BrowserTable(Tester)[i] = BrowserTable(Tester)[9] => i = 9
    /\ \A i \in 13 .. 17, j \in 1 .. 12 : BrowserTable(Tester)[i] # BrowserTable(Tester)[j]
<1> DEFINE t == BrowserTable(Tester)
<1>1. /\ t[1] = Address(Tester) /\ t[2] = Address("recipe") /\ t[3] = Address("recipe")
      /\ t[4] = Address("escrow") /\ t[5] = Address("asset") /\ t[6] = Address("collection")
      /\ t[7] = TokensOf(Tester) /\ t[8] = TokensOf("escrow") /\ t[9] = Address("mint")
      /\ t[10] = TokensOf("operator") /\ t[11] = Address("protocolFeeWallet")
      /\ t[12] = Address("operator") /\ t[13] = Address("recentBlockhashes")
      /\ t[14] = Address("coreProgram") /\ t[15] = Address("systemProgram")
      /\ t[16] = Address("tokenProgram") /\ t[17] = Address("associatedTokenProgram")
      /\ DOMAIN t = 1 .. 17
  BY DEF BrowserTable, FeeLocation
<1> HIDE DEF t
<1>2. \A a, b : /\ Address(a) = Address(b) => a = b
                /\ Address(a) # TokensOf(b)
  BY DEF Address, TokensOf
<1>3. ASSUME NEW i \in 1 .. 17, t[i] = t[1] PROVE i = 1
  BY <1>1, <1>2, <1>3 DEF Tester
<1>4. ASSUME NEW i \in 1 .. 17, t[i] = t[9] PROVE i = 9
  BY <1>1, <1>2, <1>4 DEF Tester
<1>5. ASSUME NEW i \in 13 .. 17, NEW j \in 1 .. 12 PROVE t[i] # t[j]
  <2>1. t[i] \in {Address("recentBlockhashes"), Address("coreProgram"), Address("systemProgram"),
                  Address("tokenProgram"), Address("associatedTokenProgram")}
    BY <1>1
  <2>2. t[j] \in {Address(Tester), Address("recipe"), Address("escrow"), Address("asset"),
                  Address("collection"), TokensOf(Tester), TokensOf("escrow"), Address("mint"),
                  TokensOf("operator"), Address("protocolFeeWallet"), Address("operator")}
    BY <1>1
  <2> QED
    BY <1>2, <2>1, <2>2 DEF Tester
<1> QED
  BY <1>1, <1>3, <1>4, <1>5 DEF t

\* The entries of a table.
LEMMA TableEntries ==
    ASSUME NEW t, NEW S, NEW W
    PROVE  /\ DOMAIN Metas(t, S, W) = DOMAIN t
           /\ \A i \in DOMAIN t : /\ Metas(t, S, W)[i].account = t[i]
                                 /\ Metas(t, S, W)[i].signer = (i \in S)
                                 /\ Metas(t, S, W)[i].writable = (i \in W)
<1> DEFINE metas == Metas(t, S, W)
<1>1. /\ DOMAIN metas = DOMAIN t
      /\ \A i \in DOMAIN t : metas[i] = [account |-> t[i], signer |-> i \in S, writable |-> i \in W]
  BY DEF Metas
<1> HIDE DEF metas
<1>2. \A i \in DOMAIN t : /\ metas[i].account = t[i]
                          /\ metas[i].signer = (i \in S)
                          /\ metas[i].writable = (i \in W)
  <2>1. TAKE i \in DOMAIN t
  <2>2. metas[i] = [account |-> t[i], signer |-> i \in S, writable |-> i \in W]
    BY <1>1
  <2> QED
    BY <2>2
<1> QED
  BY <1>1, <1>2 DEF metas

\* A message in which accounts that are named twice have the same rights in both
\* places is the table it was compiled from.
LEMMA CompiledIsTable ==
    ASSUME NEW t, NEW S, NEW W,
           \A i, j \in DOMAIN t : t[i] = t[j] => (i \in S <=> j \in S) /\ (i \in W <=> j \in W)
    PROVE  Compiled(Metas(t, S, W)) = Metas(t, S, W)
<1> DEFINE metas == Metas(t, S, W)
           Same(i) == {j \in DOMAIN metas : metas[j].account = metas[i].account}
<1>1. DOMAIN metas = DOMAIN t
  BY TableEntries
<1>2. \A i \in DOMAIN t : /\ metas[i].account = t[i]
                          /\ metas[i].signer = (i \in S)
                          /\ metas[i].writable = (i \in W)
  BY TableEntries
<1> HIDE DEF metas
<1>3. ASSUME NEW i \in DOMAIN t
      PROVE  /\ (\E j \in Same(i) : metas[j].signer) = (i \in S)
             /\ (\E j \in Same(i) : metas[j].writable) = (i \in W)
  <2>1. Same(i) = {j \in DOMAIN t : t[j] = t[i]}
    BY <1>1, <1>2
  <2>2. i \in Same(i) /\ \A j \in Same(i) : j \in DOMAIN t /\ t[j] = t[i]
    BY <2>1
  <2> HIDE DEF Same
  <2>3. (\E j \in Same(i) : metas[j].signer) <=> i \in S
    BY <1>2, <2>2
  <2>4. (\E j \in Same(i) : metas[j].writable) <=> i \in W
    BY <1>2, <2>2
  <2> DEFINE P == \E j \in Same(i) : metas[j].signer
             Q == \E j \in Same(i) : metas[j].writable
  <2>5. /\ P <=> i \in S
        /\ Q <=> i \in W
        /\ {P, Q, (i \in S), (i \in W)} \subseteq BOOLEAN
    BY <2>3, <2>4
  <2> HIDE DEF P, Q
  <2>6. P = (i \in S) /\ Q = (i \in W)
    BY <2>5
  <2> QED
    BY <2>6, Zenon DEF P, Q
<1>4. Compiled(metas) = [i \in DOMAIN metas |->
           [account  |-> metas[i].account,
            signer   |-> \E j \in Same(i) : metas[j].signer,
            writable |-> \E j \in Same(i) : metas[j].writable]]
  BY Zenon DEF Compiled
<1> HIDE DEF Same
<1>5. ASSUME NEW i \in DOMAIN t
      PROVE  [account  |-> metas[i].account,
              signer   |-> \E j \in Same(i) : metas[j].signer,
              writable |-> \E j \in Same(i) : metas[j].writable]
             = [account |-> t[i], signer |-> i \in S, writable |-> i \in W]
  BY <1>2, <1>3, Zenon
<1>6. Compiled(metas) = [i \in DOMAIN t |->
                           [account |-> t[i], signer |-> i \in S, writable |-> i \in W]]
  BY <1>1, <1>4, <1>5, Zenon
<1> QED
  BY <1>6, Zenon DEF metas, Metas

\* A message of an ordinary tester has the rights the browser expects.
LEMMA BrowserTakesTester ==
    ASSUME NEW action \in {"AWAKEN", "RELEASE"}
    PROVE  BrowserAccepts(PreparedAnswer(action, Tester), action, Tester)
<1> DEFINE t == BrowserTable(Tester)
           metas == Metas(t, {1}, WrittenTo(action))
           answer == PreparedAnswer(action, Tester)
<1>1. DOMAIN t = 1 .. 17
  BY NamedOnce
<1>2. ASSUME NEW i \in DOMAIN t, NEW j \in DOMAIN t, t[i] = t[j]
      PROVE  (i \in {1} <=> j \in {1}) /\ (i \in WrittenTo(action) <=> j \in WrittenTo(action))
  <2>1. i = 1 <=> j = 1
    BY <1>1, <1>2, NamedOnce
  <2>2. i = 9 <=> j = 9
    BY <1>1, <1>2, NamedOnce
  <2>3. i \in 13 .. 17 <=> j \in 13 .. 17
    BY <1>1, <1>2, NamedOnce
  <2> HIDE DEF t
  <2>4. \A k \in 1 .. 17 :
           k \in WrittenTo(action) <=> (k \notin 13 .. 17 /\ (action = "AWAKEN" \/ k # 9))
    BY DEF WrittenTo
  <2> QED
    BY <1>1, <2>1, <2>2, <2>3, <2>4
<1>3. Compiled(metas) = metas
  BY <1>2, CompiledIsTable
<1>4. /\ answer.action = action /\ answer.wallet = Tester
      /\ answer.post = PostState(action, Tester) /\ answer.payer = Tester
      /\ answer.data = action /\ answer.accounts = metas
  BY <1>3, OneTable DEF PreparedAnswer
<1>5. ExpectedAccounts(action, Tester) = metas
  BY OneTable
<1>6. DOMAIN metas = 1 .. 17
  BY <1>1, TableEntries
<1>7. ASSUME NEW i \in 1 .. 17 PROVE metas[i].signer <=> i = 1
  <2>1. metas[i].signer = (i \in {1})
    BY <1>1, TableEntries
  <2> HIDE DEF metas
  <2> QED
    BY <2>1
<1> HIDE DEF metas, t
<1>8. {a \in {metas[i] : i \in DOMAIN metas} : a.signer} = {metas[1]}
  <2>1. 1 \in 1 .. 17
    OBVIOUS
  <2> QED
    BY <1>6, <1>7, <2>1, Zenon
<1> HIDE DEF answer
<1>9. /\ {a \in {answer.accounts[i] : i \in DOMAIN answer.accounts} : a.signer}
            = {answer.accounts[1]}
      /\ answer.accounts = ExpectedAccounts(action, Tester)
  BY <1>4, <1>5, <1>8
<1> HIDE DEF answer
<1>10. BrowserAccepts(answer, action, Tester)
  BY <1>4, <1>9, Zenon DEF BrowserAccepts
<1> QED
  BY <1>10 DEF answer

\* The message of the operator writes to no account the browser does not know, but it
\* has his account sign in the place of the fee account too.
LEMMA BrowserRefusesOperator ==
    ASSUME NEW action \in {"AWAKEN", "RELEASE"}
    PROVE  ~ BrowserAccepts(PreparedAnswer(action, "operator"), action, "operator")
<1> DEFINE t == BrowserTable("operator")
           metas == Metas(t, {1}, WrittenTo(action))
           answer == PreparedAnswer(action, "operator")
<1>1. /\ DOMAIN t = 1 .. 17
      /\ t[1] = Address("operator") /\ t[12] = Address("operator")
  BY DEF BrowserTable, FeeLocation
<1>2. answer.accounts = Compiled(metas) /\ ExpectedAccounts(action, "operator") = metas
  BY OneTable DEF PreparedAnswer
<1>3. DOMAIN metas = 1 .. 17
  BY <1>1, TableEntries
<1>4. metas[1].account = metas[12].account /\ metas[1].signer /\ ~ metas[12].signer
  <2>1. /\ metas[1].account = t[1] /\ metas[12].account = t[12]
        /\ metas[1].signer = (1 \in {1}) /\ metas[12].signer = (12 \in {1})
    BY <1>1, TableEntries
  <2> HIDE DEF metas, t
  <2>2. 1 \in {1} /\ 12 \notin {1}
    OBVIOUS
  <2> QED
    BY <1>1, <2>1, <2>2, Zenon
<1> HIDE DEF metas, t
<1>5. Compiled(metas)[12].signer
  <2> DEFINE same == {j \in DOMAIN metas : metas[j].account = metas[12].account}
  <2>1. 12 \in DOMAIN metas /\ 1 \in same
    BY <1>3, <1>4
  <2>2. Compiled(metas)[12] = [account |-> metas[12].account,
                               signer |-> \E j \in same : metas[j].signer,
                               writable |-> \E j \in same : metas[j].writable]
    BY <2>1, Zenon DEF Compiled
  <2> HIDE DEF same
  <2>3. \E j \in same : metas[j].signer
    BY <1>4, <2>1
  <2>4. Compiled(metas)[12].signer = (\E j \in same : metas[j].signer)
    BY <2>2
  <2> QED
    BY <2>3, <2>4
<1>6. Compiled(metas) # metas
  BY <1>4, <1>5
<1> QED
  BY <1>2, <1>6, Zenon DEF BrowserAccepts

\* A transaction was prepared for the tester of the configuration, the wallet that
\* takes the asset.
LEMMA PreparedFor ==
    ASSUME CanarySound, query.answer = "prepared"
    PROVE  /\ query.action \in {"AWAKEN", "RELEASE"} /\ query.wallet \in {Tester, "operator"}
           /\ Exchanger = query.wallet /\ TesterWallet = query.wallet
           /\ RestsOn(query) /\ Performable(query)
           /\ devnet[query.accounts] \in CanarySlots
<1>1. QuerySound(query) /\ DevnetSound
  BY DEF CanarySound
<1>2. RestsOn(query) /\ Performable(query) /\ query \in Queries
  BY <1>1 DEF QuerySound
<1>3. Exchanger = query.wallet
  BY <1>2 DEF Performable, Exchanger, Tester
<1> QED
  BY <1>1, <1>2, <1>3 DEF Queries, RestsOn, Performable, DevnetSound

\* The fields of a slot after an exchange.
LEMMA AfterExchange ==
    ASSUME NEW action \in {"AWAKEN", "RELEASE"}, NEW e \in CanarySlots,
           NEW after, after = Exchanged(action, e)
    PROVE  /\ after.owner = (IF action = "AWAKEN" THEN Exchanger ELSE "escrow")
           /\ after.reserve = (IF action = "AWAKEN" THEN e.reserve + e.terms.backing
                                                   ELSE e.reserve - e.terms.backing)
           /\ after.terms = e.terms /\ after.odd = e.odd
BY DEF Exchanged, CanarySlots

LEMMA PreparedHonest ==
    ASSUME CanarySound
    PROVE  PreparedIsHonest
<1> SUFFICES ASSUME query.answer = "prepared" PROVE PreparedIsHonest
  BY DEF PreparedIsHonest
<1>1. PICK action, wallet, e, after :
         /\ action = query.action /\ wallet = query.wallet /\ e = devnet[query.accounts]
         /\ after = Exchanged(action, e)
  OBVIOUS
<1>2. /\ action \in {"AWAKEN", "RELEASE"} /\ wallet \in {Tester, "operator"}
      /\ Exchanger = wallet /\ e \in CanarySlots /\ Whole(e)
  BY <1>1, PreparedFor DEF RestsOn
<1>3. action = "AWAKEN" => e.owner = "escrow"
  BY <1>1, PreparedFor DEF Performable
<1>4. action = "RELEASE" => e.owner # "escrow"
  BY <1>1, PreparedFor DEF Performable, Tester
<1>5. e.terms.backing = CanaryBacking
      /\ e.reserve = (IF e.owner = "escrow" THEN 0 ELSE CanaryBacking)
  BY <1>2 DEF Whole, BindingsVerified
<1>6. [owner |-> after.owner, reserve |-> after.reserve] = PostState(action, wallet)
  BY <1>1, <1>2, <1>3, <1>4, <1>5, AfterExchange, CanaryAssumption DEF PostState
<1>7. BrowserAccepts(PreparedAnswer(action, wallet), action, wallet) <=> wallet # "operator"
  BY <1>2, BrowserTakesTester, BrowserRefusesOperator DEF Tester
<1> QED
  BY <1>1, <1>6, <1>7 DEF PreparedIsHonest

LEMMA AwakenReleasable ==
    ASSUME CanarySound
    PROVE  AwakenCanBeReleased
<1> SUFFICES ASSUME query.answer = "prepared", query.action = "AWAKEN",
                    BrowserAccepts(PreparedAnswer("AWAKEN", query.wallet), "AWAKEN", query.wallet)
             PROVE  AwakenCanBeReleased
  BY DEF AwakenCanBeReleased
<1>1. PICK e, after : e = devnet[query.accounts] /\ after = Exchanged("AWAKEN", e)
  OBVIOUS
<1>2. query.wallet = Tester
  BY PreparedFor, BrowserRefusesOperator
<1>3. /\ Exchanger = Tester /\ TesterWallet = Tester /\ e \in CanarySlots /\ Whole(e)
      /\ e.owner = "escrow"
  BY <1>1, <1>2, PreparedFor DEF RestsOn, Performable
<1>4. e.terms.backing = CanaryBacking /\ e.reserve = 0 /\ BindingsVerified(e)
      /\ "inventory" \notin e.odd
  BY <1>3 DEF Whole, BindingsVerified
<1>5. /\ after.owner = Tester /\ after.reserve = CanaryBacking
      /\ after.terms = e.terms /\ after.odd = e.odd
  BY <1>1, <1>3, <1>4, AfterExchange, CanaryAssumption
<1>6. Location(after) = "tester"
  BY <1>3, <1>5 DEF Location, Tester, None
<1>7. BindingsVerified(after)
  BY <1>4, <1>5 DEF BindingsVerified
<1>8. Safe(after, TRUE)
  BY <1>4, <1>5, <1>6, <1>7, CanaryAssumption DEF Safe, ExactReserve, ActiveCount
<1>9. ActionEnabled("RELEASE", after, Sol(query) - ExchangeCost)
  <2>1. /\ query.balance \in 1 .. Len(devnet) /\ devnet[query.balance].sol >= 12
    BY PreparedFor DEF Performable, Buffer, AwakenSol
  <2>2. devnet[query.balance] \in CanarySlots /\ ~ (query.balance > MaxCanarySlot)
    BY <2>1, CanaryAssumption DEF CanarySound, DevnetSound
  <2>3. Sol(query) \in Nat /\ Sol(query) >= 12
    BY <2>1, <2>2 DEF Sol, CanarySlots
  <2> QED
    BY <1>6, <2>3 DEF ActionEnabled, Buffer, TesterSol, ExchangeCost
<1> QED
  BY <1>1, <1>8, <1>9 DEF AwakenCanBeReleased

\* A transaction the server has prepared does what its answer quotes, and passes the
\* browser's own table but for the operator's: however the chain moves between the reads.
THEOREM PreparedIsAlwaysHonest == CanarySpec => []PreparedIsHonest
BY CanaryAlways, PreparedHonest, PTL

\* An awaken the browser accepts leaves a World that is safe, and the tester the SOL and
\* the rules to release again.
THEOREM AwakenIsReleasable == CanarySpec => []AwakenCanBeReleased
BY CanaryAlways, AwakenReleasable, PTL

-----------------------------------------------------------------------------
(* WorldCatalog: what a request concludes from a row, an artifact and a chain  *)
(* that change while it waits, for any rows, texts and chains laid out as the  *)
(* types say.                                                                  *)

\* An append keeps what a sequence holds.
LEMMA Appended ==
    ASSUME NEW s, IsSequence(s), NEW e
    PROVE  /\ IsSequence(Append(s, e)) /\ Len(Append(s, e)) = Len(s) + 1
           /\ Append(s, e)[Len(s) + 1] = e
           /\ \A i \in 1 .. Len(s) : Append(s, e)[i] = s[i]
<1> DEFINE S == {s[i] : i \in 1 .. Len(s)} \cup {e}
<1>1. s \in Seq(S) /\ e \in S
  <2>1. Len(s) \in Nat /\ s = [i \in 1 .. Len(s) |-> s[i]]
    BY DEF IsSequence
  <2>2. \A i \in 1 .. Len(s) : s[i] \in S
    OBVIOUS
  <2> HIDE DEF S
  <2>3. s \in [1 .. Len(s) -> S]
    BY <2>1, <2>2
  <2> QED
    BY <2>1, <2>3 DEF S
<1> HIDE DEF S
<1>2. Append(s, e) \in Seq(S)
  BY <1>1
<1>3. ASSUME NEW t \in Seq(S) PROVE IsSequence(t)
  <2>1. Len(t) \in Nat /\ t \in [1 .. Len(t) -> S]
    OBVIOUS
  <2> QED
    BY <2>1 DEF IsSequence
<1>4. /\ Len(Append(s, e)) = Len(s) + 1 /\ Append(s, e)[Len(s) + 1] = e
      /\ \A i \in 1 .. Len(s) : Append(s, e)[i] = s[i]
  BY <1>1
<1> QED
  BY <1>2, <1>3, <1>4

\* A sequence has as many members as it is long, and finitely many values.
LEMMA FiniteRange ==
    ASSUME NEW s, IsSequence(s)
    PROVE  /\ DOMAIN s = 1 .. Len(s)
           /\ IsFiniteSet(Range(s))
<1>1. DOMAIN s = 1 .. Len(s) /\ Len(s) \in Nat
  BY DEF IsSequence
<1>2. IsFiniteSet(1 .. Len(s))
  BY <1>1, FS_Interval
<1>3. s \in Surjection(1 .. Len(s), Range(s))
  <2>1. s = [i \in 1 .. Len(s) |-> s[i]]
    BY DEF IsSequence
  <2>2. s \in [1 .. Len(s) -> Range(s)]
    BY <1>1, <2>1 DEF Range
  <2> QED
    BY <1>1, <2>2 DEF Surjection, Range
<1> QED
  BY <1>1, <1>2, <1>3, FS_Surjection

\* Two of a finite set differ.
LEMMA TwoOf ==
    ASSUME NEW S, IsFiniteSet(S), Cardinality(S) >= 2
    PROVE  \E a, b \in S : a # b
<1>1. PICK a \in S : TRUE
  BY FS_EmptySet
<1>2. IsFiniteSet({a}) /\ Cardinality({a}) = 1
  BY FS_Singleton
<1>3. S # {a}
  BY <1>2
<1> QED
  BY <1>1, <1>3

-----------------------------------------------------------------------------
\* Every approval that verifies is in the record of what members have signed.
OnRecord(m) ==
    \A i \in 1 .. Len(m.covenant.approvals) :
        m.covenant.approvals[i].state = "genuine" =>
            <<m.covenant.approvals[i].signer, m.covenant.approvals[i].signature.sha>> \in reviewed

RowSound ==
    /\ DOMAIN row = RowColumns
    /\ LaidOut(row.manifest)
    /\ Writable(row) \/ Legacy(row)
    /\ OnRecord(row.manifest)

LedgerSound == IsSequence(ledger) /\ Len(ledger) \in 1 .. MaxSlot

\* Who approved the text of the World, before anything else is read.
TwoReviewers(m) ==
    \E a, b \in Range(m.covenant.members) :
        a # b /\ {<<a, DigestOf(m)>>, <<b, DigestOf(m)>>} \subseteq reviewed

\* A manifest that was taken up from a row.
TakenUp(m) ==
    /\ LaidOut(m) /\ ValidManifest(m)
    /\ m.status.mode = "MAINNET" /\ m.status.deployment = "DEPLOYED"
    /\ TwoReviewers(m)

RequestSound ==
    /\ DOMAIN request = {"kind", "slug", "stage", "manifest", "program", "state", "answer"}
    /\ request.stage \in {"artifact", "program", "state", "gate"} =>
          /\ TakenUp(Manifest)
          /\ request.kind = "detail" => Manifest.slug = request.slug
    /\ request.stage \in {"state", "gate"} =>
          /\ request.program \in 1 .. Len(ledger)
          /\ ObservedDeployment(request.program, Manifest.observedSlot,
                ledger[request.program].program, ledger[request.program].data,
                Expected(Manifest))
    /\ request.stage = "gate" =>
          /\ request.state \in 1 .. Len(ledger)
          /\ BuildsSpec(Manifest)
          /\ StateRead(SpecOf(Manifest), ledger[request.state].world)

CatalogSound == RowSound /\ LedgerSound /\ RequestSound

-----------------------------------------------------------------------------
\* The approvals that count were made over the text itself, so that their signers
\* are on record with its digest.
LEMMA ApprovedIsReviewed ==
    ASSUME NEW m, LaidOut(m), OnRecord(m), Approved(m)
    PROVE  TwoReviewers(m)
<1>1. IsSequence(m.covenant.members) /\ IsSequence(m.covenant.approvals)
  BY DEF LaidOut
<1>2. /\ IsFiniteSet(Range(m.covenant.members))
      /\ DOMAIN m.covenant.approvals = 1 .. Len(m.covenant.approvals)
  BY <1>1, FiniteRange
<1>3. ASSUME NEW a \in Approvers(m)
      PROVE  a \in Range(m.covenant.members) /\ <<a, DigestOf(m)>> \in reviewed
  <2>1. PICK i \in 1 .. Len(m.covenant.approvals) :
           /\ a = m.covenant.approvals[i].signer
           /\ a \in Range(m.covenant.members)
           /\ m.covenant.approvals[i].state = "genuine"
           /\ m.covenant.approvals[i].signature = Message(m)
    BY <1>2 DEF Approvers
  <2>2. Message(m).sha = DigestOf(m)
    BY DEF Message, Approved
  <2>3. <<m.covenant.approvals[i].signer, m.covenant.approvals[i].signature.sha>> \in reviewed
    BY <2>1 DEF OnRecord
  <2> QED
    BY <2>1, <2>2, <2>3
<1>4. IsFiniteSet(Approvers(m))
  <2>1. Approvers(m) \subseteq Range(m.covenant.members)
    BY <1>3
  <2> QED
    BY <1>2, <2>1, FS_Subset
<1>5. PICK a, b \in Approvers(m) : a # b
  BY <1>4, TwoOf DEF Approved
<1> QED
  BY <1>3, <1>5 DEF TwoReviewers

\* A row that is taken up was written under the constraints of the table: what was
\* migrated is a demo.
LEMMA TakenUpAsWritten ==
    ASSUME RowSound, Acceptable(row)
    PROVE  /\ Candidate(row.manifest) = row.manifest
           /\ TakenUp(row.manifest)
           /\ row.manifest.slug = row.slug
<1> DEFINE m == row.manifest
<1>1. ~ Legacy(row)
  <2> SUFFICES ASSUME Legacy(row) PROVE FALSE
    OBVIOUS
  <2>1. Candidate(m) = Migrated(m)
    BY DEF Legacy, Candidate
  <2>2. DOMAIN m = {"schema", "protocolModel", "id", "slug", "name", "lifecycle", "migration",
                   "untyped", "lacking", "malformed", "status", "launch", "token", "collection",
                   "rules", "chain", "covenant", "assurance", "observedSlot"}
    BY DEF RowSound, LaidOut
  <2>3. Migrated(m).status = [mode |-> "DEMO", validation |-> "UNTESTED",
                              deployment |-> "NOT_CONNECTED", scopes |-> {}]
    BY <2>2 DEF Migrated
  <2>4. Migrated(m).status.mode = "DEMO"
    BY <2>3
  <2> QED
    BY <2>1, <2>4 DEF Acceptable
<1>2. Candidate(m) = m
  BY <1>1 DEF Legacy, Candidate
<1>3. m.slug = row.slug
  BY <1>1 DEF RowSound, Writable, ManifestCheck
<1>4. TwoReviewers(m)
  BY <1>2, ApprovedIsReviewed DEF Acceptable, RowSound
<1> QED
  BY <1>2, <1>3, <1>4 DEF TakenUp, Acceptable, Parses, RowSound

-----------------------------------------------------------------------------
\* What is written into the row keeps its layout and its slug.
LEMMA RowRewritten ==
    ASSUME RowSound, NEW manifest, LaidOut(manifest), Rewrite(manifest), OnRecord(manifest)'
    PROVE  RowSound'
<1>1. row' = [row EXCEPT !.manifest = manifest] /\ Writable(row')
  BY DEF Rewrite
<1>2. row'.manifest = manifest /\ DOMAIN row' = DOMAIN row
  BY <1>1 DEF RowSound
<1>3. OnRecord(row.manifest)'
  BY <1>2 DEF OnRecord
<1> QED
  BY <1>1, <1>2, <1>3 DEF RowSound

LEMMA EditStep ==
    ASSUME RowSound, NEW text \in Texts, EditText(text)
    PROVE  RowSound'
<1>0. PICK c, e :
         /\ c = row.manifest.covenant
         /\ e = [text EXCEPT !.covenant.uri = c.uri, !.covenant.sha = c.sha,
                             !.covenant.approvals = c.approvals]
  OBVIOUS
<1>1. LaidOut(text) /\ LaidOut(row.manifest)
  BY CatalogAssumption DEF RowSound
<1>2. /\ DOMAIN e = DOMAIN text
      /\ DOMAIN e.covenant = DOMAIN text.covenant
      /\ e.covenant.approvals = c.approvals
      /\ e.covenant.members = text.covenant.members
      /\ e.covenant.supply = text.covenant.supply
      /\ e.token = text.token /\ e.rules = text.rules /\ e.collection = text.collection
  BY <1>0, <1>1 DEF LaidOut
<1>3. Rewrite(e) /\ reviewed' = reviewed
  BY <1>0 DEF EditText
<1>4. LaidOut(e)
  BY <1>0, <1>1, <1>2 DEF LaidOut
<1>5. OnRecord(e)'
  BY <1>0, <1>2, <1>3 DEF OnRecord, RowSound
<1> QED
  BY <1>3, <1>4, <1>5, RowRewritten

LEMMA SealStep ==
    ASSUME RowSound, Seal
    PROVE  RowSound'
<1>0. PICK m, e : m = row.manifest /\ e = [m EXCEPT !.covenant.sha = DigestOf(m)]
  OBVIOUS
<1>1. LaidOut(m)
  BY <1>0 DEF RowSound
<1>2. /\ DOMAIN e = DOMAIN m
      /\ DOMAIN e.covenant = DOMAIN m.covenant
      /\ e.covenant.approvals = m.covenant.approvals
      /\ e.covenant.members = m.covenant.members
      /\ e.covenant.supply = m.covenant.supply
      /\ e.token = m.token /\ e.rules = m.rules /\ e.collection = m.collection
  BY <1>0, <1>1 DEF LaidOut
<1>3. Rewrite(e) /\ reviewed' = reviewed
  BY <1>0 DEF Seal
<1>4. LaidOut(e)
  BY <1>1, <1>2 DEF LaidOut
<1>5. OnRecord(e)'
  BY <1>0, <1>2, <1>3 DEF OnRecord, RowSound
<1> QED
  BY <1>3, <1>4, <1>5, RowRewritten

\* A signature is over the digest its signer has just seen.
LEMMA SignStep ==
    ASSUME RowSound, NEW signer, Sign(signer)
    PROVE  RowSound'
<1>0. PICK m, a, e, old, new :
         /\ m = row.manifest
         /\ a = [signer |-> signer, signature |-> Message(m), state |-> "genuine"]
         /\ e = [m EXCEPT !.covenant.approvals = Append(@, a)]
         /\ old = m.covenant.approvals /\ new = Append(old, a)
  OBVIOUS
<1>1. LaidOut(m) /\ IsSequence(old)
  BY <1>0 DEF RowSound, LaidOut
<1>2. /\ DOMAIN e = DOMAIN m
      /\ DOMAIN e.covenant = DOMAIN m.covenant
      /\ e.covenant.approvals = new
      /\ e.covenant.members = m.covenant.members
      /\ e.covenant.supply = m.covenant.supply
      /\ e.token = m.token /\ e.rules = m.rules /\ e.collection = m.collection
  BY <1>0, <1>1 DEF LaidOut
<1>3. Rewrite(e) /\ reviewed' = reviewed \cup {<<signer, host>>} /\ host = m.covenant.sha
  BY <1>0 DEF Sign
<1>4. LaidOut(e)
  <2>1. IsSequence(new)
    BY <1>0, <1>1, Appended
  <2> QED
    BY <1>1, <1>2, <2>1 DEF LaidOut
<1>5. a.signer = signer /\ a.signature.sha = host
  BY <1>0, <1>3 DEF Message
<1>6. OnRecord(e)'
  <2>1. /\ Len(old) \in Nat /\ Len(new) = Len(old) + 1 /\ new[Len(old) + 1] = a
        /\ \A i \in 1 .. Len(old) : new[i] = old[i]
    BY <1>0, <1>1, Appended DEF IsSequence
  <2>2. \A i \in 1 .. Len(old) : old[i].state = "genuine" =>
           <<old[i].signer, old[i].signature.sha>> \in reviewed'
    BY <1>0, <1>3 DEF RowSound, OnRecord
  <2>3. \A i \in 1 .. Len(new) : new[i].state = "genuine" =>
           <<new[i].signer, new[i].signature.sha>> \in reviewed'
    BY <1>3, <1>5, <2>1, <2>2
  <2> QED
    BY <1>2, <2>3 DEF OnRecord
<1> QED
  BY <1>3, <1>4, <1>6, RowRewritten

\* The world moves on: the row, the artifact and the record of the members change, and
\* the chain grows, while what a request knows of them stays true.
LEMMA RequestStays ==
    ASSUME RequestSound, LedgerSound, LedgerSound', request' = request, reviewed \subseteq reviewed',
           Len(ledger) <= Len(ledger'),
           \A i \in 1 .. Len(ledger) : ledger'[i] = ledger[i]
    PROVE  RequestSound'
<1>1. \A i \in 1 .. Len(ledger) : i \in 1 .. Len(ledger')
  BY DEF LedgerSound, IsSequence
<1>2. request.stage \in {"artifact", "program", "state", "gate"} => TakenUp(Manifest)'
  <2> SUFFICES ASSUME request.stage \in {"artifact", "program", "state", "gate"}
               PROVE  TakenUp(Manifest)'
    OBVIOUS
  <2>1. TakenUp(Manifest) /\ Manifest' = Manifest
    BY DEF RequestSound, Manifest
  <2>2. PICK m : m = Manifest
    OBVIOUS
  <2>3. TwoReviewers(m)'
    BY <2>1, <2>2 DEF TakenUp, TwoReviewers
  <2> QED
    BY <2>1, <2>2, <2>3 DEF TakenUp
<1>3. Manifest' = Manifest
  BY DEF Manifest
<1> QED
  BY <1>1, <1>2, <1>3 DEF RequestSound

\* The chain grows at its end.
LEMMA ExtendStep ==
    ASSUME LedgerSound, NEW entry, Extend(entry)
    PROVE  /\ LedgerSound' /\ Len(ledger) <= Len(ledger')
           /\ \A i \in 1 .. Len(ledger) : ledger'[i] = ledger[i]
           /\ UNCHANGED <<row, reviewed, request>>
<1>1. ledger' = Append(ledger, entry) /\ Len(ledger) < MaxSlot /\ IsSequence(ledger)
  BY DEF Extend, LedgerSound
<1>2. /\ IsSequence(ledger') /\ Len(ledger') = Len(ledger) + 1
      /\ \A i \in 1 .. Len(ledger) : ledger'[i] = ledger[i]
  BY <1>1, Appended
<1>3. Len(ledger') \in 1 .. MaxSlot
  BY <1>1, <1>2, CatalogAssumption DEF IsSequence
<1>4. Len(ledger) <= Len(ledger')
  BY <1>1, <1>2 DEF IsSequence
<1> QED
  BY <1>2, <1>3, <1>4 DEF LedgerSound, Extend

\* Nobody who writes to the row, the host or the chain can unmake what a request saw.
LEMMA OutsideStep ==
    ASSUME CatalogSound, Outside
    PROVE  CatalogSound'
<1>1. RowSound /\ LedgerSound /\ RequestSound
  BY DEF CatalogSound
<1>2. ASSUME RowSound', UNCHANGED <<ledger, request>>, reviewed \subseteq reviewed'
      PROVE  CatalogSound'
  <2>1. LedgerSound' /\ \A i \in 1 .. Len(ledger) : ledger'[i] = ledger[i]
    BY <1>1, <1>2 DEF LedgerSound
  <2>2. Len(ledger) <= Len(ledger')
    BY <1>1, <1>2 DEF LedgerSound, IsSequence
  <2> QED
    BY <1>1, <1>2, <2>1, <2>2, RequestStays DEF CatalogSound
<1>3. ASSUME NEW entry, Extend(entry) PROVE CatalogSound'
  <2>1. RowSound'
    BY <1>1, <1>3, ExtendStep DEF RowSound, OnRecord
  <2> QED
    BY <1>1, <1>3, <2>1, ExtendStep, RequestStays DEF CatalogSound
<1>4. ASSUME NEW text \in Texts, EditText(text) PROVE CatalogSound'
  <2>1. UNCHANGED <<ledger, request, reviewed>>
    BY <1>4 DEF EditText, Rewrite
  <2> QED
    BY <1>1, <1>2, <1>4, <2>1, EditStep
<1>5. ASSUME NEW signer, Sign(signer) PROVE CatalogSound'
  <2>1. UNCHANGED <<ledger, request>> /\ reviewed \subseteq reviewed'
    BY <1>5 DEF Sign, Rewrite
  <2> QED
    BY <1>1, <1>2, <1>5, <2>1, SignStep
<1>6. CASE Seal
  <2>1. UNCHANGED <<ledger, request, reviewed>>
    BY <1>6 DEF Seal, Rewrite
  <2> QED
    BY <1>1, <1>2, <1>6, <2>1, SealStep
<1>7. CASE PublishArtifact
  <2>1. UNCHANGED <<row, ledger, request, reviewed>>
    BY <1>7 DEF PublishArtifact
  <2>2. RowSound'
    BY <1>1, <2>1 DEF RowSound, OnRecord
  <2> QED
    BY <1>2, <2>1, <2>2
<1> QED
  BY <1>3, <1>4, <1>5, <1>6, <1>7 DEF Outside, UpgradeProgram, ReconfigureRecipe, BurnCoins

-----------------------------------------------------------------------------
\* A request moves while everything else rests.
LEMMA RequestBecomes ==
    ASSUME CatalogSound, Unchanged, RequestSound'
    PROVE  CatalogSound'
BY DEF CatalogSound, Unchanged, RowSound, LedgerSound, OnRecord

\* A request that is answered or has only been asked knows nothing yet.
LEMMA NothingKnown ==
    ASSUME CatalogSound, Unchanged, request'.stage \in {"rows", "answered"},
           DOMAIN request' = {"kind", "slug", "stage", "manifest", "program", "state", "answer"}
    PROVE  CatalogSound'
BY RequestBecomes DEF RequestSound

LEMMA AnswerStep ==
    ASSUME CatalogSound, Unchanged, NEW outcome, Answer(outcome)
    PROVE  CatalogSound'
<1>1. /\ DOMAIN request' = {"kind", "slug", "stage", "manifest", "program", "state", "answer"}
      /\ request'.stage = "answered"
  BY DEF Answer, NoRequest
<1> QED
  BY <1>1, NothingKnown

LEMMA AskCatalogStep ==
    ASSUME CatalogSound, NEW kind, NEW slug, Ask(kind, slug)
    PROVE  CatalogSound'
<1>1. /\ DOMAIN request' = {"kind", "slug", "stage", "manifest", "program", "state", "answer"}
      /\ request'.stage = "rows"
  BY DEF Ask, NoRequest
<1> QED
  BY <1>1, NothingKnown DEF Ask

\* A row is taken up.
LEMMA RowAcceptedStep ==
    ASSUME CatalogSound, RowAccepted
    PROVE  CatalogSound'
<1>1. RowSound /\ RequestSound /\ Acceptable(row) /\ Unchanged
  BY DEF CatalogSound, RowAccepted
<1>2. /\ Candidate(row.manifest) = row.manifest /\ TakenUp(row.manifest)
      /\ row.manifest.slug = row.slug
  BY <1>1, TakenUpAsWritten
<1>3. PICK m : m = row.manifest
  OBVIOUS
<1>4. request' = [request EXCEPT !.stage = "artifact", !.manifest = <<m>>]
  BY <1>2, <1>3 DEF RowAccepted
<1>5. /\ DOMAIN request' = DOMAIN request
      /\ request'.stage = "artifact" /\ request'.manifest = <<m>>
      /\ request'.kind = request.kind /\ request'.slug = request.slug
  BY <1>1, <1>4 DEF RequestSound
<1>6. Manifest' = m
  BY <1>5 DEF Manifest
<1>7. TakenUp(m)'
  BY <1>1, <1>2, <1>3 DEF TakenUp, TwoReviewers, Unchanged
<1>8. request.kind = "detail" => m.slug = request.slug
  BY <1>2, <1>3 DEF RowAccepted, Found
<1>9. TakenUp(Manifest)'
  BY <1>6, <1>7 DEF TakenUp, TwoReviewers
<1>10. RequestSound'
  BY <1>1, <1>5, <1>6, <1>8, <1>9 DEF RequestSound
<1> QED
  BY <1>1, <1>10, RequestBecomes

\* Each of the three reads adds what it has verified.
LEMMA ReadArtifactStep ==
    ASSUME CatalogSound, ReadArtifact
    PROVE  CatalogSound'
<1>1. Unchanged /\ request.stage = "artifact" /\ RequestSound
  BY DEF ReadArtifact, CatalogSound
<1>2. CASE Answer(Fallback)
  BY <1>1, <1>2, AnswerStep
<1>3. CASE request' = [request EXCEPT !.stage = "program"]
  <2>1. /\ DOMAIN request' = DOMAIN request /\ request'.stage = "program"
        /\ request'.manifest = request.manifest
        /\ request'.kind = request.kind /\ request'.slug = request.slug
    BY <1>1, <1>3 DEF RequestSound
  <2>2. Manifest' = Manifest
    BY <2>1 DEF Manifest
  <2>3. TakenUp(Manifest)'
    BY <1>1, <2>2 DEF RequestSound, TakenUp, TwoReviewers, Unchanged
  <2>4. RequestSound'
    BY <1>1, <2>1, <2>2, <2>3 DEF RequestSound
  <2> QED
    BY <1>1, <2>4, RequestBecomes
<1> QED
  BY <1>2, <1>3 DEF ReadArtifact

LEMMA ReadProgramStep ==
    ASSUME CatalogSound, NEW slot \in 1 .. Len(ledger), ReadProgram(slot)
    PROVE  CatalogSound'
<1>1. Unchanged /\ request.stage = "program" /\ RequestSound
  BY DEF ReadProgram, CatalogSound
<1>2. CASE Answer(Fallback)
  BY <1>1, <1>2, AnswerStep
<1>3. CASE /\ request' = [request EXCEPT !.stage = "state", !.program = slot]
           /\ ObservedDeployment(slot, Manifest.observedSlot, ledger[slot].program,
                                 ledger[slot].data, Expected(Manifest))
  <2>1. /\ DOMAIN request' = DOMAIN request /\ request'.stage = "state"
        /\ request'.manifest = request.manifest /\ request'.program = slot
        /\ request'.kind = request.kind /\ request'.slug = request.slug
    BY <1>1, <1>3 DEF RequestSound
  <2>2. Manifest' = Manifest /\ ledger' = ledger
    BY <1>1, <2>1 DEF Manifest, Unchanged
  <2>3. TakenUp(Manifest)'
    BY <1>1, <2>2 DEF RequestSound, TakenUp, TwoReviewers, Unchanged
  <2>4. RequestSound'
    BY <1>1, <1>3, <2>1, <2>2, <2>3 DEF RequestSound
  <2> QED
    BY <1>1, <2>4, RequestBecomes
<1> QED
  BY <1>2, <1>3 DEF ReadProgram

LEMMA ReadStateStep ==
    ASSUME CatalogSound, NEW slot \in 1 .. Len(ledger), ReadState(slot)
    PROVE  CatalogSound'
<1>1. Unchanged /\ request.stage = "state" /\ RequestSound
  BY DEF ReadState, CatalogSound
<1>2. CASE Answer(Fallback)
  BY <1>1, <1>2, AnswerStep
<1>3. CASE /\ request' = [request EXCEPT !.stage = "gate", !.state = slot]
           /\ BuildsSpec(Manifest) /\ StateRead(SpecOf(Manifest), ledger[slot].world)
  <2>1. /\ DOMAIN request' = DOMAIN request /\ request'.stage = "gate"
        /\ request'.manifest = request.manifest
        /\ request'.program = request.program /\ request'.state = slot
        /\ request'.kind = request.kind /\ request'.slug = request.slug
    BY <1>1, <1>3 DEF RequestSound
  <2>2. Manifest' = Manifest /\ ledger' = ledger
    BY <1>1, <2>1 DEF Manifest, Unchanged
  <2>3. TakenUp(Manifest)'
    BY <1>1, <2>2 DEF RequestSound, TakenUp, TwoReviewers, Unchanged
  <2>4. RequestSound'
    BY <1>1, <1>3, <2>1, <2>2, <2>3 DEF RequestSound
  <2> QED
    BY <1>1, <2>4, RequestBecomes
<1> QED
  BY <1>2, <1>3 DEF ReadState

LEMMA CatalogStarts ==
    ASSUME CatalogInit
    PROVE  CatalogSound
<1>1. LaidOut(row.manifest) /\ DOMAIN row = RowColumns
  BY CatalogAssumption DEF CatalogInit
<1>2. OnRecord(row.manifest)
  <2> DEFINE approvals == row.manifest.covenant.approvals
  <2>1. DOMAIN approvals = 1 .. Len(approvals)
    BY <1>1, FiniteRange DEF LaidOut
  <2>2. reviewed = {<<a.signer, a.signature.sha>> :
                       a \in {b \in Range(approvals) : b.state = "genuine"}}
    BY DEF CatalogInit
  <2>3. \A i \in 1 .. Len(approvals) : approvals[i] \in Range(approvals)
    BY <2>1 DEF Range
  <2> QED
    BY <2>2, <2>3 DEF OnRecord
<1>3. RowSound
  BY <1>1, <1>2 DEF RowSound, CatalogInit
<1>4. LedgerSound
  BY CatalogAssumption DEF CatalogInit, LedgerSound
<1>5. RequestSound
  BY DEF CatalogInit, NoRequest, RequestSound
<1> QED
  BY <1>3, <1>4, <1>5 DEF CatalogSound

LEMMA CatalogStep ==
    ASSUME CatalogSound, [CatalogNext]_catalogVars
    PROVE  CatalogSound'
<1>1. ASSUME NEW kind \in {"list", "detail"}, NEW slug \in Slugs, Ask(kind, slug)
      PROVE  CatalogSound'
  BY <1>1, AskCatalogStep
<1>2. CASE NotConfigured
  BY <1>2, AnswerStep DEF NotConfigured
<1>3. CASE RowsUnavailable
  BY <1>3, AnswerStep DEF RowsUnavailable
<1>4. CASE Verify
  <2>1. CASE RowsEmpty \/ RowRefused \/ ReadFails \/ Gate
    BY <2>1, AnswerStep DEF RowsEmpty, RowRefused, ReadFails, Gate
  <2> QED
    BY <1>4, <2>1, RowAcceptedStep, ReadArtifactStep, ReadProgramStep, ReadStateStep DEF Verify
<1>5. CASE Outside
  BY <1>5, OutsideStep
<1>6. CASE UNCHANGED catalogVars
  BY <1>6 DEF catalogVars, CatalogSound, RowSound, LedgerSound, RequestSound, OnRecord,
              TakenUp, TwoReviewers, Manifest
<1> QED
  BY <1>1, <1>2, <1>3, <1>4, <1>5, <1>6 DEF CatalogNext

LEMMA CatalogAlways == CatalogSpec => []CatalogSound
BY CatalogStarts, CatalogStep, PTL DEF CatalogSpec

\* A World on its way to publication carries the text two members had before them when
\* they signed, whatever is edited meanwhile, and is the World that was asked for.
THEOREM OnlyReviewedTerms == CatalogSpec => []ReviewedTermsOnly
<1>1. CatalogSound => ReviewedTermsOnly
  BY DEF CatalogSound, RequestSound, TakenUp, TwoReviewers, ReviewedTermsOnly
<1> QED
  BY <1>1, CatalogAlways, PTL

\* The program that was seen running is the signed one, under the signed authority, at a
\* slot no earlier than the one that was signed.
THEOREM ProgramSeenIsSigned == CatalogSpec => []SignedProgramSeen
<1>1. CatalogSound => SignedProgramSeen
  <2> SUFFICES ASSUME CatalogSound, request.stage \in {"state", "gate"}
               PROVE  SignedProgramSeen
    BY DEF SignedProgramSeen
  <2>1. PICK data, m, e : /\ data = ledger[request.program].data /\ m = Manifest
                          /\ e = Expected(Manifest)
    OBVIOUS
  <2>2. /\ e.executable = m.assurance.executable /\ e.policy = m.assurance.policy
        /\ e.upgradeAuthority = m.assurance.upgradeAuthority
    BY <2>1 DEF Expected
  <2>3. /\ Expectable(e) /\ data.hash = e.executable /\ AuthorityAllowed(data, e)
        /\ request.program >= m.observedSlot
    BY <2>1 DEF CatalogSound, RequestSound, ObservedDeployment, Deployed
  <2>4. m.assurance.policy = "EXACT" <=> m.assurance.upgradeAuthority # None
    BY <2>1 DEF CatalogSound, RequestSound, TakenUp, ValidManifest, AssuranceValid
  <2>5. data.option = 1 => data.authority = e.upgradeAuthority
    BY <2>2, <2>3, <2>4 DEF AuthorityAllowed, Authority, Expectable, None
  <2> QED
    BY <2>1, <2>2, <2>3, <2>5 DEF SignedProgramSeen
<1> QED
  BY <1>1, CatalogAlways, PTL

-----------------------------------------------------------------------------
\* The backing of some of the assets is no more than that of all of them.
LEMMA SomeOfAll ==
    ASSUME NEW b \in Nat, NEW n \in Nat, NEW all \in Nat, n <= all
    PROVE  b * n \in Nat /\ b * n <= b * all
<1>1. all - n \in Nat /\ all = n + (all - n)
  OBVIOUS
<1>2. b * n \in Nat /\ b * (all - n) \in Nat
  BY <1>1
<1>3. b * (n + (all - n)) = b * n + b * (all - n)
  BY <1>1
<1> QED
  BY <1>1, <1>2, <1>3

\* A World at the last gate could keep its promise to every holder, whatever the
\* prices, the number of assets and the supply.
THEOREM PromisesCanBeKept == CatalogSpec => []PromiseCanBeKept
<1>1. CatalogSound => PromiseCanBeKept
  <2> SUFFICES ASSUME CatalogSound, AtGate PROVE PromiseCanBeKept
    BY DEF PromiseCanBeKept
  <2>1. PICK m, world, s, terms, spec, all :
           /\ m = Manifest /\ world = ledger[request.state].world /\ s = SpecOf(m)
           /\ terms = world.recipe.terms /\ spec = [SpecOf(m) EXCEPT !.terms = terms]
           /\ all = m.collection.max
    OBVIOUS
  <2>2. TakenUp(m) /\ BuildsSpec(m) /\ StateRead(s, world)
    BY <2>1 DEF CatalogSound, RequestSound, AtGate
  <2>3. /\ s.supply = m.covenant.supply /\ s.maximum = all /\ s.terms = TermsOf(m)
        /\ s.authority = m.chain.authority /\ s.escrow = m.chain.escrow
        /\ spec.terms = terms /\ spec.maximum = all
    BY <2>1 DEF SpecOf
  <2>4. terms = s.terms /\ spec.terms = s.terms
    BY <2>1, <2>2, <2>3 DEF StateRead, Bound
  <2>5. s.terms.backing = m.rules.backing /\ s.terms.captureFee = m.rules.captureFee
    BY <2>3 DEF TermsOf
  <2>6. s.terms.backing \in Nat /\ all \in Nat /\ s.supply \in Nat
    BY <2>1, <2>2, <2>3, <2>5 DEF TakenUp, LaidOut
  <2>7. ValidSpec(s)
    BY <2>2 DEF StateRead
  <2>8. /\ s.terms.backing * all <= s.supply /\ s.supply <= U64Max
        /\ s.escrow = EscrowOf[s.authority]
    BY <2>3, <2>7 DEF ValidSpec, AddressesDerived, AccountsValid, U64
  <2>9. /\ world.mint.supply = s.supply
        /\ world.mint.mintAuthority = None /\ world.mint.freezeAuthority = None
        /\ world.tokens.holder = s.escrow
    BY <2>2 DEF StateRead, SupplyFixed, CustodyMatches
  <2>10. ASSUME NEW out \in 0 .. all
         PROVE  \E coins \in 0 .. world.mint.supply :
                   SafeToServe(spec, coins, all - out, out, all)
    <3> DEFINE coins == s.terms.backing * out
    <3>1. out \in Nat /\ out <= all
      BY <2>6
    <3>2. coins \in Nat /\ coins <= s.terms.backing * all /\ s.terms.backing * all \in Nat
      BY <2>6, <3>1, SomeOfAll
    <3>3. coins = Required(spec, out)
      BY <2>4 DEF Required
    <3> HIDE DEF coins
    <3>4. coins \in 0 .. world.mint.supply /\ coins <= U64Max
      BY <2>6, <2>8, <2>9, <3>2, HybridAssumption
    <3>5. (all - out) + out = all /\ all <= spec.maximum
      BY <2>3, <2>6, <3>1
    <3> QED
      BY <3>3, <3>4, <3>5 DEF SafeToServe, U64
  <2>11. ~ Decode(terms.path).burnOnCapture /\ ~ Decode(terms.path).burnOnRelease
    BY <2>4, <2>7 DEF ValidSpec, BehaviourValid
  <2>12. m.covenant.escrowAuthority = m.chain.authority
    BY <2>2 DEF TakenUp, ValidManifest, MainnetCovenant, AuthoritiesDisclosed
  <2>13. terms.captureFee = m.rules.captureFee
    BY <2>4, <2>5
  <2>14. world.tokens.holder = EscrowOf[m.covenant.escrowAuthority]
    BY <2>3, <2>8, <2>9, <2>12
  <2> QED
    BY <2>1, <2>9, <2>10, <2>11, <2>13, <2>14 DEF PromiseCanBeKept
<1> QED
  BY <1>1, CatalogAlways, PTL

-----------------------------------------------------------------------------
\* What the migration writes, and what it carries over.
LEMMA MigratedParts ==
    ASSUME NEW m, LaidOut(m), NEW n, n = Migrated(m)
    PROVE  /\ n.schema = "3.0" /\ n.protocolModel = "MPL_HYBRID_V2_RECIPE"
           /\ n.lifecycle = "REVIEW"
           /\ n.status = [mode |-> "DEMO", validation |-> "UNTESTED",
                          deployment |-> "NOT_CONNECTED", scopes |-> {}]
           /\ n.launch = [path |-> "IMPORTED_CLASSIC", market |-> "UNAVAILABLE",
                          collection |-> "NOT_STARTED", hybrid |-> "NOT_CONFIGURED",
                          writes |-> FALSE]
           /\ n.token = [m.token EXCEPT !.kind = "UNKNOWN"]
           /\ n.rules = [m.rules EXCEPT !.releaseFee = 0, !.burns = FALSE, !.duplicates = TRUE,
                                        !.scope = "DEDICATED_WORLD"]
           /\ n.chain = NoChain /\ n.assurance = NoAssurance /\ n.observedSlot = 0
           /\ n.covenant = [m.covenant EXCEPT !.uri = None, !.sha = Nothing, !.approvedAt = None,
                                              !.feeRecipient = None, !.approvals = <<>>]
           /\ n.untyped = m.untyped \ {"launch", "assurance"}
           /\ n.lacking = m.lacking \ {"launch", "chain", "covenant", "assurance"}
           /\ n.malformed = m.malformed \ {"label", "launch", "signatures", "addresses", "slot",
                                           "hashes", "commit", "links"}
           /\ n.collection = m.collection
BY DEF Migrated, LaidOut

\* A row of an older schema whose source can be read, and whose other parts are valid,
\* is accepted once it is migrated.
LEMMA MigrationParses ==
    ASSUME NEW m, LaidOut(m), m.schema \in {"1.0", "2.0"}, LegacySource(m), CarriedOver(m)
    PROVE  Parses(m)
<1>1. PICK n : n = Migrated(m)
  OBVIOUS
<1>2. /\ n.schema = "3.0" /\ n.protocolModel = "MPL_HYBRID_V2_RECIPE"
      /\ n.lifecycle = "REVIEW"
      /\ n.status = [mode |-> "DEMO", validation |-> "UNTESTED",
                     deployment |-> "NOT_CONNECTED", scopes |-> {}]
      /\ n.launch = [path |-> "IMPORTED_CLASSIC", market |-> "UNAVAILABLE",
                     collection |-> "NOT_STARTED", hybrid |-> "NOT_CONFIGURED",
                     writes |-> FALSE]
      /\ n.chain = NoChain /\ n.assurance = NoAssurance /\ n.observedSlot = 0
  BY <1>1, MigratedParts
<1>3. /\ n.token.kind = "UNKNOWN" /\ n.token.decimals = m.token.decimals
      /\ n.collection = m.collection
  <2>1. n.token = [m.token EXCEPT !.kind = "UNKNOWN"] /\ n.collection = m.collection
    BY <1>1, MigratedParts
  <2>2. DOMAIN m.token = {"kind", "decimals"}
    BY DEF LaidOut
  <2> QED
    BY <2>1, <2>2
<1>4. /\ n.rules.releaseFee = 0 /\ n.rules.burns = FALSE /\ n.rules.duplicates = TRUE
      /\ n.rules.scope = "DEDICATED_WORLD" /\ n.rules.backing = m.rules.backing
      /\ n.rules.rerollFee = m.rules.rerollFee
  <2>1. n.rules = [m.rules EXCEPT !.releaseFee = 0, !.burns = FALSE, !.duplicates = TRUE,
                                  !.scope = "DEDICATED_WORLD"]
    BY <1>1, MigratedParts
  <2>2. {"releaseFee", "burns", "duplicates", "scope", "backing", "rerollFee"} \subseteq DOMAIN m.rules
    BY DEF LaidOut
  <2> QED
    BY <2>1, <2>2
<1>5. /\ n.covenant.uri = None /\ n.covenant.sha = Nothing /\ n.covenant.approvedAt = None
      /\ n.covenant.approvals = <<>> /\ n.covenant.members = m.covenant.members
  <2>1. n.covenant = [m.covenant EXCEPT !.uri = None, !.sha = Nothing, !.approvedAt = None,
                                        !.feeRecipient = None, !.approvals = <<>>]
    BY <1>1, MigratedParts
  <2>2. {"uri", "sha", "approvedAt", "approvals", "members"} \subseteq DOMAIN m.covenant
    BY DEF LaidOut
  <2> QED
    BY <2>1, <2>2
<1>6. /\ n.status.mode = "DEMO" /\ n.status.validation = "UNTESTED"
      /\ n.status.deployment = "NOT_CONNECTED" /\ n.status.scopes = {}
      /\ n.launch.path = "IMPORTED_CLASSIC" /\ n.launch.market = "UNAVAILABLE"
      /\ n.launch.collection = "NOT_STARTED" /\ n.launch.hybrid = "NOT_CONFIGURED"
      /\ n.launch.writes = FALSE
  BY <1>2
<1>7. /\ \A k \in ChainKeys : n.chain[k] = None
      /\ \A k \in Assurances : n.assurance[k] = (IF k = "policy" THEN "UNSET" ELSE None)
  BY <1>2 DEF NoChain, NoAssurance
<1>8. /\ n.chain.cluster = None /\ n.chain.updateDelegate = None /\ n.chain.tokenMint = None
      /\ n.chain.tokenProgram = None
      /\ n.assurance.policy = "UNSET" /\ n.assurance.upgradeAuthority = None
      /\ \A k \in {"programVerificationUri", "clientUri", "reviewUri"} : n.assurance[k] = None
  BY <1>7 DEF ChainKeys, Assurances
<1>9. ASSUME NEW kind \in {"texts", "label", "launch", "colour", "enums", "dates", "signatures",
                          "slug", "symbol", "amounts", "addresses", "slot", "hashes", "commit"}
      PROVE  kind \notin n.malformed
  <2>1. n.malformed = m.malformed \ {"label", "launch", "signatures", "addresses", "slot",
                                     "hashes", "commit", "links"}
    BY <1>1, MigratedParts
  <2>2. \A k \in {"texts", "colour", "enums", "dates", "slug", "symbol", "amounts"} :
           k \notin m.malformed
    BY DEF CarriedOver, WellFormed
  <2> QED
    BY <2>1, <2>2
<1>10. WellTyped(n)
  <2>1. n.untyped = {} /\ n.lacking = {}
    <3>1. /\ n.untyped = m.untyped \ {"launch", "assurance"}
          /\ n.lacking = m.lacking \ {"launch", "chain", "covenant", "assurance"}
      BY <1>1, MigratedParts
    <3> QED
      BY <3>1 DEF CarriedOver
  <2>2. Cardinality(n.status.scopes) <= 8
    BY <1>6, FS_EmptySet
  <2> QED
    BY <1>5, <2>1, <2>2 DEF WellTyped, LegacySource
<1>11. IdentityValid(n)
  <2>1. Quarantined(n)
    BY <1>2, <1>3, <1>5, <1>6 DEF Quarantined
  <2> QED
    BY <1>2, <1>4, <1>9, <2>1 DEF IdentityValid, WellFormed
<1>12. TokenStandardRespected(n) /\ EnumerationsValid(n)
  BY <1>2, <1>3, <1>6, <1>8, <1>9 DEF TokenStandardRespected, EnumerationsValid, HybridTrack,
                                       WellFormed
<1>13. SafetyValid(n) /\ AmountsValid(n)
  BY <1>3, <1>4, <1>9 DEF SafetyValid, AmountsValid, WellFormed, CarriedOver
<1>14. AddressesValid(n) /\ AssuranceValid(n)
  BY <1>2, <1>8, <1>9 DEF AddressesValid, AssuranceValid, WellFormed
<1>15. DelegateValid(n) /\ TokenProgramValid(n)
  BY <1>3, <1>6, <1>8, ManifestAssumption DEF DelegateValid, TokenProgramValid, None
<1>16. ReferencesComplete(n)
  BY <1>2, <1>6 DEF ReferencesComplete
<1>17. ValidManifest(n)
  BY <1>6, <1>11, <1>12, <1>13, <1>14, <1>15, <1>16 DEF ValidManifest
<1>18. Candidate(m) = n
  BY <1>1 DEF Candidate
<1> QED
  BY <1>10, <1>17, <1>18 DEF Parses

\* No row of an older schema is lost to the stricter rules, in any state of the catalog.
THEOREM MigrationsAreAccepted == CatalogSpec => []MigrationAccepted
<1>1. CatalogSound => MigrationAccepted
  BY MigrationParses DEF CatalogSound, RowSound, MigrationAccepted, Legacy
<1> QED
  BY <1>1, CatalogAlways, PTL
-----------------------------------------------------------------------------
(* PendingTransactions: what a list, the stored one or a tab's copy of it, must *)
(* have of the transactions it is answerable for.                               *)

\* later[s]: remembered after s.  A transaction of known stands behind such ones only,
\* and is missing only if there are MaxPending of them.
ListSound(list, known, later) ==
    /\ list \in Seq(Signatures)
    /\ \A i, j \in 1 .. Len(list) : i < j =>
          /\ list[i] # list[j]
          /\ list[j] \in known => list[i] \in later[list[j]]
    /\ \A s \in known : Cardinality(later[s]) < MaxPending =>
          \E i \in 1 .. Len(list) : list[i] = s

Later(later) ==
    /\ later \in [Signatures -> SUBSET Signatures]
    /\ \A s \in Signatures : IsFiniteSet(later[s])

\* Fewer transactions to answer for, and more that came after them.
LEMMA ListGrows ==
    ASSUME NEW list, NEW known, NEW later, ListSound(list, known, later),
           known \subseteq Signatures, NEW fewer, fewer \subseteq known,
           NEW more, Later(later), Later(more),
           \A s \in fewer : later[s] \subseteq more[s]
    PROVE  ListSound(list, fewer, more)
<1>1. ASSUME NEW s \in fewer
      PROVE  /\ Cardinality(later[s]) <= Cardinality(more[s])
             /\ Cardinality(later[s]) \in Nat /\ Cardinality(more[s]) \in Nat
  BY FS_Subset, FS_CardinalityType DEF Later
<1>2. ASSUME NEW s \in fewer, Cardinality(more[s]) < MaxPending
      PROVE  \E i \in 1 .. Len(list) : list[i] = s
  BY <1>1, <1>2, PendingAssumption DEF ListSound
<1> QED
  BY <1>2 DEF ListSound

\* What filtering leaves of a sound list: the others, still in order.
Rest(rest, list, known, later, signature) ==
    /\ rest \in Seq(Signatures) /\ Len(rest) \in Nat
    /\ \A i \in 1 .. Len(rest) : rest[i] \in Signatures /\ rest[i] # signature
    /\ \A i, j \in 1 .. Len(rest) : i < j =>
          /\ rest[i] # rest[j]
          /\ rest[j] \in known => rest[i] \in later[rest[j]]
    /\ \A s \in Signatures \ {signature} :
          (\E i \in 1 .. Len(list) : list[i] = s) => \E i \in 1 .. Len(rest) : rest[i] = s

LEMMA WithoutKeeps ==
    ASSUME NEW list, NEW known, NEW later, ListSound(list, known, later),
           NEW signature \in Signatures, NEW rest, rest = Without(list, signature)
    PROVE  Rest(rest, list, known, later, signature)
<1>1. list \in Seq(Signatures) /\ Len(list) \in Nat
  BY DEF ListSound
<1>2. PICK keep : keep = Signatures \ {signature}
  OBVIOUS
<1>3. Filtered(rest, list, keep, Len(list), Signatures)
  BY <1>1, <1>2, OnlyFilters DEF Without
<1>4. ASSUME NEW i \in 1 .. Len(rest), NEW j \in 1 .. Len(rest), i < j
      PROVE  /\ rest[i] # rest[j]
             /\ rest[j] \in known => rest[i] \in later[rest[j]]
  <2>1. PICK p \in 1 .. Len(list), q \in 1 .. Len(list) :
           p < q /\ rest[i] = list[p] /\ rest[j] = list[q]
    BY <1>3, <1>4 DEF Filtered, Subsequence
  <2> QED
    BY <2>1 DEF ListSound
<1>5. rest \in Seq(Signatures) /\ Len(rest) \in Nat
  BY <1>3 DEF Filtered
<1>6. ASSUME NEW i \in 1 .. Len(rest) PROVE rest[i] \in Signatures /\ rest[i] # signature
  <2>1. rest[i] \in keep
    BY <1>3 DEF Filtered
  <2> QED
    BY <1>2, <2>1
<1>7. ASSUME NEW s \in Signatures \ {signature}, NEW p \in 1 .. Len(list), list[p] = s
      PROVE  \E i \in 1 .. Len(rest) : rest[i] = s
  <2>1. list[p] \in keep
    BY <1>2, <1>7
  <2> QED
    BY <1>3, <1>7, <2>1 DEF Filtered
<1> QED
  BY <1>4, <1>5, <1>6, <1>7 DEF Rest

LEMMA ForgottenSound ==
    ASSUME NEW list, NEW known, NEW later, ListSound(list, known, later),
           known \subseteq Signatures, NEW signature \in Signatures
    PROVE  ListSound(Forgotten(list, signature), known \ {signature}, later)
<1>1. PICK rest : rest = Without(list, signature)
  OBVIOUS
<1>2. Rest(rest, list, known, later, signature)
  BY <1>1, WithoutKeeps
<1>3. ASSUME NEW s \in known \ {signature}, Cardinality(later[s]) < MaxPending
      PROVE  \E i \in 1 .. Len(rest) : rest[i] = s
  <2>1. \E i \in 1 .. Len(list) : list[i] = s
    BY <1>3 DEF ListSound
  <2> QED
    BY <1>2, <1>3, <2>1 DEF Rest
<1>4. ASSUME NEW i \in 1 .. Len(rest), NEW j \in 1 .. Len(rest), i < j
      PROVE  /\ rest[i] # rest[j]
             /\ rest[j] \in known \ {signature} => rest[i] \in later[rest[j]]
  BY <1>2, <1>4 DEF Rest
<1>5. rest \in Seq(Signatures)
  BY <1>2 DEF Rest
<1>6. ListSound(rest, known \ {signature}, later)
  BY <1>3, <1>4, <1>5 DEF ListSound
<1> QED
  BY <1>1, <1>6 DEF Forgotten

\* A transaction with fewer than MaxPending after it is not cut off.
LEMMA RememberedSound ==
    ASSUME NEW list, NEW known, NEW later, ListSound(list, known, later),
           known \subseteq Signatures, NEW signature \in Signatures, Later(later),
           NEW more, Later(more),
           \A s \in known \ {signature} : more[s] = later[s] \cup {signature}
    PROVE  ListSound(Remembered(list, signature), known \cup {signature}, more)
<1>1. PICK rest, full, n : /\ rest = Without(list, signature)
                           /\ full = <<signature>> \o rest
                           /\ n = Min({Len(full), MaxPending})
  OBVIOUS
<1>2. /\ rest \in Seq(Signatures) /\ Len(rest) \in Nat
      /\ \A i \in 1 .. Len(rest) : rest[i] \in Signatures /\ rest[i] # signature
      /\ \A i, j \in 1 .. Len(rest) : i < j =>
            /\ rest[i] # rest[j]
            /\ rest[j] \in known => rest[i] \in later[rest[j]]
      /\ \A s \in Signatures \ {signature} :
            (\E i \in 1 .. Len(list) : list[i] = s) => \E i \in 1 .. Len(rest) : rest[i] = s
  <2>1. Rest(rest, list, known, later, signature)
    BY <1>1, WithoutKeeps
  <2> QED
    BY <2>1 DEF Rest
<1>3. /\ full \in Seq(Signatures) /\ Len(full) = Len(rest) + 1 /\ full[1] = signature
      /\ \A i \in 1 .. Len(full) : i # 1 => i - 1 \in 1 .. Len(rest) /\ full[i] = rest[i - 1]
      /\ \A i \in 1 .. Len(rest) : full[i + 1] = rest[i]
  BY <1>1, <1>2
<1>4. ASSUME NEW i \in 1 .. Len(full), NEW j \in 1 .. Len(full), i < j
      PROVE  /\ full[i] # full[j]
             /\ full[j] \in known \cup {signature} => full[i] \in more[full[j]]
  <2>1. j # 1 /\ j - 1 \in 1 .. Len(rest) /\ full[j] = rest[j - 1] /\ full[j] # signature
    BY <1>2, <1>3, <1>4
  <2>2. CASE i = 1
    BY <1>3, <2>1, <2>2
  <2>3. CASE i # 1
    <3>1. /\ i - 1 \in 1 .. Len(rest) /\ full[i] = rest[i - 1] /\ i - 1 < j - 1
      BY <1>2, <1>3, <1>4, <2>3
    <3> QED
      BY <1>2, <2>1, <3>1
  <2> QED
    BY <2>2, <2>3
<1>5. n \in Nat /\ 1 <= n /\ n <= Len(full) /\ (n = Len(full) \/ n = MaxPending)
  <2>1. Len(full) \in Nat \ {0} /\ MaxPending \in Nat \ {0}
    BY <1>2, <1>3, PendingAssumption
  <2>2. \E m \in {Len(full), MaxPending} : \A k \in {Len(full), MaxPending} : m <= k
    BY <2>1
  <2>3. n \in {Len(full), MaxPending} /\ \A k \in {Len(full), MaxPending} : n <= k
    BY <1>1, <2>2 DEF Min
  <2> QED
    BY <2>1, <2>3
<1>6. PICK next : next = SubSeq(full, 1, n)
  OBVIOUS
<1>7. /\ next \in Seq(Signatures) /\ Len(next) = n
      /\ \A i \in 1 .. n : next[i] = full[i]
  BY <1>3, <1>5, <1>6
<1>8. ASSUME NEW s \in known \cup {signature}, Cardinality(more[s]) < MaxPending
      PROVE  \E i \in 1 .. n : next[i] = s
  <2>1. CASE s = signature
    BY <1>3, <1>5, <1>7, <2>1
  <2>2. CASE s # signature
    <3>1. s \in known \ {signature} /\ s \in Signatures
      BY <2>2
    <3>2. /\ IsFiniteSet(more[s]) /\ Cardinality(more[s]) \in Nat
          /\ Cardinality(later[s]) \in Nat /\ Cardinality(later[s]) <= Cardinality(more[s])
      BY <3>1, FS_Subset, FS_CardinalityType DEF Later
    <3>3. Cardinality(later[s]) < MaxPending
      BY <1>8, <3>2, PendingAssumption
    <3>4. \E i \in 1 .. Len(list) : list[i] = s
      BY <3>1, <3>3 DEF ListSound
    <3>5. PICK i \in 1 .. Len(rest) : rest[i] = s
      BY <1>2, <3>1, <3>4
    <3>6. i \in Nat /\ i + 1 \in 1 .. Len(full) /\ full[i + 1] = s
      BY <1>2, <1>3, <3>5
    <3>7. ASSUME i + 1 > MaxPending PROVE FALSE
      <4> DEFINE f == [m \in 1 .. i |-> full[m]]
      <4>1. \A m \in 1 .. i : m \in 1 .. Len(full) /\ m < i + 1 /\ full[m] \in more[s]
        BY <1>2, <1>3, <1>4, <3>1, <3>6
      <4>2. f \in [1 .. i -> more[s]] /\ \A m \in 1 .. i : f[m] = full[m]
        BY <4>1
      <4> HIDE DEF f
      <4>3. IsFiniteSet(1 .. i) /\ Cardinality(1 .. i) = i
        BY <3>6, FS_Interval
      <4>4. Cardinality(more[s]) < i
        BY <1>8, <3>2, <3>6, <3>7, PendingAssumption
      <4>5. PICK x \in 1 .. i, y \in 1 .. i : x # y /\ f[x] = f[y]
        BY <3>2, <4>2, <4>3, <4>4, FS_PigeonHole
      <4>6. full[x] = full[y] /\ (x < y \/ y < x)
        BY <4>2, <4>5
      <4> QED
        BY <1>4, <4>1, <4>6
    <3>8. i + 1 \in 1 .. n
      BY <1>5, <3>6, <3>7, PendingAssumption
    <3> QED
      BY <1>7, <3>6, <3>8
  <2> QED
    BY <2>1, <2>2
<1>9. ListSound(next, known \cup {signature}, more)
  <2>1. 1 .. n \subseteq 1 .. Len(full)
    BY <1>2, <1>3, <1>5
  <2>2. ASSUME NEW i \in 1 .. n, NEW j \in 1 .. n, i < j
        PROVE  /\ next[i] # next[j]
               /\ next[j] \in known \cup {signature} => next[i] \in more[next[j]]
    BY <1>4, <1>7, <2>1, <2>2
  <2> QED
    BY <1>7, <1>8, <2>2 DEF ListSound
<1> QED
  BY <1>1, <1>6, <1>9 DEF Remembered
-----------------------------------------------------------------------------
\* Where the elements of what is written back come from.
LEMMA ForgottenFrom ==
    ASSUME NEW list \in Seq(Signatures), NEW signature \in Signatures,
           NEW next, next = Forgotten(list, signature), NEW i \in 1 .. Len(next)
    PROVE  next[i] # signature /\ \E p \in 1 .. Len(list) : next[i] = list[p]
<1>1. PICK keep : keep = Signatures \ {signature}
  OBVIOUS
<1>2. Filtered(next, list, keep, Len(list), Signatures)
  BY <1>1, OnlyFilters DEF Without, Forgotten
<1>3. next[i] \in keep /\ \E p \in 1 .. Len(list) : next[i] = list[p]
  BY <1>2 DEF Filtered
<1> QED
  BY <1>1, <1>3

LEMMA RememberedFrom ==
    ASSUME NEW list \in Seq(Signatures), NEW signature \in Signatures,
           NEW next, next = Remembered(list, signature), NEW i \in 1 .. Len(next)
    PROVE  next[i] = signature \/ \E p \in 1 .. Len(list) : next[i] = list[p]
<1>1. PICK rest, full, n : /\ rest = Without(list, signature)
                           /\ full = <<signature>> \o rest
                           /\ n = Min({Len(full), MaxPending})
  OBVIOUS
<1>2. PICK keep : keep = Signatures \ {signature}
  OBVIOUS
<1>3. Filtered(rest, list, keep, Len(list), Signatures)
  BY <1>1, <1>2, OnlyFilters DEF Without
<1>4. rest \in Seq(Signatures) /\ Len(rest) \in Nat
  BY <1>3 DEF Filtered
<1>5. /\ full \in Seq(Signatures) /\ Len(full) = Len(rest) + 1 /\ full[1] = signature
      /\ \A m \in 1 .. Len(full) : m # 1 => m - 1 \in 1 .. Len(rest) /\ full[m] = rest[m - 1]
  BY <1>1, <1>4
<1>6. n \in Nat /\ 1 <= n /\ n <= Len(full)
  <2>1. Len(full) \in Nat \ {0} /\ MaxPending \in Nat \ {0}
    BY <1>4, <1>5, PendingAssumption
  <2>2. \E m \in {Len(full), MaxPending} : \A k \in {Len(full), MaxPending} : m <= k
    BY <2>1
  <2>3. n \in {Len(full), MaxPending} /\ \A k \in {Len(full), MaxPending} : n <= k
    BY <1>1, <2>2 DEF Min
  <2> QED
    BY <2>1, <2>3
<1>7. next = SubSeq(full, 1, n)
  BY <1>1 DEF Remembered
<1>8. i \in 1 .. Len(full) /\ next[i] = full[i]
  BY <1>5, <1>6, <1>7
<1>9. CASE i = 1
  BY <1>5, <1>8, <1>9
<1>10. CASE i # 1
  <2>1. i - 1 \in 1 .. Len(rest) /\ next[i] = rest[i - 1]
    BY <1>5, <1>8, <1>10
  <2>2. \E p \in 1 .. Len(list) : rest[i - 1] = list[p]
    BY <1>3, <2>1 DEF Filtered
  <2> QED
    BY <2>1, <2>2
<1> QED
  BY <1>9, <1>10

-----------------------------------------------------------------------------
PendingTab == [op : {"none", "remember", "forget"}, signature : Signatures \cup {"none"},
               read : Seq(Signatures), missed : SUBSET Signatures]

\* A tab that has read answers for what was kept then and was not written since.
TabSound(t) ==
    pendingTabs[t].op # "none" =>
        /\ pendingTabs[t].signature \in Signatures
        /\ ListSound(pendingTabs[t].read, kept \ pendingTabs[t].missed, newer)

\* While no two operations overlapped, the list holds only what is kept, and the tab
\* that is at work has the list as it is.
Undisturbed ==
    /\ \A i \in 1 .. Len(pendingList) : pendingList[i] \in kept
    /\ \A t \in PendingTabs : pendingTabs[t].op # "none" =>
          /\ pendingTabs[t].missed = {} /\ pendingTabs[t].read = pendingList
          /\ \A u \in PendingTabs \ {t} : pendingTabs[u].op = "none"

PendingSound ==
    /\ kept \subseteq Signatures /\ Later(newer)
    /\ ListSound(pendingList, kept, newer)
    /\ pendingTabs \in [PendingTabs -> PendingTab]
    /\ \A t \in PendingTabs : TabSound(t)
    /\ ~ twice => Undisturbed

LEMMA PendingStarts == PendingInit => PendingSound
<1> SUFFICES ASSUME PendingInit PROVE PendingSound
  OBVIOUS
<1> USE DEF PendingInit
<1>1. Later(newer)
  BY FS_EmptySet DEF Later
<1>2. ListSound(pendingList, kept, newer)
  BY DEF ListSound
<1>3. NoOperation \in PendingTab /\ NoOperation.op = "none"
  BY DEF NoOperation, PendingTab
<1>4. pendingTabs \in [PendingTabs -> PendingTab]
      /\ \A t \in PendingTabs : pendingTabs[t].op = "none"
  BY <1>3
<1> QED
  BY <1>1, <1>2, <1>4 DEF PendingSound, TabSound, Undisturbed

LEMMA LoadKeepsSound ==
    ASSUME PendingSound, NEW t \in PendingTabs, NEW op \in {"remember", "forget"},
           NEW s \in Signatures, LoadPending(t, op, s)
    PROVE  PendingSound'
<1>1. UNCHANGED <<pendingList, kept, newer>>
  BY DEF LoadPending
<1>2. PICK o : o = [op |-> op, signature |-> s, read |-> pendingList, missed |-> {}]
  OBVIOUS
<1>3. /\ o.op = op /\ o.op # "none" /\ o.signature = s /\ o.read = pendingList
      /\ o.missed = {}
  BY <1>2
<1>4. pendingList \in Seq(Signatures)
  BY DEF PendingSound, ListSound
<1>5. o \in PendingTab
  BY <1>2, <1>4 DEF PendingTab
<1>6. /\ pendingTabs \in [PendingTabs -> PendingTab]
      /\ pendingTabs' = [pendingTabs EXCEPT ![t] = o]
  BY <1>2 DEF LoadPending, PendingSound
<1>7. /\ pendingTabs' \in [PendingTabs -> PendingTab] /\ pendingTabs'[t] = o
      /\ \A u \in PendingTabs \ {t} : pendingTabs'[u] = pendingTabs[u]
  BY <1>5, <1>6
<1>8. ListSound(pendingList, kept, newer)
  BY DEF PendingSound
<1>9. ASSUME NEW u \in PendingTabs PROVE TabSound(u)'
  <2>1. CASE u = t
    <3>1. kept \ {} = kept
      OBVIOUS
    <3> QED
      BY <1>1, <1>3, <1>7, <1>8, <2>1, <3>1 DEF TabSound
  <2>2. CASE u # t
    <3>1. TabSound(u) /\ pendingTabs'[u] = pendingTabs[u]
      BY <1>7, <2>2 DEF PendingSound
    <3> QED
      BY <1>1, <3>1 DEF TabSound
  <2> QED
    BY <2>1, <2>2
<1>10. ASSUME ~ twice' PROVE Undisturbed'
  <2>1. ~ twice /\ \A u \in PendingTabs \ {t} : pendingTabs[u].op = "none"
    BY <1>10 DEF LoadPending
  <2>2. Undisturbed
    BY <2>1 DEF PendingSound
  <2> QED
    BY <1>1, <1>3, <1>7, <2>1, <2>2 DEF Undisturbed
<1> QED
  BY <1>1, <1>7, <1>8, <1>9, <1>10 DEF PendingSound, Later

LEMMA AbandonKeepsSound ==
    ASSUME PendingSound, NEW t \in PendingTabs, AbandonPending(t)
    PROVE  PendingSound'
<1>1. UNCHANGED <<pendingList, kept, newer, twice>>
  BY DEF AbandonPending
<1>2. NoOperation \in PendingTab /\ NoOperation.op = "none"
  BY DEF NoOperation, PendingTab
<1>3. /\ pendingTabs' \in [PendingTabs -> PendingTab] /\ pendingTabs'[t] = NoOperation
      /\ \A u \in PendingTabs \ {t} : pendingTabs'[u] = pendingTabs[u]
  BY <1>2 DEF AbandonPending, PendingSound
<1>4. ASSUME NEW u \in PendingTabs PROVE TabSound(u)'
  <2>1. CASE u = t
    BY <1>2, <1>3, <2>1 DEF TabSound
  <2>2. CASE u # t
    <3>1. TabSound(u) /\ pendingTabs'[u] = pendingTabs[u]
      BY <1>3, <2>2 DEF PendingSound
    <3> QED
      BY <1>1, <3>1 DEF TabSound
  <2> QED
    BY <2>1, <2>2
<1>5. ASSUME ~ twice' PROVE Undisturbed'
  <2>1. Undisturbed
    BY <1>1, <1>5 DEF PendingSound
  <2> QED
    BY <1>1, <1>2, <1>3, <2>1 DEF Undisturbed
<1> QED
  BY <1>1, <1>3, <1>4, <1>5 DEF PendingSound, Later

\* savePendingWorldTransactions: the tab that writes answers with its own copy, and the
\* others, whose copies miss this write, for one transaction less.
LEMMA SaveKeepsSound ==
    ASSUME PendingSound, NEW t \in PendingTabs, SavePending(t)
    PROVE  PendingSound'
<1>1. PICK o : o = pendingTabs[t]
  OBVIOUS
<1>2. /\ o.op \in {"remember", "forget"} /\ o.signature \in Signatures
      /\ o.missed \subseteq Signatures /\ ListSound(o.read, kept \ o.missed, newer)
  <2>1. o \in PendingTab /\ TabSound(t) /\ o.op # "none"
    BY <1>1 DEF PendingSound, SavePending
  <2> QED
    BY <1>1, <2>1 DEF TabSound, PendingTab
<1>3. PICK known : known = kept \ o.missed
  OBVIOUS
<1>4. /\ known \subseteq Signatures /\ kept \subseteq Signatures /\ Later(newer)
      /\ ListSound(o.read, known, newer)
  BY <1>2, <1>3 DEF PendingSound
<1>5. PICK k : k = kept'
  OBVIOUS
<1>6. k = IF o.op = "remember" THEN known \cup {o.signature} ELSE known \ {o.signature}
  BY <1>1, <1>3, <1>5 DEF SavePending
<1>7. PICK added : added = IF o.op = "remember" THEN {o.signature} ELSE {}
  OBVIOUS
<1>8. PICK more : more = newer'
  OBVIOUS
<1>9. more = [s \in Signatures |->
                 IF s = o.signature \/ s \notin k THEN {} ELSE newer[s] \cup added]
  BY <1>1, <1>5, <1>7, <1>8 DEF SavePending
<1>10. added \subseteq Signatures /\ IsFiniteSet(added)
  <2>1. IsFiniteSet({}) /\ IsFiniteSet({o.signature})
    BY FS_EmptySet, FS_Singleton
  <2> QED
    BY <1>2, <1>7, <2>1
<1>11. Later(more)
  <2>1. ASSUME NEW s \in Signatures
        PROVE  more[s] \subseteq Signatures /\ IsFiniteSet(more[s])
    <3>1. newer[s] \subseteq Signatures /\ IsFiniteSet(newer[s])
      BY <1>4 DEF Later
    <3>2. IsFiniteSet(newer[s] \cup added) /\ IsFiniteSet({})
      BY <1>10, <3>1, FS_Union, FS_EmptySet
    <3>3. more[s] = {} \/ more[s] = newer[s] \cup added
      BY <1>9
    <3> QED
      BY <1>10, <3>1, <3>2, <3>3
  <2>2. more = [s \in Signatures |-> more[s]]
    BY <1>9
  <2>3. more \in [Signatures -> SUBSET Signatures]
    BY <2>1, <2>2
  <2> QED
    BY <2>1, <2>3 DEF Later
<1>12. \A s \in k : s # o.signature => more[s] = newer[s] \cup added /\ s \in known
  BY <1>2, <1>4, <1>6, <1>9
<1>13. k \subseteq Signatures
  BY <1>2, <1>4, <1>6
<1>14. PICK next : next = pendingList'
  OBVIOUS
<1>15. next = IF o.op = "remember" THEN Remembered(o.read, o.signature)
                                   ELSE Forgotten(o.read, o.signature)
  BY <1>1, <1>14 DEF SavePending
<1>16. ListSound(next, k, more)
  <2>1. CASE o.op = "remember"
    <3>1. \A s \in known \ {o.signature} : more[s] = newer[s] \cup {o.signature}
      BY <1>6, <1>7, <1>12, <2>1
    <3>2. next = Remembered(o.read, o.signature) /\ k = known \cup {o.signature}
      BY <1>6, <1>15, <2>1
    <3> QED
      BY <1>2, <1>4, <1>11, <3>1, <3>2, RememberedSound
  <2>2. CASE o.op = "forget"
    <3>1. next = Forgotten(o.read, o.signature) /\ k = known \ {o.signature}
      BY <1>6, <1>15, <2>2
    <3>2. ListSound(next, k, newer)
      BY <1>2, <1>4, <3>1, ForgottenSound
    <3>3. \A s \in k : newer[s] \subseteq more[s]
      BY <1>12, <3>1
    <3> QED
      BY <1>4, <1>11, <1>13, <3>2, <3>3, ListGrows
  <2> QED
    BY <1>2, <2>1, <2>2
<1>17. NoOperation \in PendingTab /\ NoOperation.op = "none"
  BY DEF NoOperation, PendingTab
<1>18. pendingTabs' =
           [u \in PendingTabs |->
               IF u = t \/ pendingTabs[u].op = "none"
               THEN NoOperation
               ELSE [pendingTabs[u] EXCEPT !.missed = @ \cup {o.signature}]]
  BY <1>1 DEF SavePending
<1>19. ASSUME NEW u \in PendingTabs
       PROVE  pendingTabs'[u] \in PendingTab /\ TabSound(u)'
  <2>1. CASE u = t \/ pendingTabs[u].op = "none"
    <3>1. pendingTabs'[u] = NoOperation
      BY <1>18, <2>1
    <3> QED
      BY <1>17, <3>1 DEF TabSound
  <2>2. CASE u # t /\ pendingTabs[u].op # "none"
    <3>1. PICK p : p = pendingTabs[u]
      OBVIOUS
    <3>2. p \in PendingTab /\ TabSound(u)
      BY <3>1 DEF PendingSound
    <3>3. pendingTabs'[u] = [p EXCEPT !.missed = p.missed \cup {o.signature}]
      BY <1>18, <2>2, <3>1
    <3>4. pendingTabs'[u] \in PendingTab
      BY <1>2, <3>2, <3>3 DEF PendingTab
    <3>5. /\ pendingTabs'[u].signature = p.signature
          /\ pendingTabs'[u].read = p.read
          /\ pendingTabs'[u].missed = p.missed \cup {o.signature}
      BY <3>2, <3>3 DEF PendingTab
    <3>6. /\ p.signature \in Signatures
          /\ ListSound(p.read, kept \ p.missed, newer)
      BY <2>2, <3>1, <3>2 DEF TabSound
    <3>7. PICK fewer : fewer = k \ (p.missed \cup {o.signature})
      OBVIOUS
    <3>8. fewer \subseteq kept \ p.missed /\ \A s \in fewer : newer[s] \subseteq more[s]
      BY <1>3, <1>12, <3>7
    <3>9. kept \ p.missed \subseteq Signatures
      BY <1>4
    <3>10. ListSound(p.read, fewer, more)
      BY <1>4, <1>11, <3>6, <3>8, <3>9, ListGrows
    <3> QED
      BY <1>5, <1>8, <3>4, <3>5, <3>6, <3>7, <3>10 DEF TabSound
  <2> QED
    BY <2>1, <2>2
<1>20. pendingTabs' \in [PendingTabs -> PendingTab]
  <2>1. pendingTabs' = [u \in PendingTabs |-> pendingTabs'[u]]
    BY <1>18
  <2> QED
    BY <1>19, <2>1
<1>21. ASSUME ~ twice' PROVE Undisturbed'
  <2>1. Undisturbed
    BY <1>21 DEF SavePending, PendingSound
  <2>2. o.op # "none"
    BY <1>2
  <2>3. o.missed = {} /\ o.read = pendingList /\ \A u \in PendingTabs \ {t} : pendingTabs[u].op = "none"
    BY <1>1, <2>1, <2>2 DEF Undisturbed
  <2>4. \A u \in PendingTabs : pendingTabs'[u].op = "none"
    BY <1>17, <1>18, <2>3
  <2>5. o.read \in Seq(Signatures) /\ known = kept
    BY <1>2, <1>3, <2>3 DEF ListSound
  <2>6. ASSUME NEW i \in 1 .. Len(next) PROVE next[i] \in k
    <3>1. \A p \in 1 .. Len(o.read) : o.read[p] \in known
      BY <2>1, <2>3, <2>5 DEF Undisturbed
    <3>2. CASE o.op = "remember"
      <4>1. next = Remembered(o.read, o.signature) /\ k = known \cup {o.signature}
        BY <1>6, <1>15, <3>2
      <4>2. next[i] = o.signature \/ \E p \in 1 .. Len(o.read) : next[i] = o.read[p]
        BY <1>2, <2>5, <2>6, <4>1, RememberedFrom
      <4> QED
        BY <3>1, <4>1, <4>2
    <3>3. CASE o.op = "forget"
      <4>1. next = Forgotten(o.read, o.signature) /\ k = known \ {o.signature}
        BY <1>6, <1>15, <3>3
      <4>2. next[i] # o.signature /\ \E p \in 1 .. Len(o.read) : next[i] = o.read[p]
        BY <1>2, <2>5, <2>6, <4>1, ForgottenFrom
      <4> QED
        BY <3>1, <4>1, <4>2
    <3> QED
      BY <1>2, <3>2, <3>3
  <2> QED
    BY <1>5, <1>14, <2>4, <2>6 DEF Undisturbed
<1> QED
  BY <1>5, <1>8, <1>11, <1>13, <1>14, <1>16, <1>19, <1>20, <1>21 DEF PendingSound, Later

\* Every step keeps the invariant.
LEMMA PendingStep == PendingSound /\ [PendingNext]_pendingVars => PendingSound'
<1> SUFFICES ASSUME PendingSound, [PendingNext]_pendingVars PROVE PendingSound'
  OBVIOUS
<1>1. CASE UNCHANGED pendingVars
  BY <1>1 DEF pendingVars, PendingSound, TabSound, Undisturbed, Later, ListSound
<1>2. CASE PendingNext
  <2>1. PICK t \in PendingTabs :
           \/ \E op \in {"remember", "forget"}, s \in Signatures : LoadPending(t, op, s)
           \/ SavePending(t)
           \/ AbandonPending(t)
    BY <1>2 DEF PendingNext
  <2> QED
    BY <2>1, LoadKeepsSound, SaveKeepsSound, AbandonKeepsSound
<1> QED
  BY <1>1, <1>2

\* pending-transactions.ts: a transaction that was written down is listed until it is
\* forgotten or MaxPending newer ones have come, whatever tabs write in between, but for
\* those a write of a tab that had read before them loses; none is listed twice.
THEOREM EvidenceIsListed == PendingSpec => []EvidenceStaysListed
<1>1. PendingInit => PendingSound
  BY PendingStarts
<1>2. PendingSound /\ [PendingNext]_pendingVars => PendingSound'
  BY PendingStep
<1>3. PendingSound => EvidenceStaysListed
  <2> SUFFICES ASSUME PendingSound PROVE EvidenceStaysListed
    OBVIOUS
  <2>1. ListSound(pendingList, kept, newer)
    BY DEF PendingSound
  <2>2. DOMAIN pendingList = 1 .. Len(pendingList)
    BY <2>1 DEF ListSound
  <2>3. ASSUME NEW s \in kept, Cardinality(newer[s]) < MaxPending
        PROVE  s \in Range(pendingList)
    BY <2>1, <2>2, <2>3 DEF ListSound, Range
  <2>4. ASSUME NEW i \in DOMAIN pendingList, NEW j \in DOMAIN pendingList, i < j
        PROVE  /\ pendingList[i] # pendingList[j]
               /\ ~ twice => pendingList[i] \in newer[pendingList[j]]
    <3>1. ~ twice => pendingList[j] \in kept
      BY <2>2 DEF PendingSound, Undisturbed
    <3> QED
      BY <2>1, <2>2, <2>4, <3>1 DEF ListSound
  <2> QED
    BY <2>3, <2>4 DEF EvidenceStaysListed
<1> QED
  BY <1>1, <1>2, <1>3, PTL DEF PendingSpec

-----------------------------------------------------------------------------
(* MCWorlds: the types of the composition.  What is left to a type beside the *)
(* invariants above is bounds, and what only the page and the catalog keep.   *)

\* The clock stands at its bound, and nothing is remembered beyond it.
AccessTyped ==
    AccessSound /\ now \in Time /\ metrics.expires \in Never .. MaxTime + MetricsTtl

LEMMA AccessTypedStarts == AccessInit => AccessTyped
<1> SUFFICES ASSUME AccessInit PROVE AccessTyped
  OBVIOUS
<1>1. AccessSound
  BY AccessStarts
<1>2. now \in Time
  BY ClockAssumption DEF AccessInit, Time
<1>3. metrics.expires = Never
  BY DEF AccessInit, NoMetrics
<1>4. Never \in Int /\ Never <= MaxTime + MetricsTtl /\ MaxTime + MetricsTtl \in Int
  BY ClockAssumption, FoundingAssumption DEF Never
<1> QED
  BY <1>1, <1>2, <1>3, <1>4 DEF AccessTyped

LEMMA AccessTypedStep == AccessTyped /\ [AccessNext]_accessVars => AccessTyped'
<1> SUFFICES ASSUME AccessTyped, [AccessNext]_accessVars PROVE AccessTyped'
  OBVIOUS
<1>1. AccessSound'
  BY AccessStep DEF AccessTyped
<1>2. CASE AccessTick
  <2>1. now \in Int /\ now < MaxTime /\ now' = now + 1 /\ metrics' = metrics
    BY <1>2, ClockAssumption DEF AccessTick, AccessTyped, Time
  <2> QED
    BY <1>1, <2>1, ClockAssumption DEF AccessTyped, Time
<1>3. CASE \E v \in Visitors : ReceiveMetrics(v)
  <2>1. now' = now /\ metrics'.expires = now + MetricsTtl
    BY <1>3 DEF ReceiveMetrics
  <2>2. now \in 0 .. MaxTime /\ MaxTime \in Nat
    BY ClockAssumption DEF AccessTyped, Time
  <2>3. now + MetricsTtl \in Never .. MaxTime + MetricsTtl
    BY <2>2, FoundingAssumption DEF Never
  <2> QED
    BY <1>1, <2>1, <2>3 DEF AccessTyped
<1>4. CASE UNCHANGED <<now, metrics>>
  BY <1>1, <1>4 DEF AccessTyped
<1> QED
  BY <1>2, <1>3, <1>4 DEF AccessNext, TurnAway, Identify, CountFollowers,
     MetricsUnavailable, Leave, FollowersChange, Rename, accessVars, visitVars

-----------------------------------------------------------------------------
\* The page shows a verdict exactly when its request is complete.
CoinTyped ==
    /\ CoinSound
    /\ Len(coin) <= MaxCoinSlot
    /\ inspection.mintSlot \in 0 .. Len(coin) /\ inspection.curveSlot \in 0 .. Len(coin)
    /\ inspection.stage = "answered" => inspection.verdict # NoVerdict
    /\ checker.shown # NoVerdict <=> checker.state = "complete"

LEMMA CoinTypedStarts == CoinInit => CoinTyped
<1> SUFFICES ASSUME CoinInit PROVE CoinTyped
  OBVIOUS
<1>1. CoinSound
  BY CoinStarts
<1>2. Len(coin) = 1
  BY DEF CoinInit
<1>3. checker.state = "idle" /\ checker.shown = NoVerdict
  BY DEF CoinInit
<1>4. inspection.mintSlot = 0 /\ inspection.curveSlot = 0 /\ inspection.stage = "none"
  BY DEF CoinInit, NoInspection
<1> QED
  BY <1>1, <1>2, <1>3, <1>4, CoinAssumption DEF CoinTyped

\* A chain that grows leaves the page and its request as they are.
LEMMA GrownCoin ==
    ASSUME CoinTyped, CoinSound', Len(coin) < MaxCoinSlot, Len(coin') = Len(coin) + 1,
           UNCHANGED <<checker, inspection>>
    PROVE  CoinTyped'
<1>1. Len(coin) \in Nat /\ MaxCoinSlot \in Nat
  BY CoinAssumption DEF CoinTyped, CoinSound, CoinChainSound
<1> QED
  BY <1>1 DEF CoinTyped, NoVerdict

LEMMA CoinTypedStep == CoinTyped /\ [CoinNext]_coinVars => CoinTyped'
<1> SUFFICES ASSUME CoinTyped, [CoinNext]_coinVars PROVE CoinTyped'
  OBVIOUS
<1>1. CoinSound' /\ CoinSound
  BY CoinStep DEF CoinTyped
<1>2. Len(coin) \in Nat /\ Len(coin) <= MaxCoinSlot
  BY <1>1 DEF CoinSound, CoinChainSound, CoinTyped
<1>3. ASSUME NEW e, NewSlot(e) PROVE CoinTyped'
  <2>1. /\ Len(coin) < MaxCoinSlot /\ coin' = Append(coin, e)
        /\ UNCHANGED <<checker, inspection>>
    BY <1>3 DEF NewSlot
  <2>2. Len(coin') = Len(coin) + 1
    BY <1>1, <2>1 DEF CoinSound, CoinChainSound
  <2> QED
    BY <1>1, <2>1, <2>2, GrownCoin
<1>4. CASE UNCHANGED coinVars
  BY <1>1, <1>4 DEF coinVars, CoinTyped
<1>5. ASSUME NEW plausible \in BOOLEAN, SubmitMint(plausible) PROVE CoinTyped'
  <2>1. /\ checker'.shown = NoVerdict /\ checker'.state # "complete" /\ coin' = coin
        /\ inspection'.stage \in {"none", "asked"}
        /\ inspection'.mintSlot = 0 /\ inspection'.curveSlot = 0
    BY <1>5 DEF SubmitMint, NoInspection
  <2> QED
    BY <1>1, <1>2, <2>1 DEF CoinTyped
<1>6. CASE InspectionLost
  <2>1. /\ checker'.shown = NoVerdict /\ checker'.state # "complete" /\ coin' = coin
        /\ inspection'.stage = "none"
        /\ inspection'.mintSlot = 0 /\ inspection'.curveSlot = 0
    BY <1>6 DEF InspectionLost, NoInspection
  <2> QED
    BY <1>1, <1>2, <2>1 DEF CoinTyped
<1>7. CASE ShowVerdict
  <2>1. /\ checker'.state = "complete" /\ checker'.shown = inspection.verdict
        /\ inspection.stage = "answered" /\ inspection' = inspection /\ coin' = coin
    BY <1>7 DEF ShowVerdict
  <2> QED
    BY <1>1, <2>1 DEF CoinTyped
<1>8. ASSUME NEW v, v # NoVerdict, inspection' = Conclude(v), UNCHANGED <<coin, checker>>
      PROVE  CoinTyped'
  <2>1. PICK q : q = inspection
    OBVIOUS
  <2>2. q \in Inspections
    BY <1>1, <2>1 DEF CoinSound, InspectionSound
  <2>3. /\ inspection'.verdict = v
        /\ inspection'.mintSlot = q.mintSlot /\ inspection'.curveSlot = q.curveSlot
    BY <1>8, <2>1, <2>2 DEF Conclude, Inspections
  <2> QED
    BY <1>1, <1>8, <2>1, <2>3 DEF CoinTyped
<1>9. CASE InspectionUnverified
  BY <1>8, <1>9 DEF InspectionUnverified, NoVerdict
<1>10. ASSUME NEW slot \in 1 .. Len(coin), ReadMint(slot) PROVE CoinTyped'
  <2>1. CASE CoinMintReadable(coin[slot].mint)
    <3>1. PICK q : q = inspection
      OBVIOUS
    <3>2. q \in Inspections
      BY <1>1, <3>1 DEF CoinSound, InspectionSound
    <3>3. /\ inspection' = [q EXCEPT !.stage = "classified", !.mintSlot = slot]
          /\ UNCHANGED <<coin, checker>>
      BY <1>10, <2>1, <3>1 DEF ReadMint
    <3>4. /\ inspection'.stage = "classified" /\ inspection'.mintSlot = slot
          /\ inspection'.curveSlot = q.curveSlot
      BY <3>2, <3>3 DEF Inspections
    <3> QED
      BY <1>1, <1>2, <3>1, <3>3, <3>4 DEF CoinTyped
  <2>2. CASE ~ CoinMintReadable(coin[slot].mint)
    BY <1>8, <1>10, <2>2 DEF ReadMint, NoVerdict
  <2> QED
    BY <2>1, <2>2
<1>11. ASSUME NEW slot \in 1 .. Len(coin), ReadCurve(slot) PROVE CoinTyped'
  <2>1. PICK q, v : /\ q = inspection
                    /\ v = CoinVerdict(coin[q.mintSlot].mint, coin[slot].curve, coin[slot].tokens)
    OBVIOUS
  <2>2. v # NoVerdict
    BY <2>1 DEF CoinVerdict, NoVerdict
  <2>3. q \in Inspections
    BY <1>1, <2>1 DEF CoinSound, InspectionSound
  <2>4. PICK r : r = [q EXCEPT !.stage = "answered", !.verdict = v]
    OBVIOUS
  <2>5. /\ inspection' = [r EXCEPT !.curveSlot = slot]
        /\ UNCHANGED <<coin, checker>>
    BY <1>11, <2>1, <2>4 DEF ReadCurve, Conclude
  <2>6. /\ r.verdict = v /\ r.mintSlot = q.mintSlot
        /\ DOMAIN r = {"stage", "mintSlot", "curveSlot", "verdict"}
    BY <2>3, <2>4 DEF Inspections
  <2>7. /\ inspection'.verdict = v /\ inspection'.mintSlot = q.mintSlot
        /\ inspection'.curveSlot = slot
    BY <2>5, <2>6
  <2> QED
    BY <1>1, <1>2, <2>1, <2>2, <2>5, <2>7 DEF CoinTyped
<1> QED
  BY <1>3, <1>4, <1>5, <1>6, <1>7, <1>9, <1>10, <1>11 DEF CoinNext, PumpCreates,
     CreatedElsewhere, LamportsToCurve, TokensToCurve, Graduate

-----------------------------------------------------------------------------
\* A host holds one digest or nothing, what was signed is one digest, and a request has
\* read slots the chain had.
ArtifactsTyped ==
    /\ host = Nothing \/ \E digest : host = <<digest>>
    /\ \A entry \in reviewed : Len(entry[2]) = 1

RequestTyped ==
    /\ request.stage \in {"rows", "artifact", "program", "state", "gate", "answered"}
    /\ request.program \in 0 .. Len(ledger) /\ request.state \in 0 .. Len(ledger)

CatalogTyped == CatalogSound /\ ArtifactsTyped /\ RequestTyped

LEMMA CatalogTypedStarts == CatalogInit => CatalogTyped
<1> SUFFICES ASSUME CatalogInit PROVE CatalogTyped
  OBVIOUS
<1>1. CatalogSound
  BY CatalogStarts
<1>2. ASSUME NEW entry \in reviewed PROVE Len(entry[2]) = 1
  <2>1. PICK a \in Range(row.manifest.covenant.approvals) :
           a.state = "genuine" /\ entry = <<a.signer, a.signature.sha>>
    BY <1>2 DEF CatalogInit
  <2>2. Len(a.signature.sha) = 1
    BY <2>1, CatalogAssumption DEF CatalogInit
  <2> QED
    BY <2>1, <2>2
<1>3. host = Nothing \/ \E digest : host = <<digest>>
  BY DEF CatalogInit, DigestOf
<1>4. RequestTyped
  <2>1. Len(ledger) \in Nat
    BY <1>1 DEF CatalogSound, LedgerSound, IsSequence
  <2>2. request.stage = "answered" /\ request.program = 0 /\ request.state = 0
    BY DEF CatalogInit, NoRequest
  <2> QED
    BY <2>1, <2>2 DEF RequestTyped
<1> QED
  BY <1>1, <1>2, <1>3, <1>4 DEF CatalogTyped, ArtifactsTyped

\* A request that goes on, or ends, while everything else rests.
LEMMA VerifiedTyped ==
    ASSUME CatalogTyped,
           \/ \E kind \in {"list", "detail"}, slug \in Slugs : Ask(kind, slug)
           \/ NotConfigured \/ RowsUnavailable \/ Verify
    PROVE  RequestTyped' /\ UNCHANGED <<host, reviewed>>
<1>1. /\ DOMAIN request = {"kind", "slug", "stage", "manifest", "program", "state", "answer"}
      /\ Len(ledger) \in Nat
      /\ request.program \in 0 .. Len(ledger) /\ request.state \in 0 .. Len(ledger)
  BY DEF CatalogTyped, CatalogSound, RequestSound, LedgerSound, IsSequence, RequestTyped
<1>2. Unchanged
  BY DEF Ask, NotConfigured, RowsUnavailable, Verify, RowsEmpty, RowRefused, RowAccepted,
         ReadArtifact, ReadProgram, ReadState, ReadFails, Gate
<1>3. UNCHANGED <<host, reviewed, ledger>>
  BY <1>2 DEF Unchanged
<1>4. CASE request'.stage = "answered" /\ request'.program = 0 /\ request'.state = 0
  BY <1>1, <1>3, <1>4 DEF RequestTyped
<1>5. ASSUME NEW kind, NEW slug, Ask(kind, slug)
      PROVE  RequestTyped'
  <2>1. request'.stage = "rows" /\ request'.program = 0 /\ request'.state = 0
    BY <1>5 DEF Ask, NoRequest
  <2> QED
    BY <1>1, <1>3, <2>1 DEF RequestTyped
<1>6. CASE RowAccepted
  <2>1. /\ request'.stage = "artifact"
        /\ request'.program = request.program /\ request'.state = request.state
    BY <1>1, <1>6 DEF RowAccepted
  <2> QED
    BY <1>1, <1>3, <2>1 DEF RequestTyped
<1>7. CASE ReadArtifact
  <2>1. CASE request' = [request EXCEPT !.stage = "program"]
    <3>1. /\ request'.stage = "program"
          /\ request'.program = request.program /\ request'.state = request.state
      BY <1>1, <2>1
    <3> QED
      BY <1>1, <1>3, <3>1 DEF RequestTyped
  <2> QED
    BY <1>4, <1>7, <2>1 DEF ReadArtifact, Answer, NoRequest
<1>8. ASSUME NEW slot \in 1 .. Len(ledger), ReadProgram(slot)
      PROVE  RequestTyped'
  <2>1. CASE request' = [request EXCEPT !.stage = "state", !.program = slot]
    <3>1. /\ request'.stage = "state" /\ request'.program = slot
          /\ request'.state = request.state
      BY <1>1, <2>1
    <3> QED
      BY <1>1, <1>3, <3>1 DEF RequestTyped
  <2> QED
    BY <1>4, <1>8, <2>1 DEF ReadProgram, Answer, NoRequest
<1>9. ASSUME NEW slot \in 1 .. Len(ledger), ReadState(slot)
      PROVE  RequestTyped'
  <2>1. CASE request' = [request EXCEPT !.stage = "gate", !.state = slot]
    <3>1. /\ request'.stage = "gate" /\ request'.state = slot
          /\ request'.program = request.program
      BY <1>1, <2>1
    <3> QED
      BY <1>1, <1>3, <3>1 DEF RequestTyped
  <2> QED
    BY <1>4, <1>9, <2>1 DEF ReadState, Answer, NoRequest
<1>10. CASE NotConfigured
  BY <1>4, <1>10 DEF NotConfigured, Answer, NoRequest
<1>11. CASE RowsUnavailable
  BY <1>4, <1>11 DEF RowsUnavailable, Answer, NoRequest
<1>12. CASE RowsEmpty \/ RowRefused \/ ReadFails
  BY <1>4, <1>12 DEF RowsEmpty, RowRefused, ReadFails, Answer, NoRequest
<1>13. CASE Gate
  BY <1>4, <1>13 DEF Gate, Answer, NoRequest
<1> QED
  BY <1>3, <1>5, <1>6, <1>7, <1>8, <1>9, <1>10, <1>11, <1>12, <1>13 DEF Verify

\* The row, the artifact and the chain: an edit leaves the request, and a chain only grows.
LEMMA OutsideTyped ==
    ASSUME CatalogTyped, Outside
    PROVE  RequestTyped' /\ ArtifactsTyped'
<1>1. Len(ledger) \in Nat /\ IsSequence(ledger)
  BY DEF CatalogTyped, CatalogSound, LedgerSound, IsSequence
<1>2. ASSUME NEW entry, Extend(entry)
      PROVE  RequestTyped' /\ ArtifactsTyped'
  <2>1. /\ ledger' = Append(ledger, entry)
        /\ UNCHANGED <<host, reviewed, request>>
    BY <1>2 DEF Extend
  <2>2. Len(ledger') = Len(ledger) + 1
    BY <1>1, <2>1, Appended
  <2> QED
    BY <1>1, <2>1, <2>2 DEF CatalogTyped, ArtifactsTyped, RequestTyped
<1>3. CASE PublishArtifact
  <2>1. host' = DigestOf(row.manifest) /\ UNCHANGED <<reviewed, ledger, request>>
    BY <1>3 DEF PublishArtifact
  <2> QED
    BY <2>1 DEF CatalogTyped, ArtifactsTyped, RequestTyped, DigestOf
<1>4. CASE Seal \/ \E text \in Texts : EditText(text)
  <2>1. UNCHANGED <<host, reviewed, ledger, request>>
    BY <1>4 DEF Seal, EditText, Rewrite
  <2> QED
    BY <2>1 DEF CatalogTyped, ArtifactsTyped, RequestTyped
<1>5. ASSUME NEW signer, Sign(signer)
      PROVE  RequestTyped' /\ ArtifactsTyped'
  <2>1. /\ host # Nothing /\ reviewed' = reviewed \cup {<<signer, host>>}
        /\ UNCHANGED <<host, ledger, request>>
    BY <1>5 DEF Sign, Rewrite
  <2>2. Len(host) = 1
    BY <2>1 DEF CatalogTyped, ArtifactsTyped
  <2> QED
    BY <2>1, <2>2 DEF CatalogTyped, ArtifactsTyped, RequestTyped
<1> QED
  BY <1>2, <1>3, <1>4, <1>5 DEF Outside, UpgradeProgram, ReconfigureRecipe, BurnCoins

LEMMA CatalogTypedStep == CatalogTyped /\ [CatalogNext]_catalogVars => CatalogTyped'
<1> SUFFICES ASSUME CatalogTyped, [CatalogNext]_catalogVars PROVE CatalogTyped'
  OBVIOUS
<1>1. CatalogSound'
  BY CatalogStep DEF CatalogTyped
<1>2. CASE UNCHANGED catalogVars
  BY <1>1, <1>2 DEF catalogVars, CatalogTyped, ArtifactsTyped, RequestTyped
<1>3. CASE Outside
  BY <1>1, <1>3, OutsideTyped DEF CatalogTyped
<1>4. CASE \/ \E kind \in {"list", "detail"}, slug \in Slugs : Ask(kind, slug)
           \/ NotConfigured \/ RowsUnavailable \/ Verify
  <2>1. RequestTyped' /\ UNCHANGED <<host, reviewed>>
    BY <1>4, VerifiedTyped
  <2> QED
    BY <1>1, <2>1 DEF CatalogTyped, ArtifactsTyped
<1> QED
  BY <1>2, <1>3, <1>4 DEF CatalogNext

-----------------------------------------------------------------------------
\* The list, and what a tab has read of it, keep the bound: a longer list is cut.
PendingTyped ==
    /\ PendingSound
    /\ Len(pendingList) <= MaxPending
    /\ \A t \in PendingTabs : Len(pendingTabs[t].read) <= MaxPending

LEMMA WrittenBackFits ==
    ASSUME NEW list \in Seq(Signatures), Len(list) <= MaxPending, NEW signature \in Signatures
    PROVE  /\ Len(Forgotten(list, signature)) <= MaxPending
           /\ Len(Remembered(list, signature)) <= MaxPending
<1>1. PICK rest, full, n : /\ rest = Without(list, signature)
                           /\ full = <<signature>> \o rest
                           /\ n = Min({Len(full), MaxPending})
  OBVIOUS
<1>2. PICK keep : keep = Signatures \ {signature}
  OBVIOUS
<1>3. Filtered(rest, list, keep, Len(list), Signatures)
  BY <1>1, <1>2, OnlyFilters DEF Without
<1>4. rest \in Seq(Signatures) /\ Len(rest) \in Nat /\ Len(rest) <= Len(list)
  BY <1>3 DEF Filtered
<1>5. MaxPending \in Nat \ {0} /\ Len(list) \in Nat
  BY PendingAssumption
<1>6. full \in Seq(Signatures) /\ Len(full) = Len(rest) + 1
  BY <1>1, <1>4
<1>7. n \in Nat /\ n <= MaxPending /\ n <= Len(full)
  <2>1. Len(full) \in Nat
    BY <1>4, <1>6
  <2>2. \E m \in {Len(full), MaxPending} : \A k \in {Len(full), MaxPending} : m <= k
    BY <1>5, <2>1
  <2>3. n \in {Len(full), MaxPending} /\ \A k \in {Len(full), MaxPending} : n <= k
    BY <1>1, <2>2 DEF Min
  <2> QED
    BY <1>5, <2>1, <2>3
<1>8. Len(SubSeq(full, 1, n)) = n
  BY <1>4, <1>6, <1>7
<1>9. Forgotten(list, signature) = rest /\ Remembered(list, signature) = SubSeq(full, 1, n)
  BY <1>1 DEF Forgotten, Remembered
<1> QED
  BY <1>4, <1>5, <1>7, <1>8, <1>9

LEMMA PendingTypedStep == PendingTyped /\ [PendingNext]_pendingVars => PendingTyped'
<1> SUFFICES ASSUME PendingTyped, [PendingNext]_pendingVars PROVE PendingTyped'
  OBVIOUS
<1>1. PendingSound /\ PendingSound'
  BY PendingStep DEF PendingTyped
<1>2. CASE UNCHANGED pendingVars
  BY <1>1, <1>2 DEF pendingVars, PendingTyped
<1>3. CASE PendingNext
  <2>1. PICK t \in PendingTabs :
           \/ \E op \in {"remember", "forget"}, s \in Signatures : LoadPending(t, op, s)
           \/ SavePending(t)
           \/ AbandonPending(t)
    BY <1>3 DEF PendingNext
  <2>2. /\ pendingTabs \in [PendingTabs -> PendingTab]
        /\ Len(NoOperation.read) <= MaxPending
    BY <1>1, PendingAssumption DEF PendingSound, NoOperation
  <2>3. ASSUME NEW op, NEW s, LoadPending(t, op, s)
        PROVE  PendingTyped'
    <3>1. /\ pendingTabs'[t].read = pendingList
          /\ \A u \in PendingTabs \ {t} : pendingTabs'[u] = pendingTabs[u]
          /\ pendingList' = pendingList
      BY <2>2, <2>3 DEF LoadPending
    <3> QED
      BY <1>1, <3>1 DEF PendingTyped
  <2>4. CASE AbandonPending(t)
    <3>1. /\ pendingTabs'[t] = NoOperation
          /\ \A u \in PendingTabs \ {t} : pendingTabs'[u] = pendingTabs[u]
          /\ pendingList' = pendingList
      BY <2>2, <2>4 DEF AbandonPending
    <3> QED
      BY <1>1, <2>2, <3>1 DEF PendingTyped
  <2>5. CASE SavePending(t)
    <3>1. PICK list, s : list = pendingTabs[t].read /\ s = pendingTabs[t].signature
      OBVIOUS
    <3>2. list \in Seq(Signatures) /\ Len(list) <= MaxPending /\ s \in Signatures
      BY <1>1, <2>2, <2>5, <3>1 DEF PendingTyped, PendingSound, TabSound, PendingTab, SavePending
    <3>3. pendingList' \in {Remembered(list, s), Forgotten(list, s)}
      BY <2>5, <3>1 DEF SavePending
    <3>4. Len(pendingList') <= MaxPending
      BY <3>2, <3>3, WrittenBackFits
    <3>5. ASSUME NEW u \in PendingTabs
          PROVE  pendingTabs'[u].read \in {NoOperation.read, pendingTabs[u].read}
      <4>1. pendingTabs'[u] = (IF u = t \/ pendingTabs[u].op = "none"
                               THEN NoOperation
                               ELSE [pendingTabs[u] EXCEPT !.missed = @ \cup {s}])
        BY <2>5, <3>1 DEF SavePending
      <4>2. pendingTabs[u] \in PendingTab
        BY <2>2
      <4> QED
        BY <4>1, <4>2 DEF PendingTab
    <3> QED
      BY <1>1, <2>2, <3>4, <3>5 DEF PendingTyped
  <2> QED
    BY <2>1, <2>3, <2>4, <2>5
<1> QED
  BY <1>2, <1>3

-----------------------------------------------------------------------------
(* MCWorlds: the composition.                                                 *)

\* Of the component that is active, the invariant its theorems rest on holds.
ActiveSound ==
    /\ component = "catalog" => CatalogTyped
    /\ component = "canary" => CanarySound
    /\ component = "pending" => PendingTyped
    /\ component = "access" => AccessTyped
    /\ component = "coin" => CoinTyped
    /\ component = "rehearsal" => RehearsalSound
    /\ component = "api" => now \in Time /\ GuardTypeOK

\* Whichever component a behaviour runs, its state has its type: a host holds a digest
\* at most, no read is of a slot the chain does not have, a list keeps its bound, a
\* verdict is shown exactly when a request is complete, and the limiter's map has no
\* keys but its own.
THEOREM WorldsTypeCorrect == Spec => []WorldsTypeOK
<1>1. Init => ActiveSound
  <2> SUFFICES ASSUME Init PROVE ActiveSound
    OBVIOUS
  <2>1. component = "catalog" => CatalogTyped
    BY CatalogTypedStarts DEF Init, CatalogStart
  <2>2. component = "canary" => CanarySound
    BY CanaryStartsSound DEF Init, CanaryStart
  <2>3. PendingTyped /\ CoinTyped /\ RehearsalSound
    <3>1. PendingTyped
      BY PendingStarts, PendingAssumption DEF Init, PendingInit, NoOperation, PendingTyped
    <3> QED
      BY <3>1, CoinTypedStarts, RehearsalStarts DEF Init
  <2>4. AccessTyped
    BY AccessTypedStarts DEF Init, AccessParked
  <2>5. GuardTypeOK
    <3>1. GuardInit
      BY DEF Init, ApiInit
    <3>2. /\ buckets = [k \in {} |-> 0] /\ operations = 0
          /\ granted = [s \in Scope |-> [t \in Time |-> 0]]
      BY <3>1 DEF GuardInit
    <3>3. DOMAIN buckets = {}
      BY <3>2
    <3>4. operations \in 0 .. PruneEvery - 1
      BY <3>2, GuardAssumption
    <3>5. granted \in [Scope -> [Time -> Nat]]
      BY <3>2
    <3> QED
      BY <3>3, <3>4, <3>5 DEF GuardTypeOK
  <2>6. now \in Time
    BY <2>4 DEF AccessTyped
  <2> QED
    BY <2>1, <2>2, <2>3, <2>4, <2>5, <2>6 DEF ActiveSound
<1>2. ActiveSound /\ [Next]_vars => ActiveSound'
  <2> SUFFICES ASSUME ActiveSound, [Next]_vars PROVE ActiveSound'
    OBVIOUS
  <2>1. component' = component
    BY DEF Next, vars, Catalog, Canary, Custody, Pending, Access, Coin, Rehearsal, Calling
  <2>2. CASE component = "catalog"
    <3>1. [CatalogNext]_catalogVars
      BY <2>2 DEF Next, vars, Catalog, Canary, Custody, Pending, Access, Coin, Rehearsal, Calling
    <3> QED
      BY <2>1, <2>2, <3>1, CatalogTypedStep DEF ActiveSound
  <2>3. CASE component = "canary"
    <3>1. [CanaryNext]_canaryVars
      BY <2>3 DEF Next, vars, Catalog, Canary, Custody, Pending, Access, Coin, Rehearsal, Calling
    <3> QED
      BY <2>1, <2>3, <3>1, CanaryStep DEF ActiveSound
  <2>4. CASE component = "pending"
    <3>1. [PendingNext]_pendingVars
      BY <2>4 DEF Next, vars, Catalog, Canary, Custody, Pending, Access, Coin, Rehearsal, Calling
    <3> QED
      BY <2>1, <2>4, <3>1, PendingTypedStep DEF ActiveSound
  <2>5. CASE component = "access"
    <3>1. [AccessNext]_accessVars
      BY <2>5 DEF Next, vars, Catalog, Canary, Custody, Pending, Access, Coin, Rehearsal, Calling
    <3> QED
      BY <2>1, <2>5, <3>1, AccessTypedStep DEF ActiveSound
  <2>6. CASE component = "coin"
    <3>1. [CoinNext]_coinVars
      BY <2>6 DEF Next, vars, Catalog, Canary, Custody, Pending, Access, Coin, Rehearsal, Calling
    <3> QED
      BY <2>1, <2>6, <3>1, CoinTypedStep DEF ActiveSound
  <2>7. CASE component = "rehearsal"
    <3>1. [RehearsalNext]_rehearsalVars
      BY <2>7 DEF Next, vars, Catalog, Canary, Custody, Pending, Access, Coin, Rehearsal, Calling
    <3> QED
      BY <2>1, <2>7, <3>1, RehearsalStep DEF ActiveSound
  <2>8. CASE component = "api"
    <3>1. ApiNext \/ UNCHANGED <<now, apiVars>>
      BY <2>8 DEF Next, vars, Catalog, Canary, Custody, Pending, Access, Coin, Rehearsal,
                  Calling, accessVars
    <3>2. now \in Time /\ GuardTypeOK
      BY <2>8 DEF ActiveSound
    <3>3. CASE ApiTick \/ UNCHANGED <<now, apiVars>>
      <4>1. now' \in Time
        BY <3>2, <3>3, ApiAssumption, ClockAssumption DEF ApiTick, Time
      <4>2. UNCHANGED guardVars
        BY <3>3 DEF ApiTick, apiVars
      <4>3. GuardTypeOK'
        BY <3>2, <4>2 DEF guardVars, GuardTypeOK
      <4> QED
        BY <2>1, <2>8, <4>1, <4>3 DEF ActiveSound
    <3>4. ASSUME NEW s \in Scope, NEW c \in Client, CallApi(s, c)
          PROVE  ActiveSound'
      <4>1. now' = now /\ GuardTypeOK'
        BY <3>2, <3>4, GuardTyped DEF CallApi
      <4> QED
        BY <2>1, <2>8, <3>2, <4>1 DEF ActiveSound
    <3> QED
      BY <3>1, <3>3, <3>4 DEF ApiNext
  <2> QED
    BY <2>1, <2>2, <2>3, <2>4, <2>5, <2>6, <2>7, <2>8 DEF ActiveSound
<1>3. ActiveSound => WorldsTypeOK
  <2> SUFFICES ASSUME ActiveSound PROVE WorldsTypeOK
    OBVIOUS
  <2>1. ASSUME CatalogTyped PROVE CatalogTypeOK
    <3>1. Len(host) <= 1
      <4>1. CASE host = Nothing
        BY <4>1 DEF Nothing
      <4>2. ASSUME NEW digest, host = <<digest>> PROVE Len(host) <= 1
        BY <4>2
      <4> QED
        BY <2>1, <4>1, <4>2 DEF CatalogTyped, ArtifactsTyped
    <3>2. Len(ledger) \in Nat
      BY <2>1 DEF CatalogTyped, CatalogSound, LedgerSound, IsSequence
    <3>3. request.program <= Len(ledger) /\ request.state <= Len(ledger)
      BY <2>1, <3>2 DEF CatalogTyped, RequestTyped
    <3> QED
      BY <2>1, <3>1, <3>3 DEF CatalogTyped, CatalogSound, RowSound, LedgerSound,
         ArtifactsTyped, RequestTyped, CatalogTypeOK
  <2>2. ASSUME CanarySound PROVE CanaryTypeOK
    BY <2>2 DEF CanarySound, DevnetSound, QuerySound, Queries, CanaryTypeOK
  <2>3. ASSUME PendingTyped PROVE PendingTypeOK
    <3>1. Range(pendingList) \subseteq Signatures
      BY <2>3 DEF PendingTyped, PendingSound, ListSound, Range
    <3> QED
      BY <2>3, <3>1 DEF PendingTyped, PendingSound, PendingTab, PendingTypeOK
  <2>4. ASSUME AccessTyped PROVE AccessTypeOK
    BY <2>4 DEF AccessTyped, AccessSound, VisitsSound, Stages, AccessTypeOK
  <2>5. ASSUME CoinTyped PROVE CoinTypeOK
    BY <2>5 DEF CoinTyped, CoinSound, CoinChainSound, InspectionSound, CoinTypeOK
  <2>6. ASSUME RehearsalSound PROVE RehearsalTypeOK
    BY <2>6 DEF RehearsalSound, ConsoleSound, CallsSound, Calls, RehearsalTypeOK
  <2> QED
    BY <2>1, <2>2, <2>3, <2>4, <2>5, <2>6 DEF ActiveSound, WorldsTypeOK
<1> QED
  BY <1>1, <1>2, <1>3, PTL DEF Spec
================================================================================
