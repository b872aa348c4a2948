----------------------------- MODULE PumpPreflight -----------------------------
(***************************************************************************)
(* The rehearsal of a Pump launch: the console                             *)
(* (pump-preflight-console.tsx), POST preflight, and the simulation of the *)
(* classic creation (pump-legacy-preflight.server.ts).  The run button is  *)
(* locked while a call runs, but choosing a cluster unlocks it: then two   *)
(* calls run, and the answers come in any order.                           *)
(***************************************************************************)
EXTENDS Integers, FiniteSets

CONSTANT RehearsalCalls    \* bound on calls under way

VARIABLES
    rehearsal,     \* the console: cluster, state and the result it shows
    rehearsals,    \* per call, what was sent and how far it is
    pump,          \* per cluster, the instructions the SDK builds and their fate
    overtaken      \* history: a cluster was chosen while a call ran

rehearsalVars == <<rehearsal, rehearsals, pump, overtaken>>

Clusters == {"mainnet-beta", "devnet"}
NoResult == [status |-> "none", cluster |-> "none", kind |-> "none", accepted |-> FALSE]
NoCall == [stage |-> "none", cluster |-> "none", draft |-> "none", result |-> NoResult]

\* What the page finds complete the server may still refuse.
Drafts == {"refused", "plain", "with-buy"}

Call(c, call) == rehearsals' = [rehearsals EXCEPT ![c] = call]

-----------------------------------------------------------------------------
(* The console *)

\* Mutant: the state of the last run is left standing.
ChooseClusterOnly(cluster) ==
    /\ rehearsal' = [rehearsal EXCEPT !.cluster = cluster]
    /\ overtaken' = (overtaken \/ \E c \in RehearsalCalls : rehearsals[c].stage # "none")
    /\ UNCHANGED <<rehearsals, pump>>

ChooseCluster(cluster) ==
    /\ rehearsal' = [rehearsal EXCEPT !.cluster = cluster, !.state = "IDLE",
                                      !.result = NoResult]
    /\ overtaken' = (overtaken \/ \E c \in RehearsalCalls : rehearsals[c].stage # "none")
    /\ UNCHANGED <<rehearsals, pump>>

\* runPreflight up to fetch, with a draft the page finds complete
RunPreflight(c, draft) ==
    /\ rehearsal.state # "RUNNING"
    /\ rehearsals[c].stage = "none"
    /\ rehearsal' = [rehearsal EXCEPT !.state = "RUNNING", !.result = NoResult]
    /\ Call(c, [NoCall EXCEPT !.stage = "sent", !.cluster = rehearsal.cluster,
                              !.draft = draft])
    /\ UNCHANGED <<pump, overtaken>>

\* Any of the route's answers with ok: false, or none at all; a result on display stays.
ShowRefusal(c) ==
    /\ rehearsals[c].stage \in {"sent", "refusal", "built", "answer"}
    /\ rehearsal' = [rehearsal EXCEPT !.state = "FAILED"]
    /\ Call(c, NoCall)
    /\ UNCHANGED <<pump, overtaken>>

ShowResult(c) ==
    /\ rehearsals[c].stage = "answer"
    /\ rehearsal' = [rehearsal EXCEPT !.state = rehearsals[c].result.status,
                                      !.result = rehearsals[c].result]
    /\ Call(c, NoCall)
    /\ UNCHANGED <<pump, overtaken>>

-----------------------------------------------------------------------------
(* The server *)

\* assertClassicPumpInstructions
ClassicInstructions(kind) == kind = "classic"

\* parseLegacyPumpPreflightRequest, the instructions and their check, the blockhash; an
\* initial buy needs Pump's global state and fees from the cluster.
BuildLaunch(c) ==
    LET call == rehearsals[c]
    IN  /\ call.stage = "sent"
        /\ Call(c, IF /\ call.draft # "refused"
                      /\ call.draft = "with-buy" => pump[call.cluster].deployed
                      /\ ClassicInstructions(pump[call.cluster].kind)
                   THEN [call EXCEPT !.stage = "built",
                                     !.result.kind = pump[call.cluster].kind]
                   ELSE [call EXCEPT !.stage = "refusal"])
        /\ UNCHANGED <<rehearsal, pump, overtaken>>

\* simulateTransaction and resultFor; a node that cannot be reached is a failed result.
SimulateLaunch(c, reached) ==
    LET call == rehearsals[c]
        accepted == reached /\ pump[call.cluster].deployed
    IN  /\ call.stage = "built"
        /\ Call(c, [call EXCEPT !.stage = "answer",
                                !.result = [@ EXCEPT !.cluster = call.cluster,
                                   !.accepted = accepted,
                                   !.status = IF accepted THEN "PASSED" ELSE "FAILED"]])
        /\ UNCHANGED <<rehearsal, pump, overtaken>>

\* Pump closes or opens the classic lane, or the SDK turns to Token-2022.
PumpMoves(cluster) ==
    /\ \/ pump' = [pump EXCEPT ![cluster].deployed = ~ @]
       \/ pump' = [k \in Clusters |-> [pump[k] EXCEPT !.kind = "token-2022"]]
    /\ UNCHANGED <<rehearsal, rehearsals, overtaken>>

RehearsalInit ==
    /\ rehearsal = [cluster |-> "mainnet-beta", state |-> "IDLE",
                    result |-> NoResult]
    /\ rehearsals = [c \in RehearsalCalls |-> NoCall]
    /\ pump = [k \in Clusters |-> [kind |-> "classic", deployed |-> TRUE]]
    /\ overtaken = FALSE

RehearsalNext ==
    \/ \E cluster \in Clusters : ChooseCluster(cluster) \/ PumpMoves(cluster)
    \/ \E c \in RehearsalCalls :
          \/ \E draft \in Drafts : RunPreflight(c, draft)
          \/ ShowRefusal(c) \/ ShowResult(c) \/ BuildLaunch(c)
          \/ \E reached \in BOOLEAN : SimulateLaunch(c, reached)

RehearsalSpec == RehearsalInit /\ [][RehearsalNext]_rehearsalVars

-----------------------------------------------------------------------------
(* Properties *)

RehearsalTypeOK ==
    /\ rehearsal.state \in {"IDLE", "RUNNING", "PASSED", "FAILED"}
    /\ \A c \in RehearsalCalls :
          rehearsals[c].stage \in {"none", "sent", "refusal", "built", "answer"}

\* However calls and answers overlap, PASSED stands for a simulation that a node of
\* the result's cluster accepted, of instructions without Token-2022.  Unless the
\* cluster was changed during a run, the result and the state on display belong
\* together and to the chosen cluster, and one call runs at most.
ResultOfChosenCluster ==
    /\ rehearsal.state = "PASSED" =>
          /\ rehearsal.result.status = "PASSED"
          /\ rehearsal.result.accepted /\ rehearsal.result.kind = "classic"
    /\ ~ overtaken =>
          /\ rehearsal.result # NoResult =>
                /\ rehearsal.result.cluster = rehearsal.cluster
                /\ rehearsal.result.status = rehearsal.state
          /\ Cardinality({c \in RehearsalCalls : rehearsals[c].stage # "none"}) <= 1
=============================================================================
