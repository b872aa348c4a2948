------------------------------ MODULE CanaryCli ------------------------------
(***************************************************************************)
(* The operator harness scripts/electric-relic-devnet-canary.ts once setup *)
(* is complete: the commands inspect, publish, allocate, awaken, release,  *)
(* roundtrip and soak, run from one or more terminals against one private  *)
(* state file, with the process stopping at any point.                     *)
(*                                                                         *)
(* A command loads the file into memory, works on the copy, and writes the *)
(* whole copy back each time saveState is called; no lock protects the     *)
(* file.  An uncaught error ends the process and only loses its memory, so *)
(* an RPC failure at any await is the same step as a kill: Stop.           *)
(***************************************************************************)
EXTENDS Devnet, FiniteSets

CONSTANTS
    Proc,       \* terminals in which commands are run
    NoSig,      \* no signature
    MaxCycles   \* bound on --cycles of the soak command (the code allows 100)

ASSUME CliAssumption ==
    /\ NoSig \notin Sig
    /\ MaxCycles \in Nat \ {0}

VARIABLES
    disk,      \* contents of the state file
    torn,      \* the file was left truncated by a process killed while writing
    ctl,       \* control state of each process
    mem,       \* each process's copy of the state
    manifest,  \* the published evidence: recorded signatures and pending one
    lost       \* history: broadcast signatures whose process ended before the
               \* signature reached the file

cliVars == <<disk, torn, ctl, mem, manifest, lost>>
vars == <<hist, tx, disk, torn, ctl, mem, manifest, lost>>

-----------------------------------------------------------------------------
Exchange == {"AWAKEN", "RELEASE"}
Op == Exchange \cup {"ALLOCATE_TESTER", "INSPECT", "PUBLISH"}

\* CanarySnapshot: what reconcile returns.
Snapshot == [slot : Nat, owner : Holder, reserve : Nat, safe : BOOLEAN]

\* CanaryState, reduced to the fields that change after setup.
State == [pending : Sig \cup {NoSig}, sigs : SUBSET Sig,
          tester : Tester \cup {Operator}, last : Snapshot]

PC == {"idle", "reconcile", "status", "send", "sign", "sendAllocation",
       "confirm", "confirmAllocation", "verify", "verifyAllocation",
       "final", "save", "publish"}

Ctl == [pc : PC, ret : PC, op : Op, left : Nat, to : Tester \cup {Operator},
        sig : Sig \cup {NoSig}, seen : Snapshot]

\* escrowNftCount and activeNftCount of a snapshot.
Active(s) == IF s.owner = Escrow THEN 0 ELSE 1

Observed(slot, owner, reserve, state) ==
    [slot |-> slot, owner |-> owner, reserve |-> reserve,
     safe |-> /\ reserve = Backing * (IF owner = Escrow THEN 0 ELSE 1)
              /\ owner \in {Escrow, Operator, state.tester}]

\* Mutant: the reserve is read in a later call than the asset.
ReconcileInTwoContexts(slot, state) ==
    Observed(slot, hist[slot].owner, Finalized.tokens[Escrow], state)

\* reconcile: the asset and its reserve account are read in one finalized
\* context.  testerWallet = Operator stands for an unassigned tester.
Reconcile(slot, state) ==
    Observed(slot, hist[slot].owner, hist[slot].tokens[Escrow], state)

\* assertTesterAllocationBefore
AllocationPossible(slot, to) ==
    /\ hist[slot].owner = Escrow
    /\ hist[slot].tokens[Escrow] = 0
    /\ Supply = Backing
    /\ hist[slot].tokens[Operator] = Backing
    /\ hist[slot].tokens[to] = 0

\* assertTesterAllocationAfter.  The ledger has no SOL: that the tester has too
\* little of it makes the check throw, which is a Stop after the transfer and
\* a Retain in inspect, both always possible.
AllocationDone(slot, to) ==
    /\ hist[slot].owner = Escrow
    /\ hist[slot].tokens[Escrow] = 0
    /\ Supply = Backing
    /\ hist[slot].tokens[Operator] = 0
    /\ hist[slot].tokens[to] = Backing

\* The state file after setup: setup's own signatures are not modelled here.
FirstSnapshot == [slot |-> 1, owner |-> Escrow, reserve |-> 0, safe |-> TRUE]
FirstState == [pending |-> NoSig, sigs |-> {}, tester |-> Operator,
               last |-> FirstSnapshot]

Idle == [pc |-> "idle", ret |-> "idle", op |-> "INSPECT", left |-> 0,
         to |-> Operator, sig |-> NoSig, seen |-> FirstSnapshot]

-----------------------------------------------------------------------------
Goto(p, pc) == ctl' = [ctl EXCEPT ![p].pc = pc]

\* Keep the snapshot s for the checks that follow at pc.
GotoWith(p, pc, s) == ctl' = [ctl EXCEPT ![p].pc = pc, ![p].seen = s]

\* Leave the state change to saveState, and continue at pc.
SaveThen(p, pc) == ctl' = [ctl EXCEPT ![p].pc = "save", ![p].ret = pc]

\* Mutant: the signature is kept in memory only.
SkipRecord(p, t, pc) == [ctl[p] EXCEPT !.pc = pc, !.ret = pc, !.sig = t]

\* Save the signature t of the transaction in hand, then continue at pc.
RecordThen(p, t, pc) == [ctl[p] EXCEPT !.pc = "save", !.ret = pc, !.sig = t]

\* Mutants: the confirmation's err field is ignored; an expired blockhash
\* does not end the wait.
ConfirmedWithAnyResult(t) == tx[t].status \in {"ok", "failed"}
RejectedOnlyByError(t) == tx[t].status = "failed"

\* What confirmTransaction can answer.
Confirmed(t) == tx[t].status = "ok"
Rejected(t) == tx[t].status \in {"failed", "expired"}

Exit(p) ==
    /\ ctl' = [ctl EXCEPT ![p] = Idle]
    /\ mem' = [mem EXCEPT ![p] = FirstState]

\* Mutant: a write command starts although a signature is pending.
AllowedWhilePending(op, to) ==
    op = "ALLOCATE_TESTER" => disk.tester \in {Operator, to}

\* What main and runAllocateTester require of the loaded state.
Allowed(op, to) ==
    /\ op \in Exchange \cup {"ALLOCATE_TESTER"} => disk.pending = NoSig
    /\ op = "ALLOCATE_TESTER" => disk.tester \in {Operator, to}

\* main: load the state.  A file that cannot be parsed, or does not allow the
\* command, ends the process without a change.
Load(p, op, left, to) ==
    /\ ctl[p].pc = "idle"
    /\ ~ torn
    /\ Allowed(op, to)
    /\ mem' = [mem EXCEPT ![p] = disk]
    /\ ctl' = [ctl EXCEPT ![p] = [Idle EXCEPT !.pc = "reconcile", !.op = op,
                                              !.left = left, !.to = to]]
    /\ UNCHANGED <<chainVars, disk, torn, manifest, lost>>

Command(p) ==
    \/ \E op \in {"INSPECT", "PUBLISH"} \cup Exchange : Load(p, op, 1, Operator)
    \/ \E n \in 1 .. MaxCycles : Load(p, "AWAKEN", 2 * n, Operator)
    \/ \E to \in Tester : Load(p, "ALLOCATE_TESTER", 1, to)

\* saveState: the whole in-memory state replaces the file.
Save(p) ==
    /\ ctl[p].pc = "save"
    /\ disk' = mem[p]
    /\ torn' = FALSE
    /\ IF ctl[p].ret = "idle" THEN Exit(p)
       ELSE Goto(p, ctl[p].ret) /\ UNCHANGED mem
    /\ UNCHANGED <<chainVars, manifest, lost>>

-----------------------------------------------------------------------------
(* runAwaken, runRelease and sendRecorded                                  *)

\* The NFT's owner is fetched again, from a slot of its own.
AssetInPlace(p, slot) ==
    hist[slot].owner = IF ctl[p].op = "AWAKEN" THEN Escrow ELSE Operator

ReconcileBefore(p) ==
    /\ ctl[p].pc = "reconcile"
    /\ ctl[p].op \in Exchange
    /\ \E s, s2 \in Readable :
          LET before == Reconcile(s, mem[p])
          IN  IF before.safe /\ AssetInPlace(p, s2)
              THEN /\ GotoWith(p, "send", before)
                   /\ UNCHANGED mem
              ELSE Exit(p)
    /\ UNCHANGED <<chainVars, disk, torn, manifest, lost>>

\* The transaction is handed to the node first; its signature is in memory,
\* and not yet in the file, when the response arrives.
SendExchange(p, t) ==
    LET sent == [Unused EXCEPT !.kind = ctl[p].op, !.status = "sent"]
    IN  /\ ctl[p].pc = "send"
        /\ tx[t].status = "unused"
        /\ PreflightPasses(sent)
        /\ tx' = [tx EXCEPT ![t] = sent]
        /\ mem' = [mem EXCEPT ![p].pending = t]
        /\ ctl' = [ctl EXCEPT ![p] = RecordThen(p, t, "confirm")]
        /\ UNCHANGED <<hist, disk, torn, manifest, lost>>

\* The node accepted the bytes and its response was lost: send throws.
SendExchangeUnanswered(p, t) ==
    LET sent == [Unused EXCEPT !.kind = ctl[p].op, !.status = "sent"]
    IN  /\ ctl[p].pc = "send"
        /\ tx[t].status = "unused"
        /\ PreflightPasses(sent)
        /\ tx' = [tx EXCEPT ![t] = sent]
        /\ lost' = lost \cup {t}
        /\ Exit(p)
        /\ UNCHANGED <<hist, disk, torn, manifest>>

\* Preflight or the node refuses the transaction: send throws.
SendRefused(p) ==
    /\ ctl[p].pc \in {"send", "sendAllocation"}
    /\ Exit(p)
    /\ UNCHANGED <<chainVars, disk, torn, manifest, lost>>

ConfirmExchange(p) ==
    /\ ctl[p].pc = "confirm"
    /\ \/ /\ Confirmed(ctl[p].sig)
          /\ mem' = [mem EXCEPT ![p].sigs = @ \cup {ctl[p].sig},
                                ![p].pending = NoSig]
          /\ SaveThen(p, "verify")
       \/ /\ Rejected(ctl[p].sig)
          /\ Exit(p)
    /\ UNCHANGED <<chainVars, disk, torn, manifest, lost>>

CountMoved(p, after) ==
    IF ctl[p].op = "AWAKEN"
    THEN Active(after) = Active(ctl[p].seen) + 1
    ELSE Active(after) + 1 = Active(ctl[p].seen)

Continue(p) ==
    [Idle EXCEPT !.pc = "save", !.ret = "reconcile", !.left = ctl[p].left - 1,
                 !.op = IF ctl[p].op = "AWAKEN" THEN "RELEASE" ELSE "AWAKEN"]

\* roundtrip and soak go on with the opposite exchange.
NextExchange(p) ==
    IF ctl[p].left > 1
    THEN Continue(p)
    ELSE [Idle EXCEPT !.pc = "save", !.ret = "final", !.op = ctl[p].op]

ReconcileAfter(p) ==
    /\ ctl[p].pc = "verify"
    /\ \E s \in Readable :
          LET after == Reconcile(s, mem[p])
          IN  IF after.safe /\ CountMoved(p, after)
              THEN /\ mem' = [mem EXCEPT ![p].last = after]
                   /\ ctl' = [ctl EXCEPT ![p] = NextExchange(p)]
              ELSE Exit(p)
    /\ UNCHANGED <<chainVars, disk, torn, manifest, lost>>

\* The last saveState of main, after the program was observed again.
Finish(p) ==
    /\ ctl[p].pc = "final"
    /\ SaveThen(p, "idle")
    /\ UNCHANGED <<chainVars, disk, torn, mem, manifest, lost>>

-----------------------------------------------------------------------------
(* runAllocateTester                                                       *)

AllocationBefore(p) ==
    /\ ctl[p].pc = "reconcile"
    /\ ctl[p].op = "ALLOCATE_TESTER"
    /\ \E s, s2 \in Readable :
          LET before == Reconcile(s, mem[p])
          IN  IF /\ before.safe /\ before.owner = Escrow /\ before.reserve = 0
                 /\ AllocationPossible(s2, ctl[p].to)
              THEN /\ GotoWith(p, "sign", before)
                   /\ UNCHANGED mem
              ELSE Exit(p)
    /\ UNCHANGED <<chainVars, disk, torn, manifest, lost>>

\* The tester and the signature are bound before anything is broadcast.
SignAllocation(p, t) ==
    LET signed == [Unused EXCEPT !.kind = "ALLOCATE_TESTER", !.to = ctl[p].to,
                                 !.status = "signed"]
    IN  /\ ctl[p].pc = "sign"
        /\ tx[t].status = "unused"
        /\ PreflightPasses(signed)
        /\ tx' = [tx EXCEPT ![t] = signed]
        /\ mem' = [mem EXCEPT ![p].tester = ctl[p].to, ![p].pending = t]
        /\ ctl' = [ctl EXCEPT ![p] = RecordThen(p, t, "sendAllocation")]
        /\ UNCHANGED <<hist, disk, torn, manifest, lost>>

SimulationFails(p) ==
    /\ ctl[p].pc = "sign"
    /\ Exit(p)
    /\ UNCHANGED <<chainVars, disk, torn, manifest, lost>>

\* The node takes the bytes; if its response is lost the process ends.
SendAllocation(p) ==
    /\ ctl[p].pc = "sendAllocation"
    /\ PreflightPasses(tx[ctl[p].sig])
    /\ tx' = [tx EXCEPT ![ctl[p].sig].status = "sent"]
    /\ \/ Goto(p, "confirmAllocation") /\ UNCHANGED mem
       \/ Exit(p)
    /\ UNCHANGED <<hist, disk, torn, manifest, lost>>

ConfirmAllocation(p) ==
    /\ ctl[p].pc = "confirmAllocation"
    /\ \/ /\ Confirmed(ctl[p].sig)
          /\ Goto(p, "verifyAllocation")
          /\ UNCHANGED mem
       \/ /\ Rejected(ctl[p].sig)
          /\ Exit(p)
    /\ UNCHANGED <<chainVars, disk, torn, manifest, lost>>

AllocationAfter(p) ==
    /\ ctl[p].pc = "verifyAllocation"
    /\ \E s, s2 \in Readable :
          LET after == Reconcile(s, mem[p])
          IN  IF after.safe /\ AllocationDone(s2, ctl[p].to)
              THEN /\ mem' = [mem EXCEPT ![p].sigs = @ \cup {ctl[p].sig},
                                         ![p].pending = NoSig,
                                         ![p].last = after]
                   /\ SaveThen(p, "final")
              ELSE Exit(p)
    /\ UNCHANGED <<chainVars, disk, torn, manifest, lost>>

-----------------------------------------------------------------------------
(* inspect and publish                                                     *)

InspectReconcile(p) ==
    /\ ctl[p].pc = "reconcile"
    /\ ctl[p].op \in {"INSPECT", "PUBLISH"}
    /\ \E s \in Readable :
          GotoWith(p, "status", Reconcile(s, mem[p]))
    /\ UNCHANGED <<chainVars, disk, torn, mem, manifest, lost>>

\* Does the snapshot prove what the pending transaction was meant to do?
ExpectedStateReached(p) ==
    LET t    == tx[mem[p].pending]
        snap == ctl[p].seen
    IN  /\ snap.safe
        /\ \/ t.kind = "AWAKEN"  /\ Active(snap) = 1 /\ snap.owner = Operator
           \/ t.kind = "RELEASE" /\ Active(snap) = 0 /\ snap.owner = Escrow
           \/ /\ t.kind = "ALLOCATE_TESTER"
              /\ Active(snap) = 0
              /\ mem[p].tester # Operator
              /\ \E s \in Readable : /\ AllocationDone(s, mem[p].tester)
                                     /\ s >= t.slot

\* Mutants: the account state alone is taken as proof; the snapshot must be
\* later than the transaction's slot.
ProvenByStateAlone(p) == mem[p].pending # NoSig /\ ExpectedStateReached(p)
ProvenByLaterSlot(p) ==
    LET t == tx[mem[p].pending]
    IN  /\ mem[p].pending # NoSig
        /\ t.status = "ok"
        /\ ctl[p].seen.slot > t.slot
        /\ ExpectedStateReached(p)

\* inspectPendingSignature would report RECOVERED_FINALIZED_SUCCESS.
PendingProven(p) ==
    LET t == tx[mem[p].pending]
    IN  /\ mem[p].pending # NoSig
        /\ t.status = "ok"
        /\ ctl[p].seen.slot >= t.slot
        /\ ExpectedStateReached(p)

\* Mutant: the recovered signature is dropped.
RecoveredUnlisted(p) ==
    [mem[p] EXCEPT !.pending = NoSig, !.last = ctl[p].seen]

Recovered(p) ==
    [mem[p] EXCEPT !.sigs = @ \cup {mem[p].pending}, !.pending = NoSig,
                   !.last = ctl[p].seen]

\* main saves the inspected state; publish then writes the public evidence.
AfterInspection(p) == IF ctl[p].op = "PUBLISH" THEN "publish" ELSE "idle"

\* RPC knows the transaction, and the state proves its result.
Recover(p) ==
    /\ ctl[p].pc = "status"
    /\ PendingProven(p)
    /\ mem' = [mem EXCEPT ![p] = Recovered(p)]
    /\ SaveThen(p, AfterInspection(p))
    /\ UNCHANGED <<chainVars, disk, torn, manifest, lost>>

\* There is nothing to recover, or the result is not proven, or the node that
\* answers does not know the transaction (yet): a pending record is kept.
Retain(p) ==
    /\ ctl[p].pc = "status"
    /\ mem' = [mem EXCEPT ![p].last = ctl[p].seen]
    /\ SaveThen(p, AfterInspection(p))
    /\ UNCHANGED <<chainVars, disk, torn, manifest, lost>>

InspectPending(p) == Recover(p) \/ Retain(p)

\* publishPublicEvidence, from the copy that was just saved.  A kill before it
\* leaves the earlier evidence in place.
Publish(p) ==
    /\ ctl[p].pc = "publish"
    /\ manifest' = [sigs |-> mem[p].sigs, pending |-> mem[p].pending]
    /\ Exit(p)
    /\ UNCHANGED <<chainVars, disk, torn, lost>>

-----------------------------------------------------------------------------
(* The process ends early                                                  *)

\* A broadcast signature the file does not hold is gone with the process.
Forgotten(p) ==
    {t \in {ctl[p].sig} \cap Sig :
        /\ tx[t].status \notin {"unused", "signed"}
        /\ disk.pending # t
        /\ t \notin disk.sigs}

Stop(p) ==
    /\ ctl[p].pc # "idle"
    /\ lost' = lost \cup Forgotten(p)
    /\ Exit(p)
    /\ UNCHANGED <<chainVars, disk, torn, manifest>>

\* writeFile truncates before it writes.
StopWhileWriting(p) ==
    /\ ctl[p].pc = "save"
    /\ torn' = TRUE
    /\ lost' = lost \cup Forgotten(p)
    /\ Exit(p)
    /\ UNCHANGED <<chainVars, disk, manifest>>

-----------------------------------------------------------------------------
(* The tester exchanges on its own, and may also send its token straight   *)
(* to the escrow's token account.  Bounded by MaxSlot.                     *)

TesterExchange(u, kind) ==
    LET t == [Unused EXCEPT !.kind = kind, !.by = u]
    IN  /\ Len(hist) < MaxSlot
        /\ Executable(Finalized, t)
        /\ hist' = Append(hist, Execute(Finalized, t))
        /\ UNCHANGED <<tx, cliVars>>

TesterDonation(u) ==
    /\ Len(hist) < MaxSlot
    /\ Finalized.tokens[u] >= Backing
    /\ hist' = Append(hist, [Finalized EXCEPT !.tokens = Move(@, u, Escrow)])
    /\ UNCHANGED <<tx, cliVars>>

-----------------------------------------------------------------------------
Init ==
    /\ ChainInit
    /\ disk = FirstState
    /\ torn = FALSE
    /\ ctl = [p \in Proc |-> Idle]
    /\ mem = [p \in Proc |-> FirstState]
    /\ manifest = [sigs |-> {}, pending |-> NoSig]
    /\ lost = {}

Chain ==
    \/ \E t \in Sig : Settle(t) /\ UNCHANGED cliVars
    \/ \E u \in Tester, k \in Exchange : TesterExchange(u, k)
    \/ \E u \in Tester : TesterDonation(u)

\* What a running command does next, of its own accord.
Step(p) ==
    \/ Save(p)
    \/ ReconcileBefore(p)
    \/ \E t \in Sig : SendExchange(p, t) \/ SendExchangeUnanswered(p, t)
    \/ SendRefused(p)
    \/ ConfirmExchange(p)
    \/ ReconcileAfter(p)
    \/ Finish(p)
    \/ AllocationBefore(p)
    \/ \E t \in Sig : SignAllocation(p, t)
    \/ SimulationFails(p)
    \/ SendAllocation(p)
    \/ ConfirmAllocation(p)
    \/ AllocationAfter(p)
    \/ InspectReconcile(p)
    \/ InspectPending(p)
    \/ Publish(p)

Next ==
    \/ Chain
    \/ \E p \in Proc : Command(p) \/ Step(p) \/ Stop(p) \/ StopWhileWriting(p)

Spec == Init /\ [][Next]_vars

\* A started command keeps running, and the chain settles what it was sent.
Fairness ==
    /\ \A p \in Proc : WF_vars(Step(p))
    /\ \A t \in Sig : WF_vars(Settle(t) /\ UNCHANGED cliVars)

FairSpec == Spec /\ Fairness

\* The operator follows the recovery procedure (docs/DEVNET_CANARY.md, 8): it
\* runs inspect again and again.  Some of the runs are answered from the newest
\* slot, some of those by a node that knows the transaction, and of those that
\* have a recovery to save some are not killed before they did.
Fresh(s) == s.slot = Len(hist)

OperatorInspects(p) ==
    /\ SF_vars(Load(p, "INSPECT", 1, Operator))
    /\ SF_vars(InspectReconcile(p) /\ Fresh(ctl'[p].seen))
    /\ SF_vars(Recover(p) /\ Fresh(ctl[p].seen))
    /\ SF_vars(/\ Save(p)
               /\ ctl[p].op \in {"INSPECT", "PUBLISH"}
               /\ mem[p].pending # disk.pending)

RecoverySpec == FairSpec /\ \A p \in Proc : OperatorInspects(p)

-----------------------------------------------------------------------------
(* Properties                                                              *)

\* Every variable has its type: counts and slots are naturals, and what a
\* process remembers is a state the file could hold.

TypeOK ==
    /\ hist \in Seq(Ledger)
    /\ Len(hist) > 0
    /\ tx \in [Sig -> Tx]
    /\ disk \in State
    /\ torn \in BOOLEAN
    /\ ctl \in [Proc -> Ctl]
    /\ mem \in [Proc -> State]
    /\ manifest \in [sigs : SUBSET Sig, pending : Sig \cup {NoSig}]
    /\ lost \subseteq Sig

Broadcast == {t \in Sig : tx[t].status \notin {"unused", "signed"}}

\* A signature is listed as a success, in the file, in a process's copy or in
\* the published manifest, only if the transaction finalized without error.
RecordedSucceeded ==
    \A t \in disk.sigs \cup manifest.sigs \cup UNION {mem[p].sigs : p \in Proc} :
        tx[t].status = "ok"

\* The snapshot the file keeps is what one finalized slot really held, owner
\* and reserve together: when it says safe, that slot's reserve backed exactly
\* the NFTs that were active.  Two reads of different slots would not do.
SnapshotConsistent ==
    LET s == disk.last
    IN  /\ s.slot \in 1 .. Len(hist)
        /\ s.owner = hist[s.slot].owner
        /\ s.reserve = hist[s.slot].tokens[Escrow]
        /\ s.safe => hist[s.slot].tokens[Escrow] = Backing * Active(s)

\* With one terminal, every transaction that reached the network is in the
\* file, as a success or as the pending one, or is the one the running
\* process is about to write, or was lost when a process ended in the window
\* between the node's answer and saveState.  An allocation is never lost: its
\* signature and its tester are in the file before its bytes are sent.
EvidenceAccounted ==
    ~ torn => \A t \in Broadcast :
        /\ \/ t \in disk.sigs
           \/ disk.pending = t
           \/ t \in lost
           \/ \E p \in Proc : ctl[p].pc = "save" /\ mem[p].pending = t
        /\ tx[t].kind = "ALLOCATE_TESTER" =>
              /\ t \in disk.sigs \/ disk.pending = t
              /\ disk.tester = tx[t].to

\* With one terminal, nothing is signed until every earlier transaction has
\* succeeded, except for those whose evidence was lost and those whose signed
\* bytes died with their process before they were saved or sent.
NoBlindResend ==
    [][\A t \in Sig : tx[t].status = "unused" /\ tx'[t].status # "unused"
          => \A u \in Sig \ {t} :
                \/ tx[u].status \in {"unused", "ok"}
                \/ tx[u].status = "signed" /\ disk.pending # u
                \/ u \in lost]_vars

\* What main's refusal says: a transaction whose outcome is open is inspected
\* before another one is sent.  (Fails: the send window of sendRecorded.)
OneOpenTransaction ==
    [][\A t \in Sig : tx[t].status = "unused" /\ tx'[t].status # "unused"
          => \A u \in Sig \ {t} : tx[u].status # "sent"]_vars

\* With one terminal, the pending signature leaves the file only when the
\* transaction finalized without error, and it is then listed as a success.
PendingClearedByProof ==
    [][disk.pending \in Sig /\ disk'.pending # disk.pending
          => /\ tx[disk.pending].status = "ok"
             /\ disk.pending \in disk'.sigs]_vars

Recorded(kind) == Cardinality({t \in disk.sigs : tx[t].kind = kind})

\* When nothing runs, nothing is pending and no evidence was lost, the
\* recorded Awakens and Releases say who holds the NFT.
EvidenceMatchesCustody ==
    (~ torn /\ lost = {} /\ disk.pending = NoSig
            /\ \A p \in Proc : ctl[p].pc = "idle")
    => Recorded("AWAKEN") = Recorded("RELEASE")
                            + (IF Finalized.owner = Operator THEN 1 ELSE 0)

\* Whatever the operator's commands and the testers do, and wherever a command is
\* stopped, the finalized chain moves as math.ts projects it: an asset leaves escrow
\* against its backing, comes back for it, and nothing else takes coins out.
CanaryCustody == Custody!ReserveSpec

\* A command always ends: confirmation waits at most until the transaction
\* finalizes or its blockhash expires.
CommandTerminates ==
    \A p \in Proc : ctl[p].pc # "idle" ~> ctl[p].pc = "idle"

\* The finalized state shows the result of t, with exactly its backing in the
\* escrow.
ResultStands(t) ==
    /\ Finalized.owner = IF tx[t].kind = "AWAKEN" THEN Operator ELSE Escrow
    /\ Finalized.tokens[Escrow] = IF tx[t].kind = "AWAKEN" THEN Backing ELSE 0

\* An interrupted Awaken or Release that finalized, and whose result nobody
\* else disturbs from then on, does not lock the canary for ever: repeated
\* inspection recovers it, unless a process killed while writing destroyed the
\* file.  (Coins an outsider sent to the escrow do lock it.)
FinalizedPendingRecovers ==
    \A t \in Sig :
        (/\ disk.pending = t /\ tx[t].kind \in Exchange /\ tx[t].status = "ok"
         /\ []ResultStands(t))
            ~> (t \in disk.sigs \/ torn)

=============================================================================
