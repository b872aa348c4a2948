--------------------------- MODULE CanaryCliProofs ---------------------------
(***************************************************************************)
(* Proofs about CanaryCli, for any number of terminals, testers and        *)
(* signatures, any backing, lag and bound on the cycles.                   *)
(*                                                                         *)
(* The invariant says of every copy of the state (in the file, in the      *)
(* memory of a process) and of every control state that it is sound: it    *)
(* has its type, the signatures it lists succeeded, and its snapshot is    *)
(* what the slot it names held.  Soundness survives whatever the chain     *)
(* does next, so an action only has to hand a sound state to its process.  *)
(***************************************************************************)
EXTENDS CanaryCli, DevnetProofs, TLAPS

-----------------------------------------------------------------------------
(* The invariant                                                           *)

TrueSnapshot(s) ==
    /\ s \in Snapshot
    /\ s.slot \in 1 .. Len(hist)
    /\ s.owner = hist[s.slot].owner
    /\ s.reserve = hist[s.slot].tokens[Escrow]
    /\ s.safe => hist[s.slot].tokens[Escrow] = Backing * Active(s)

AllSucceeded(sigs) == \A t \in sigs : tx[t].status = "ok"

SoundState(m) ==
    /\ m \in State
    /\ AllSucceeded(m.sigs)
    /\ TrueSnapshot(m.last)

\* The allocation that c stands for is signed and not sent yet.
Sending(c) ==
    c.pc = "sendAllocation" \/ (c.pc = "save" /\ c.ret = "sendAllocation")

\* The signature of c is to be confirmed, now or after saveState.
Confirming(c) ==
    \/ c.pc \in {"confirm", "confirmAllocation"}
    \/ c.pc = "save" /\ c.ret = "confirm"

SoundCtl(c) ==
    /\ c \in Ctl
    /\ TrueSnapshot(c.seen)
    /\ c.pc = "save" => c.ret \in {"idle", "confirm", "verify", "sendAllocation",
                                   "reconcile", "final", "publish"}
    /\ Sending(c) \/ Confirming(c) => c.sig \in Sig
    /\ c.pc = "send" => c.op \in Exchange
    /\ c.pc = "verifyAllocation" => c.sig \in Sig /\ tx[c.sig].status = "ok"

ChainSound ==
    /\ hist \in Seq(Ledger)
    /\ Len(hist) > 0
    /\ hist[1].owner = Escrow
    /\ hist[1].tokens[Escrow] = 0
    /\ tx \in [Sig -> Tx]

ProcsSound ==
    /\ ctl \in [Proc -> Ctl]
    /\ mem \in [Proc -> State]
    /\ \A p \in Proc : SoundCtl(ctl[p]) /\ SoundState(mem[p])

FilesSound ==
    /\ SoundState(disk)
    /\ torn \in BOOLEAN
    /\ manifest \in [sigs : SUBSET Sig, pending : Sig \cup {NoSig}]
    /\ AllSucceeded(manifest.sigs)
    /\ lost \subseteq Sig

\* Nobody else sends the bytes an allocation signed.
OwnBytes ==
    /\ \A p \in Proc : Sending(ctl[p]) => tx[ctl[p].sig].status = "signed"
    /\ \A p, q \in Proc :
          p # q /\ Sending(ctl[p]) /\ Sending(ctl[q]) => ctl[p].sig # ctl[q].sig

Inv == ChainSound /\ ProcsSound /\ FilesSound /\ OwnBytes

-----------------------------------------------------------------------------
(* Lemmas about the operators                                              *)

\* reconcile returns what the slot it read held.
LEMMA ReconcileTrue ==
    ASSUME ChainSound, NEW s \in Readable, NEW state \in State
    PROVE  TrueSnapshot(Reconcile(s, state))
<1>1. s \in 1 .. Len(hist) /\ hist[s] \in Ledger
  BY DEF ChainSound, Readable
<1>2. Escrow \in Holder
  BY DEF Holder
<1>. QED
  BY <1>1, <1>2 DEF Reconcile, Observed, Snapshot, Ledger, TrueSnapshot, Active

\* The records the actions start from.
LEMMA InitialTypes ==
    /\ FirstSnapshot \in Snapshot
    /\ FirstState \in State
    /\ Idle \in Ctl
    /\ Unused \in Tx
<1>1. Escrow \in Holder /\ Operator \in Holder
  BY DEF Holder
<1>2. FirstSnapshot \in Snapshot
  BY <1>1 DEF FirstSnapshot, Snapshot
<1>3. FirstState \in State
  BY <1>2 DEF FirstState, State
<1>4. Idle \in Ctl
  BY <1>2 DEF Idle, Ctl, PC, Op, Exchange
<1>5. Unused \in Tx
  BY <1>1 DEF Unused, Tx, Kind, Status
<1>. QED
  BY <1>2, <1>3, <1>4, <1>5

\* What setup left behind, and a process before its first command, are sound.
LEMMA InitialSound ==
    ASSUME ChainSound
    PROVE  TrueSnapshot(FirstSnapshot) /\ SoundState(FirstState) /\ SoundCtl(Idle)
<1>1. TrueSnapshot(FirstSnapshot)
  BY InitialTypes, NumberAssumption
     DEF ChainSound, TrueSnapshot, FirstSnapshot, Active
<1>2. SoundState(FirstState)
  BY <1>1, InitialTypes DEF SoundState, FirstState, AllSucceeded
<1>3. SoundCtl(Idle)
  BY <1>1, InitialTypes DEF SoundCtl, Idle, Sending, Confirming
<1>. QED
  BY <1>1, <1>2, <1>3

-----------------------------------------------------------------------------
(* What the updates of a process's control state do                        *)

\* Goto changes where a process is and nothing else it remembers.
LEMMA GotoEffect ==
    ASSUME ctl \in [Proc -> Ctl], NEW p \in Proc, NEW pc \in PC, Goto(p, pc)
    PROVE  \E c \in Ctl : /\ ctl' = [ctl EXCEPT ![p] = c]
                          /\ c.pc = pc
                          /\ c.op = ctl[p].op
                          /\ c.to = ctl[p].to
                          /\ c.sig = ctl[p].sig
                          /\ c.seen = ctl[p].seen
<1>1. PICK r \in Ctl : r = ctl[p]
  OBVIOUS
<1>2. /\ [r EXCEPT !.pc = pc] \in Ctl
      /\ [r EXCEPT !.pc = pc].pc = pc
      /\ [r EXCEPT !.pc = pc].op = r.op
      /\ [r EXCEPT !.pc = pc].to = r.to
      /\ [r EXCEPT !.pc = pc].sig = r.sig
      /\ [r EXCEPT !.pc = pc].seen = r.seen
  BY DEF Ctl
<1>3. ctl' = [ctl EXCEPT ![p] = [r EXCEPT !.pc = pc]]
  BY <1>1, Zenon DEF Goto
<1>. QED
  BY <1>1, <1>2, <1>3, Zenon

\* SaveThen sends a process through saveState to pc.
LEMMA SaveThenEffect ==
    ASSUME ctl \in [Proc -> Ctl], NEW p \in Proc, NEW pc \in PC, SaveThen(p, pc)
    PROVE  \E c \in Ctl : /\ ctl' = [ctl EXCEPT ![p] = c]
                          /\ c.pc = "save"
                          /\ c.ret = pc
                          /\ c.op = ctl[p].op
                          /\ c.to = ctl[p].to
                          /\ c.sig = ctl[p].sig
                          /\ c.seen = ctl[p].seen
<1>. DEFINE new(r) == [r EXCEPT !.pc = "save", !.ret = pc]
<1>1. PICK r \in Ctl : r = ctl[p]
  OBVIOUS
<1>2. new(r) \in Ctl
  BY DEF Ctl, PC
<1>3. new(r).pc = "save" /\ new(r).ret = pc /\ new(r).sig = r.sig
      /\ new(r).seen = r.seen /\ new(r).op = r.op /\ new(r).to = r.to
  BY DEF Ctl
<1>4. ctl' = [ctl EXCEPT ![p] = new(r)]
  BY <1>1, Zenon DEF SaveThen
<1>. QED
  BY <1>1, <1>2, <1>3, <1>4, Zenon

\* GotoWith also replaces the snapshot the next checks compare with.
LEMMA GotoWithEffect ==
    ASSUME ctl \in [Proc -> Ctl], NEW p \in Proc, NEW pc \in PC,
           NEW s \in Snapshot, GotoWith(p, pc, s)
    PROVE  \E c \in Ctl : /\ ctl' = [ctl EXCEPT ![p] = c]
                          /\ c.pc = pc
                          /\ c.op = ctl[p].op
                          /\ c.to = ctl[p].to
                          /\ c.sig = ctl[p].sig
                          /\ c.seen = s
<1>. DEFINE new(r) == [r EXCEPT !.pc = pc, !.seen = s]
<1>1. PICK r \in Ctl : r = ctl[p]
  OBVIOUS
<1>2. new(r) \in Ctl
  BY DEF Ctl
<1>3. new(r).pc = pc /\ new(r).op = r.op /\ new(r).to = r.to
      /\ new(r).sig = r.sig /\ new(r).seen = s
  BY DEF Ctl
<1>4. ctl' = [ctl EXCEPT ![p] = new(r)]
  BY <1>1, Zenon DEF GotoWith
<1>. QED
  BY <1>1, <1>2, <1>3, <1>4, Zenon

\* RecordThen sends a process through saveState with the signature t in hand.
LEMMA RecordThenEffect ==
    ASSUME NEW p \in Proc, ctl[p] \in Ctl, NEW t \in Sig, NEW pc \in PC
    PROVE  /\ RecordThen(p, t, pc) \in Ctl
           /\ RecordThen(p, t, pc).pc = "save"
           /\ RecordThen(p, t, pc).ret = pc
           /\ RecordThen(p, t, pc).sig = t
           /\ RecordThen(p, t, pc).op = ctl[p].op
           /\ RecordThen(p, t, pc).to = ctl[p].to
           /\ RecordThen(p, t, pc).seen = ctl[p].seen
<1>1. PICK r \in Ctl : r = ctl[p]
  OBVIOUS
<1>2. [r EXCEPT !.pc = "save", !.ret = pc, !.sig = t] \in Ctl
  BY DEF Ctl, PC
<1>3. /\ [r EXCEPT !.pc = "save", !.ret = pc, !.sig = t].pc = "save"
      /\ [r EXCEPT !.pc = "save", !.ret = pc, !.sig = t].ret = pc
      /\ [r EXCEPT !.pc = "save", !.ret = pc, !.sig = t].sig = t
      /\ [r EXCEPT !.pc = "save", !.ret = pc, !.sig = t].op = r.op
      /\ [r EXCEPT !.pc = "save", !.ret = pc, !.sig = t].to = r.to
      /\ [r EXCEPT !.pc = "save", !.ret = pc, !.sig = t].seen = r.seen
  BY DEF Ctl
<1>. QED
  BY <1>1, <1>2, <1>3, Zenon DEF RecordThen

\* roundtrip and soak go on with the opposite exchange, or finish.
LEMMA NextExchangeEffect ==
    ASSUME NEW p \in Proc, ctl[p] \in Ctl
    PROVE  \E c \in Ctl : /\ c = NextExchange(p)
                          /\ c.pc = "save"
                          /\ c.ret \in {"reconcile", "final"}
                          /\ c.ret = "reconcile" => c.op \in Exchange
                          /\ c.seen = FirstSnapshot
<1>1. CASE ctl[p].left > 1
  <2>. DEFINE new(n, o) == [Idle EXCEPT !.pc = "save", !.ret = "reconcile",
                                       !.left = n, !.op = o]
  <2>1. PICK n \in Nat : n = ctl[p].left - 1
    BY <1>1 DEF Ctl
  <2>2. PICK o \in Exchange :
           o = IF ctl[p].op = "AWAKEN" THEN "RELEASE" ELSE "AWAKEN"
    BY DEF Exchange
  <2>3. o \in Op
    BY DEF Op
  <2>4. new(n, o) \in Ctl
    BY <2>3, InitialTypes DEF Ctl, PC
  <2>5. /\ new(n, o).pc = "save"
        /\ new(n, o).ret = "reconcile"
        /\ new(n, o).op = o
        /\ new(n, o).seen = FirstSnapshot
    BY DEF Idle
  <2>6. NextExchange(p) = new(n, o)
    BY <1>1, <2>1, <2>2, Zenon DEF NextExchange, Continue
  <2>. HIDE DEF new
  <2>. QED
    BY <2>4, <2>5, <2>6
<1>2. CASE ~ (ctl[p].left > 1)
  <2>. DEFINE new(o) == [Idle EXCEPT !.pc = "save", !.ret = "final", !.op = o]
  <2>1. PICK o \in Op : o = ctl[p].op
    BY DEF Ctl
  <2>2. new(o) \in Ctl
    BY InitialTypes DEF Ctl, PC
  <2>3. /\ new(o).pc = "save"
        /\ new(o).ret = "final"
        /\ new(o).seen = FirstSnapshot
    BY DEF Idle
  <2>4. NextExchange(p) = new(o)
    BY <1>2, <2>1, Zenon DEF NextExchange
  <2>. HIDE DEF new
  <2>. QED
    BY <2>2, <2>3, <2>4
<1>. QED
  BY <1>1, <1>2

-----------------------------------------------------------------------------
(* Soundness survives what the chain does                                  *)

\* The finalized history only grows, and success is final.
Grows ==
    /\ Len(hist') >= Len(hist)
    /\ \A s \in 1 .. Len(hist) : hist'[s] = hist[s]
    /\ \A t \in Sig : tx[t].status = "ok" => tx'[t].status = "ok"

\* What was true of the finalized history stays true as it grows.
LEMMA SoundStays ==
    ASSUME ChainSound, Grows
    PROVE  /\ \A s : TrueSnapshot(s) => TrueSnapshot(s)'
           /\ \A m : SoundState(m) => SoundState(m)'
           /\ \A c : SoundCtl(c) => SoundCtl(c)'
<1>1. \A s : TrueSnapshot(s) => TrueSnapshot(s)'
  BY DEF ChainSound, Grows, TrueSnapshot
<1>2. \A m : SoundState(m) => SoundState(m)'
  BY <1>1 DEF Grows, SoundState, AllSucceeded, State
<1>3. \A c : SoundCtl(c) => SoundCtl(c)'
  BY <1>1 DEF Grows, SoundCtl, Sending, Confirming
<1>. QED
  BY <1>1, <1>2, <1>3

\* An action hands process p a sound control state and a sound copy.
LEMMA ProcStep ==
    ASSUME ChainSound, ProcsSound, Grows, NEW p \in Proc, NEW c, NEW m,
           SoundCtl(c)', SoundState(m)',
           ctl' = [ctl EXCEPT ![p] = c], mem' = [mem EXCEPT ![p] = m]
    PROVE  ProcsSound'
<1>1. c \in Ctl /\ m \in State
  BY DEF SoundCtl, SoundState
<1>2. ctl' \in [Proc -> Ctl] /\ mem' \in [Proc -> State]
  BY <1>1 DEF ProcsSound
<1>3. ASSUME NEW q \in Proc
      PROVE  (SoundCtl(ctl[q]) /\ SoundState(mem[q]))'
  <2>1. CASE q = p
    <3>1. ctl'[q] = c /\ mem'[q] = m
      BY <2>1 DEF ProcsSound
    <3>. QED
      BY <3>1 DEF SoundCtl, SoundState, Sending, Confirming
  <2>2. CASE q # p
    <3>1. ctl'[q] = ctl[q] /\ mem'[q] = mem[q]
      BY <2>2 DEF ProcsSound
    <3>2. PICK c1, m1 : c1 = ctl[q] /\ m1 = mem[q]
      OBVIOUS
    <3>3. SoundCtl(c1)' /\ SoundState(m1)'
      BY <3>2, SoundStays DEF ProcsSound
    <3>. QED
      BY <3>1, <3>2, <3>3 DEF SoundCtl, SoundState, Sending, Confirming
  <2>. QED
    BY <2>1, <2>2
<1>. QED
  BY <1>2, <1>3 DEF ProcsSound

\* An action that leaves the files alone leaves them sound.
LEMMA FilesStay ==
    ASSUME ChainSound, FilesSound, Grows, UNCHANGED <<disk, manifest>>,
           torn' \in BOOLEAN, lost' \subseteq Sig
    PROVE  FilesSound'
<1>1. PICK m : m = disk
  OBVIOUS
<1>2. SoundState(m)'
  BY <1>1, SoundStays DEF FilesSound
<1>3. SoundState(disk)'
  BY <1>1, <1>2
<1>4. AllSucceeded(manifest.sigs)'
  BY DEF FilesSound, AllSucceeded, Grows
<1>. QED
  BY <1>3, <1>4 DEF FilesSound

\* Signed bytes stay the property of the process that signed them, as long
\* as nothing but its own send changes them.
LEMMA OwnBytesStay ==
    ASSUME ProcsSound, OwnBytes, NEW p \in Proc, NEW c,
           ctl' = [ctl EXCEPT ![p] = c],
           Sending(c) => Sending(ctl[p]) /\ c.sig = ctl[p].sig,
           \A q \in Proc : Sending(ctl[q]) /\ (q = p => Sending(c))
                 => tx'[ctl[q].sig].status = tx[ctl[q].sig].status
    PROVE  OwnBytes'
<1>1. \A q \in Proc : ctl'[q] = IF q = p THEN c ELSE ctl[q]
  BY DEF ProcsSound
<1>. QED
  BY <1>1 DEF OwnBytes, Sending
-----------------------------------------------------------------------------
(* What the updates of a process's copy of the state do                    *)

\* Binding a tester or a pending signature to a copy keeps it sound.
LEMMA PendingEffect ==
    ASSUME NEW r \in State, SoundState(r), NEW t \in Sig \cup {NoSig},
           NEW u \in Tester \cup {Operator}
    PROVE  /\ SoundState([r EXCEPT !.pending = t])
           /\ SoundState([r EXCEPT !.tester = u, !.pending = t])
<1>1. /\ [r EXCEPT !.pending = t] \in State
      /\ [r EXCEPT !.pending = t].sigs = r.sigs
      /\ [r EXCEPT !.pending = t].last = r.last
  BY DEF State
<1>2. [r EXCEPT !.tester = u, !.pending = t] \in State
  BY DEF State
<1>3. /\ [r EXCEPT !.tester = u, !.pending = t].sigs = r.sigs
      /\ [r EXCEPT !.tester = u, !.pending = t].last = r.last
  BY DEF State
<1>. QED
  BY <1>1, <1>2, <1>3, Zenon DEF SoundState

\* So does replacing its snapshot by a true one.
LEMMA LastEffect ==
    ASSUME NEW r \in State, SoundState(r), NEW s, TrueSnapshot(s)
    PROVE  SoundState([r EXCEPT !.last = s])
<1>1. s \in Snapshot
  BY DEF TrueSnapshot
<1>2. /\ [r EXCEPT !.last = s] \in State
      /\ [r EXCEPT !.last = s].sigs = r.sigs
      /\ [r EXCEPT !.last = s].last = s
  BY <1>1 DEF State
<1>. QED
  BY <1>2, Zenon DEF SoundState

\* A signature that succeeded may be listed.
LEMMA RecordEffect ==
    ASSUME NEW r \in State, SoundState(r), NEW t \in Sig, tx[t].status = "ok",
           NEW s, TrueSnapshot(s)
    PROVE  /\ SoundState([r EXCEPT !.sigs = @ \cup {t}, !.pending = NoSig])
           /\ SoundState([r EXCEPT !.sigs = @ \cup {t}, !.pending = NoSig,
                                   !.last = s])
<1>1. PICK g \in SUBSET Sig : g = r.sigs \cup {t}
  BY DEF State
<1>2. AllSucceeded(g)
  BY <1>1 DEF SoundState, AllSucceeded
<1>3. s \in Snapshot
  BY DEF TrueSnapshot
<1>4. [r EXCEPT !.sigs = g, !.pending = NoSig] \in State
  BY DEF State
<1>5. /\ [r EXCEPT !.sigs = g, !.pending = NoSig].sigs = g
      /\ [r EXCEPT !.sigs = g, !.pending = NoSig].last = r.last
  BY DEF State
<1>6. [r EXCEPT !.sigs = g, !.pending = NoSig, !.last = s] \in State
  BY <1>3 DEF State
<1>7. /\ [r EXCEPT !.sigs = g, !.pending = NoSig, !.last = s].sigs = g
      /\ [r EXCEPT !.sigs = g, !.pending = NoSig, !.last = s].last = s
  BY DEF State
<1>8. SoundState([r EXCEPT !.sigs = g, !.pending = NoSig])
  BY <1>2, <1>4, <1>5, Zenon DEF SoundState
<1>9. SoundState([r EXCEPT !.sigs = g, !.pending = NoSig, !.last = s])
  BY <1>2, <1>6, <1>7, Zenon DEF SoundState
<1>. QED
  BY <1>1, <1>8, <1>9, Zenon

-----------------------------------------------------------------------------
(* The steps of a process                                                  *)

\* A step that leaves the chain and the files alone.
LEMMA QuietStep ==
    ASSUME Inv, UNCHANGED chainVars, NEW p \in Proc, NEW c, NEW m,
           SoundCtl(c), SoundState(m),
           ctl' = [ctl EXCEPT ![p] = c], mem' = [mem EXCEPT ![p] = m],
           Sending(c) => Sending(ctl[p]) /\ c.sig = ctl[p].sig,
           UNCHANGED <<disk, manifest>>, torn' \in BOOLEAN, lost' \subseteq Sig
    PROVE  Inv'
<1>1. Grows /\ ChainSound'
  BY DEF Inv, Grows, ChainSound, chainVars
<1>2. SoundCtl(c)' /\ SoundState(m)'
  BY <1>1, SoundStays DEF Inv
<1>3. ProcsSound'
  BY <1>1, <1>2, ProcStep DEF Inv
<1>4. FilesSound'
  BY <1>1, FilesStay DEF Inv
<1>5. OwnBytes'
  BY OwnBytesStay DEF Inv, chainVars
<1>. QED
  BY <1>1, <1>3, <1>4, <1>5 DEF Inv

\* The same for a step that leaves the copy of the state alone, too.
LEMMA QuietCtlStep ==
    ASSUME Inv, UNCHANGED chainVars, NEW p \in Proc, NEW c, SoundCtl(c),
           ctl' = [ctl EXCEPT ![p] = c], UNCHANGED mem,
           Sending(c) => Sending(ctl[p]) /\ c.sig = ctl[p].sig,
           UNCHANGED <<disk, manifest, torn, lost>>
    PROVE  Inv'
<1>1. PICK m : m = mem[p]
  OBVIOUS
<1>2. SoundState(m) /\ mem' = [mem EXCEPT ![p] = m]
  BY <1>1 DEF Inv, ProcsSound
<1>. QED
  BY <1>2, QuietStep DEF Inv, FilesSound

\* A process that ends is a process before its first command.
LEMMA ExitStep ==
    ASSUME Inv, UNCHANGED chainVars, NEW p \in Proc, Exit(p),
           UNCHANGED <<disk, manifest>>, torn' \in BOOLEAN, lost' \subseteq Sig
    PROVE  Inv'
<1>1. SoundCtl(Idle) /\ SoundState(FirstState)
  BY InitialSound DEF Inv
<1>2. ~ Sending(Idle)
  BY DEF Sending, Idle
<1>. QED
  BY <1>1, <1>2, QuietStep DEF Exit

\* A loaded copy is as sound as the file.
LEMMA LoadStep ==
    ASSUME Inv, NEW p \in Proc, Command(p)
    PROVE  Inv'
<1>1. PICK op \in {"INSPECT", "PUBLISH", "AWAKEN", "RELEASE", "ALLOCATE_TESTER"},
           n \in Nat, to \in Tester \cup {Operator} : Load(p, op, n, to)
  <2>1. CASE \E op \in {"INSPECT", "PUBLISH"} \cup Exchange : Load(p, op, 1, Operator)
    BY <2>1 DEF Exchange
  <2>2. CASE \E n \in 1 .. MaxCycles : Load(p, "AWAKEN", 2 * n, Operator)
    <3>1. PICK n \in 1 .. MaxCycles : Load(p, "AWAKEN", 2 * n, Operator)
      BY <2>2
    <3>2. 2 * n \in Nat
      BY CliAssumption
    <3>. QED
      BY <3>1, <3>2
  <2>3. CASE \E to \in Tester : Load(p, "ALLOCATE_TESTER", 1, to)
    BY <2>3
  <2>. QED
    BY <2>1, <2>2, <2>3 DEF Command
<1>. DEFINE c == [Idle EXCEPT !.pc = "reconcile", !.op = op, !.left = n, !.to = to]
<1>2. c \in Ctl
  BY InitialTypes DEF Ctl, PC, Op, Exchange
<1>3. c.pc = "reconcile" /\ c.seen = FirstSnapshot
  BY DEF Idle
<1>4. ctl' = [ctl EXCEPT ![p] = c]
  BY <1>1, Zenon DEF Load
<1>. HIDE DEF c
<1>5. SoundCtl(c) /\ ~ Sending(c)
  BY <1>2, <1>3, InitialSound DEF Inv, SoundCtl, Sending, Confirming
<1>6. PICK m : m = disk
  OBVIOUS
<1>7. SoundState(m) /\ mem' = [mem EXCEPT ![p] = m]
  BY <1>1, <1>6 DEF Load, Inv, FilesSound
<1>. QED
  BY <1>1, <1>4, <1>5, <1>7, QuietStep DEF Load, Inv, FilesSound

\* saveState copies the memory of p into the file.
LEMMA SaveStep ==
    ASSUME Inv, NEW p \in Proc, Save(p)
    PROVE  Inv'
<1>1. Grows /\ ChainSound'
  BY DEF Save, Inv, Grows, ChainSound, chainVars
<1>2. PICK m : m = mem[p] /\ SoundState(m)
  BY DEF Inv, ProcsSound
<1>3. SoundState(m)'
  BY <1>1, <1>2, SoundStays DEF Inv
<1>4. disk' = m /\ SoundState(disk)'
  BY <1>2, <1>3 DEF Save, SoundState, AllSucceeded, TrueSnapshot
<1>5. lost' \subseteq Sig /\ torn' \in BOOLEAN
  BY DEF Save, Inv, FilesSound
<1>6. tx' = tx /\ m.sigs \subseteq Sig /\ m.pending \in Sig \cup {NoSig}
  BY <1>2 DEF Save, chainVars, SoundState, State
<1>7. CASE ctl[p].ret = "idle"
  <2>1. Exit(p)
    BY <1>7 DEF Save
  <2>2. SoundCtl(Idle)' /\ SoundState(FirstState)'
    BY <1>1, InitialSound, SoundStays DEF Inv
  <2>3. ProcsSound'
    BY <1>1, <2>1, <2>2, ProcStep DEF Inv, Exit
  <2>4. OwnBytes'
    <3>1. ~ Sending(Idle)
      BY DEF Sending, Idle
    <3>. QED
      BY <1>6, <2>1, <3>1, OwnBytesStay DEF Inv, Exit
  <2>5. FilesSound'
    BY <1>4, <1>5, <1>6 DEF Save, Inv, FilesSound, AllSucceeded
  <2>. QED
    BY <1>1, <2>3, <2>4, <2>5 DEF Inv
<1>8. CASE ctl[p].ret # "idle"
  <2>1. Goto(p, ctl[p].ret) /\ UNCHANGED <<mem, manifest>>
    BY <1>8, Zenon DEF Save
  <2>2. ctl \in [Proc -> Ctl] /\ ctl[p].ret \in PC
    BY DEF Inv, ProcsSound, Ctl
  <2>3. PICK c \in Ctl : /\ ctl' = [ctl EXCEPT ![p] = c]
                         /\ c.pc = ctl[p].ret
                         /\ c.sig = ctl[p].sig
                         /\ c.seen = ctl[p].seen
    BY <2>1, <2>2, GotoEffect
  <2>4. /\ SoundCtl(ctl[p])
        /\ ctl[p].pc = "save"
    BY DEF Inv, ProcsSound, Save
  <2>5. SoundCtl(c) /\ (Sending(c) => Sending(ctl[p]))
    BY <1>8, <2>3, <2>4 DEF SoundCtl, Sending, Confirming
  <2>6. SoundCtl(c)'
    BY <1>1, <2>5, SoundStays DEF Inv
  <2>7. mem' = [mem EXCEPT ![p] = m]
    BY <1>2, <2>1 DEF Inv, ProcsSound
  <2>8. ProcsSound'
    BY <1>1, <1>3, <2>3, <2>6, <2>7, ProcStep DEF Inv
  <2>9. OwnBytes'
    BY <1>6, <2>3, <2>5, OwnBytesStay DEF Inv
  <2>10. FilesSound'
    BY <1>4, <1>5, <1>6, <2>1 DEF Inv, FilesSound, AllSucceeded
  <2>. QED
    BY <1>1, <2>8, <2>9, <2>10 DEF Inv
<1>. QED
  BY <1>7, <1>8

\* What a process remembers of a reconciliation is true.
LEMMA GotoWithStep ==
    ASSUME Inv, UNCHANGED <<chainVars, disk, torn, mem, manifest, lost>>,
           NEW p \in Proc, NEW s \in Readable,
           NEW pc \in {"send", "sign", "status"},
           pc = "send" => ctl[p].op \in Exchange,
           GotoWith(p, pc, Reconcile(s, mem[p]))
    PROVE  Inv'
<1>1. mem[p] \in State /\ ctl \in [Proc -> Ctl] /\ ChainSound
  BY DEF Inv, ProcsSound
<1>2. PICK seen : seen = Reconcile(s, mem[p])
  OBVIOUS
<1>3. TrueSnapshot(seen) /\ seen \in Snapshot
  BY <1>1, <1>2, ReconcileTrue DEF TrueSnapshot
<1>4. pc \in PC
  BY DEF PC
<1>5. PICK c \in Ctl : /\ ctl' = [ctl EXCEPT ![p] = c]
                       /\ c.pc = pc
                       /\ c.op = ctl[p].op
                       /\ c.seen = seen
  BY <1>1, <1>2, <1>3, <1>4, GotoWithEffect
<1>6. SoundCtl(c) /\ ~ Sending(c)
  BY <1>3, <1>5 DEF SoundCtl, Sending, Confirming
<1>. QED
  BY <1>5, <1>6, QuietCtlStep

\* A process hands its copy to saveState, to go on at pc afterwards.
LEMMA SaveThenStep ==
    ASSUME Inv, UNCHANGED <<chainVars, disk, torn, manifest, lost>>,
           NEW p \in Proc, NEW pc \in {"verify", "final", "idle", "publish"},
           SaveThen(p, pc),
           NEW m, SoundState(m), mem' = [mem EXCEPT ![p] = m]
    PROVE  Inv'
<1>1. ctl \in [Proc -> Ctl] /\ pc \in PC
  BY DEF Inv, ProcsSound, PC
<1>2. PICK c \in Ctl : /\ ctl' = [ctl EXCEPT ![p] = c]
                       /\ c.pc = "save"
                       /\ c.ret = pc
                       /\ c.seen = ctl[p].seen
  BY <1>1, SaveThenEffect
<1>3. SoundCtl(c) /\ ~ Sending(c)
  BY <1>2 DEF Inv, ProcsSound, SoundCtl, Sending, Confirming
<1>. QED
  BY <1>2, <1>3, QuietStep DEF Inv, FilesSound
\* A new transaction enters the chain, signed or sent, under an unused
\* signature.
LEMMA NewTransaction ==
    ASSUME Inv, NEW t \in Sig, tx[t].status = "unused", NEW new \in Tx,
           UNCHANGED hist, tx' = [tx EXCEPT ![t] = new]
    PROVE  /\ Grows
           /\ ChainSound'
           /\ \A u \in Sig : tx'[u] = IF u = t THEN new ELSE tx[u]
<1>1. tx \in [Sig -> Tx]
  BY DEF Inv, ChainSound
<1>2. \A u \in Sig : tx'[u] = IF u = t THEN new ELSE tx[u]
  BY <1>1
<1>3. tx' \in [Sig -> Tx]
  BY <1>1
<1>4. Grows
  BY <1>2 DEF Grows
<1>5. ChainSound'
  BY <1>3 DEF Inv, ChainSound
<1>. QED
  BY <1>2, <1>4, <1>5

\* sendRecorded: the signature sent is the one to confirm.
LEMMA SendExchangeStep ==
    ASSUME Inv, NEW p \in Proc, NEW t \in Sig,
           SendExchange(p, t) \/ SendExchangeUnanswered(p, t)
    PROVE  Inv'
<1>1. ctl[p] \in Ctl /\ SoundCtl(ctl[p]) /\ mem[p] \in State /\ SoundState(mem[p])
  BY DEF Inv, ProcsSound
<1>2. ctl[p].pc = "send" /\ tx[t].status = "unused" /\ hist' = hist
  BY DEF SendExchange, SendExchangeUnanswered
<1>3. PICK k \in Kind : k = ctl[p].op
  BY <1>1, <1>2 DEF SoundCtl, Exchange, Kind
<1>. DEFINE sent == [Unused EXCEPT !.kind = k, !.status = "sent"]
<1>4. sent \in Tx
  BY InitialTypes DEF Tx, Status
<1>5. tx' = [tx EXCEPT ![t] = sent]
  BY <1>3, Zenon DEF SendExchange, SendExchangeUnanswered
<1>. HIDE DEF sent
<1>6. /\ Grows
      /\ ChainSound'
      /\ \A u \in Sig : tx'[u] = IF u = t THEN sent ELSE tx[u]
  BY <1>2, <1>4, <1>5, NewTransaction
<1>7. \A q \in Proc : Sending(ctl[q]) => tx'[ctl[q].sig] = tx[ctl[q].sig]
  BY <1>2, <1>6 DEF Inv, OwnBytes, ProcsSound, SoundCtl
<1>8. FilesSound'
  <2>1. UNCHANGED <<disk, manifest, torn>> /\ lost' \subseteq Sig
    BY DEF SendExchange, SendExchangeUnanswered, Inv, FilesSound
  <2>. QED
    BY <1>6, <2>1, FilesStay DEF Inv, FilesSound
<1>9. CASE SendExchange(p, t)
  <2>1. PICK c : c = RecordThen(p, t, "confirm")
    OBVIOUS
  <2>2. c \in Ctl /\ c.pc = "save" /\ c.ret = "confirm" /\ c.sig = t
          /\ c.seen = ctl[p].seen
    BY <1>1, <2>1, RecordThenEffect DEF PC
  <2>3. SoundCtl(c) /\ ~ Sending(c)
    BY <1>1, <2>2 DEF SoundCtl, Sending, Confirming
  <2>4. ctl' = [ctl EXCEPT ![p] = c]
    BY <1>9, <2>1 DEF SendExchange
  <2>5. PICK r \in State : r = mem[p]
    BY <1>1
  <2>6. SoundState([r EXCEPT !.pending = t])
    BY <1>1, <2>5, PendingEffect
  <2>7. mem' = [mem EXCEPT ![p] = [r EXCEPT !.pending = t]]
    BY <1>9, <2>5, Zenon DEF SendExchange
  <2>8. PICK m : SoundState(m) /\ mem' = [mem EXCEPT ![p] = m]
    BY <2>6, <2>7, Zenon
  <2>9. SoundCtl(c)' /\ SoundState(m)'
    BY <1>6, <2>3, <2>8, SoundStays DEF Inv
  <2>10. ProcsSound'
    BY <1>6, <2>4, <2>8, <2>9, ProcStep DEF Inv
  <2>11. OwnBytes'
    BY <1>7, <2>3, <2>4, OwnBytesStay DEF Inv
  <2>. QED
    BY <1>6, <1>8, <2>10, <2>11 DEF Inv
<1>10. CASE SendExchangeUnanswered(p, t)
  <2>1. Exit(p) /\ ~ Sending(Idle)
    BY <1>10 DEF SendExchangeUnanswered, Sending, Idle
  <2>2. SoundCtl(Idle)' /\ SoundState(FirstState)'
    BY <1>6, InitialSound, SoundStays DEF Inv
  <2>3. ProcsSound'
    BY <1>6, <2>1, <2>2, ProcStep DEF Inv, Exit
  <2>4. OwnBytes'
    BY <1>7, <2>1, OwnBytesStay DEF Inv, Exit
  <2>. QED
    BY <1>6, <1>8, <2>3, <2>4 DEF Inv
<1>. QED
  BY <1>9, <1>10

\* The one step that makes a process the owner of signed bytes.
LEMMA SignAllocationStep ==
    ASSUME Inv, NEW p \in Proc, NEW t \in Sig, SignAllocation(p, t)
    PROVE  Inv'
<1>1. ctl[p] \in Ctl /\ SoundCtl(ctl[p]) /\ mem[p] \in State /\ SoundState(mem[p])
  BY DEF Inv, ProcsSound
<1>2. tx[t].status = "unused" /\ hist' = hist
  BY DEF SignAllocation
<1>3. PICK h \in Tester \cup {Operator} : h = ctl[p].to
  BY <1>1 DEF Ctl
<1>. DEFINE signed == [Unused EXCEPT !.kind = "ALLOCATE_TESTER", !.to = h,
                                     !.status = "signed"]
<1>4. signed \in Tx /\ signed.status = "signed"
  <2>1. h \in Holder
    BY DEF Holder
  <2>2. signed \in Tx
    BY <2>1, InitialTypes DEF Tx, Status, Kind
  <2>3. signed.status = "signed"
    BY InitialTypes DEF Tx
  <2>. QED
    BY <2>2, <2>3
<1>5. tx' = [tx EXCEPT ![t] = signed]
  BY <1>3, Zenon DEF SignAllocation
<1>. HIDE DEF signed
<1>6. /\ Grows
      /\ ChainSound'
      /\ \A u \in Sig : tx'[u] = IF u = t THEN signed ELSE tx[u]
  BY <1>2, <1>4, <1>5, NewTransaction
<1>7. PICK c : c = RecordThen(p, t, "sendAllocation")
  OBVIOUS
<1>8. c \in Ctl /\ c.pc = "save" /\ c.ret = "sendAllocation" /\ c.sig = t
        /\ c.seen = ctl[p].seen
  BY <1>1, <1>7, RecordThenEffect DEF PC
<1>9. SoundCtl(c)
  BY <1>1, <1>8 DEF SoundCtl, Sending, Confirming
<1>10. ctl' = [ctl EXCEPT ![p] = c]
  BY <1>7 DEF SignAllocation
<1>11. PICK m : SoundState(m) /\ mem' = [mem EXCEPT ![p] = m]
  <2>1. PICK r \in State : r = mem[p]
    BY <1>1
  <2>2. SoundState([r EXCEPT !.tester = h, !.pending = t])
    BY <1>1, <2>1, PendingEffect
  <2>3. mem' = [mem EXCEPT ![p] = [r EXCEPT !.tester = h, !.pending = t]]
    BY <1>3, <2>1, Zenon DEF SignAllocation
  <2>. QED
    BY <2>2, <2>3, Zenon
<1>12. SoundCtl(c)' /\ SoundState(m)'
  BY <1>6, <1>9, <1>11, SoundStays DEF Inv
<1>13. ProcsSound'
  BY <1>6, <1>10, <1>11, <1>12, ProcStep DEF Inv
<1>14. OwnBytes'
  <2>1. \A q \in Proc : ctl'[q] = IF q = p THEN c ELSE ctl[q]
    BY <1>10 DEF Inv, ProcsSound
  <2>2. \A q \in Proc : q # p /\ Sending(ctl[q])
           => ctl[q].sig \in Sig /\ ctl[q].sig # t
    BY <1>2 DEF Inv, OwnBytes, ProcsSound, SoundCtl
  <2>. QED
    BY <1>4, <1>6, <1>8, <2>1, <2>2 DEF Inv, OwnBytes, Sending
<1>15. FilesSound'
  BY <1>6, FilesStay DEF SignAllocation, Inv, FilesSound
<1>. QED
  BY <1>6, <1>13, <1>14, <1>15 DEF Inv
\* Only the owner of signed bytes sends them.
LEMMA SendAllocationStep ==
    ASSUME Inv, NEW p \in Proc, SendAllocation(p)
    PROVE  Inv'
<1>1. ctl \in [Proc -> Ctl] /\ SoundCtl(ctl[p]) /\ ctl[p].pc = "sendAllocation"
  BY DEF SendAllocation, Inv, ProcsSound
<1>2. PICK t \in Sig : t = ctl[p].sig
  BY <1>1 DEF SoundCtl, Sending
<1>3. tx \in [Sig -> Tx] /\ tx[t] \in Tx /\ tx[t].status = "signed"
  BY <1>1, <1>2 DEF Inv, ChainSound, OwnBytes, Sending
<1>4. PICK old \in Tx : old = tx[t]
  BY <1>3
<1>5. [old EXCEPT !.status = "sent"] \in Tx
  BY DEF Tx, Status
<1>6. tx' = [tx EXCEPT ![t] = [old EXCEPT !.status = "sent"]]
  BY <1>2, <1>4, Zenon DEF SendAllocation
<1>7. PICK new \in Tx : tx' = [tx EXCEPT ![t] = new]
  BY <1>5, <1>6, Zenon
<1>8. tx' \in [Sig -> Tx] /\ \A u \in Sig : u # t => tx'[u] = tx[u]
  BY <1>3, <1>7
<1>9. Grows /\ ChainSound'
  <2>1. hist' = hist
    BY DEF SendAllocation
  <2>2. Grows
    BY <1>3, <1>8, <2>1 DEF Grows, Inv, ChainSound
  <2>. QED
    BY <1>8, <2>1, <2>2 DEF Inv, ChainSound
<1>10. \A q \in Proc : q # p /\ Sending(ctl[q])
          => tx'[ctl[q].sig].status = tx[ctl[q].sig].status
  BY <1>1, <1>2, <1>8 DEF Inv, OwnBytes, ProcsSound, SoundCtl, Sending
<1>11. PICK c, m : /\ ctl' = [ctl EXCEPT ![p] = c]
                   /\ mem' = [mem EXCEPT ![p] = m]
                   /\ SoundCtl(c) /\ SoundState(m) /\ ~ Sending(c)
  <2>1. CASE Goto(p, "confirmAllocation") /\ UNCHANGED mem
    <3>1. PICK c \in Ctl : /\ ctl' = [ctl EXCEPT ![p] = c]
                           /\ c.pc = "confirmAllocation"
                           /\ c.sig = ctl[p].sig
                           /\ c.seen = ctl[p].seen
      BY <1>1, <2>1, GotoEffect DEF PC
    <3>2. SoundCtl(c) /\ ~ Sending(c)
      BY <1>1, <1>2, <3>1 DEF SoundCtl, Sending, Confirming
    <3>3. mem' = [mem EXCEPT ![p] = mem[p]] /\ SoundState(mem[p])
      BY <2>1 DEF Inv, ProcsSound
    <3>. QED
      BY <3>1, <3>2, <3>3
  <2>2. CASE Exit(p)
    <3>1. SoundCtl(Idle) /\ SoundState(FirstState) /\ ~ Sending(Idle)
      BY InitialSound DEF Inv, Sending, Idle
    <3>. QED
      BY <2>2, <3>1 DEF Exit
  <2>. QED
    BY <2>1, <2>2 DEF SendAllocation
<1>12. SoundCtl(c)' /\ SoundState(m)'
  BY <1>9, <1>11, SoundStays DEF Inv
<1>13. ProcsSound'
  BY <1>9, <1>11, <1>12, ProcStep DEF Inv
<1>14. OwnBytes'
  BY <1>10, <1>11, OwnBytesStay DEF Inv
<1>15. FilesSound'
  BY <1>9, FilesStay DEF SendAllocation, Inv, FilesSound
<1>. QED
  BY <1>9, <1>13, <1>14, <1>15 DEF Inv

\* Success is recorded only after it was observed.
LEMMA ConfirmStep ==
    ASSUME Inv, NEW p \in Proc,
           ConfirmExchange(p) \/ ConfirmAllocation(p) \/ AllocationAfter(p)
    PROVE  Inv'
<1>1. /\ ctl \in [Proc -> Ctl] /\ SoundCtl(ctl[p])
      /\ mem[p] \in State /\ SoundState(mem[p])
  BY DEF Inv, ProcsSound
<1>2. UNCHANGED <<chainVars, disk, torn, manifest, lost>>
  BY DEF ConfirmExchange, ConfirmAllocation, AllocationAfter
<1>3. ASSUME Exit(p) PROVE Inv'
  BY <1>2, <1>3, ExitStep DEF Inv, FilesSound
<1>4. PICK t : t = ctl[p].sig
  OBVIOUS
<1>5. PICK r \in State : r = mem[p] /\ SoundState(r)
  BY <1>1
<1>6. CASE ConfirmExchange(p)
  <2>1. t \in Sig
    BY <1>1, <1>4, <1>6 DEF ConfirmExchange, SoundCtl, Confirming
  <2>2. ASSUME Confirmed(ctl[p].sig),
               mem' = [mem EXCEPT ![p].sigs = @ \cup {ctl[p].sig},
                                  ![p].pending = NoSig],
               SaveThen(p, "verify")
        PROVE  Inv'
    <3>1. tx[t].status = "ok"
      BY <1>4, <2>2 DEF Confirmed
    <3>2. TrueSnapshot(r.last)
      BY <1>5 DEF SoundState
    <3>3. SoundState([r EXCEPT !.sigs = @ \cup {t}, !.pending = NoSig])
      BY <1>5, <2>1, <3>1, <3>2, RecordEffect
    <3>4. mem' = [mem EXCEPT ![p] =
                    [r EXCEPT !.sigs = @ \cup {t}, !.pending = NoSig]]
      BY <1>4, <1>5, <2>2, Zenon
    <3>5. PICK m : SoundState(m) /\ mem' = [mem EXCEPT ![p] = m]
      BY <3>3, <3>4, Zenon
    <3>. QED
      BY <1>2, <2>2, <3>5, SaveThenStep
  <2>. QED
    BY <1>3, <1>6, <2>2 DEF ConfirmExchange
<1>7. CASE ConfirmAllocation(p)
  <2>1. t \in Sig
    BY <1>1, <1>4, <1>7 DEF ConfirmAllocation, SoundCtl, Confirming
  <2>2. ASSUME Confirmed(ctl[p].sig), Goto(p, "verifyAllocation"), UNCHANGED mem
        PROVE  Inv'
    <3>1. PICK c \in Ctl : /\ ctl' = [ctl EXCEPT ![p] = c]
                           /\ c.pc = "verifyAllocation"
                           /\ c.sig = ctl[p].sig
                           /\ c.seen = ctl[p].seen
      BY <1>1, <2>2, GotoEffect DEF PC
    <3>2. SoundCtl(c) /\ ~ Sending(c)
      BY <1>1, <1>4, <2>1, <2>2, <3>1
         DEF SoundCtl, Sending, Confirming, Confirmed
    <3>. QED
      BY <1>2, <2>2, <3>1, <3>2, QuietCtlStep
  <2>. QED
    BY <1>3, <1>7, <2>2 DEF ConfirmAllocation
<1>8. CASE AllocationAfter(p)
  <2>1. t \in Sig /\ tx[t].status = "ok"
    BY <1>1, <1>4, <1>8 DEF AllocationAfter, SoundCtl
  <2>2. CASE Exit(p)
    BY <1>3, <2>2
  <2>3. CASE ~ Exit(p)
    <3>1. PICK s \in Readable :
             /\ mem' = [mem EXCEPT ![p].sigs = @ \cup {ctl[p].sig},
                                   ![p].pending = NoSig,
                                   ![p].last = Reconcile(s, mem[p])]
             /\ SaveThen(p, "final")
      BY <1>8, <2>3, Zenon DEF AllocationAfter
    <3>2. PICK after : after = Reconcile(s, mem[p])
      OBVIOUS
    <3>3. TrueSnapshot(after)
      BY <1>1, <3>2, ReconcileTrue DEF Inv
    <3>4. SoundState([r EXCEPT !.sigs = @ \cup {t}, !.pending = NoSig,
                               !.last = after])
      BY <1>5, <2>1, <3>3, RecordEffect
    <3>5. mem' = [mem EXCEPT ![p] =
                    [r EXCEPT !.sigs = @ \cup {t}, !.pending = NoSig,
                              !.last = after]]
      BY <1>4, <1>5, <3>1, <3>2, Zenon
    <3>6. PICK m : SoundState(m) /\ mem' = [mem EXCEPT ![p] = m]
      BY <3>4, <3>5, Zenon
    <3>. QED
      BY <1>2, <3>1, <3>6, SaveThenStep
  <2>. QED
    BY <2>2, <2>3
<1>. QED
  BY <1>6, <1>7, <1>8
\* After a reconciliation the process keeps it and goes on, or ends.
LEMMA ReconcileAfterStep ==
    ASSUME Inv, NEW p \in Proc, ReconcileAfter(p)
    PROVE  Inv'
<1>1. ctl[p] \in Ctl /\ mem[p] \in State /\ SoundState(mem[p])
  BY DEF Inv, ProcsSound
<1>2. UNCHANGED <<chainVars, disk, torn, manifest, lost>>
  BY DEF ReconcileAfter
<1>3. CASE Exit(p)
  BY <1>2, <1>3, ExitStep DEF Inv, FilesSound
<1>4. CASE ~ Exit(p)
  <2>1. PICK s \in Readable : /\ mem' = [mem EXCEPT ![p].last = Reconcile(s, mem[p])]
                              /\ ctl' = [ctl EXCEPT ![p] = NextExchange(p)]
    BY <1>4, Zenon DEF ReconcileAfter
  <2>2. PICK after : after = Reconcile(s, mem[p])
    OBVIOUS
  <2>3. TrueSnapshot(after)
    BY <1>1, <2>2, ReconcileTrue DEF Inv
  <2>4. PICK r \in State : r = mem[p] /\ SoundState(r)
    BY <1>1
  <2>5. SoundState([r EXCEPT !.last = after])
    BY <2>3, <2>4, LastEffect
  <2>6. mem' = [mem EXCEPT ![p] = [r EXCEPT !.last = after]]
    BY <2>1, <2>2, <2>4, Zenon
  <2>7. PICK m : SoundState(m) /\ mem' = [mem EXCEPT ![p] = m]
    BY <2>5, <2>6, Zenon
  <2>8. PICK c \in Ctl : /\ c = NextExchange(p)
                         /\ c.pc = "save"
                         /\ c.ret \in {"reconcile", "final"}
                         /\ c.seen = FirstSnapshot
    BY <1>1, NextExchangeEffect
  <2>9. SoundCtl(c) /\ ~ Sending(c)
    BY <2>8, InitialSound DEF Inv, SoundCtl, Sending, Confirming
  <2>10. ctl' = [ctl EXCEPT ![p] = c]
    BY <2>1, <2>8
  <2>. QED
    BY <1>2, <2>7, <2>9, <2>10, QuietStep DEF Inv, FilesSound
<1>. QED
  BY <1>3, <1>4

\* inspect lists the pending signature when its success is proven, and keeps
\* the snapshot it saw either way.
LEMMA InspectPendingStep ==
    ASSUME Inv, NEW p \in Proc, InspectPending(p)
    PROVE  Inv'
<1>1. /\ mem[p] \in State /\ SoundState(mem[p])
      /\ TrueSnapshot(ctl[p].seen)
  BY DEF Inv, ProcsSound, SoundCtl
<1>2. PICK r \in State : r = mem[p] /\ SoundState(r)
  BY <1>1
<1>3. PICK seen : seen = ctl[p].seen /\ TrueSnapshot(seen)
  BY <1>1
<1>4. PICK m : SoundState(m) /\ mem' = [mem EXCEPT ![p] = m]
  <2>1. ASSUME PendingProven(p), mem' = [mem EXCEPT ![p] = Recovered(p)]
        PROVE  \E m : SoundState(m) /\ mem' = [mem EXCEPT ![p] = m]
    <3>1. PICK t \in Sig : t = r.pending /\ tx[t].status = "ok"
      BY <1>2, <2>1 DEF PendingProven, State
    <3>2. SoundState([r EXCEPT !.sigs = @ \cup {t}, !.pending = NoSig, !.last = seen])
      BY <1>2, <1>3, <3>1, RecordEffect
    <3>3. Recovered(p) = [r EXCEPT !.sigs = @ \cup {t}, !.pending = NoSig,
                                   !.last = seen]
      BY <1>2, <1>3, <3>1, Zenon DEF Recovered
    <3>. QED
      BY <2>1, <3>2, <3>3, Zenon
  <2>2. ASSUME mem' = [mem EXCEPT ![p].last = ctl[p].seen]
        PROVE  \E m : SoundState(m) /\ mem' = [mem EXCEPT ![p] = m]
    <3>1. SoundState([r EXCEPT !.last = seen])
      BY <1>2, <1>3, LastEffect
    <3>2. mem' = [mem EXCEPT ![p] = [r EXCEPT !.last = seen]]
      BY <1>2, <1>3, <2>2, Zenon
    <3>. QED
      BY <3>1, <3>2, Zenon
  <2>. QED
    BY <2>1, <2>2, Zenon DEF InspectPending, Recover, Retain
<1>5. AfterInspection(p) \in {"verify", "final", "idle", "publish"}
  BY DEF AfterInspection
<1>. QED
  BY <1>4, <1>5, SaveThenStep DEF InspectPending, Recover, Retain

\* What is published is what the copy lists.
LEMMA PublishStep ==
    ASSUME Inv, NEW p \in Proc, Publish(p)
    PROVE  Inv'
<1>1. Grows /\ ChainSound'
  BY DEF Publish, Inv, Grows, ChainSound, chainVars
<1>2. PICK m : m = mem[p] /\ SoundState(m)
  BY DEF Inv, ProcsSound
<1>3. SoundCtl(Idle)' /\ SoundState(FirstState)' /\ ~ Sending(Idle)
  BY <1>1, InitialSound, SoundStays DEF Inv, Sending, Idle
<1>4. ProcsSound'
  BY <1>1, <1>3, ProcStep DEF Inv, Publish, Exit
<1>5. OwnBytes'
  BY <1>3, OwnBytesStay DEF Inv, Publish, Exit, chainVars
<1>6. manifest' = [sigs |-> m.sigs, pending |-> m.pending]
  BY <1>2 DEF Publish
<1>7. tx' = tx /\ m.sigs \subseteq Sig /\ m.pending \in Sig \cup {NoSig}
      /\ AllSucceeded(m.sigs)
  BY <1>2 DEF Publish, chainVars, SoundState, State
<1>8. PICK d : d = disk
  OBVIOUS
<1>9. SoundState(d)' /\ disk' = d
  BY <1>1, <1>8, SoundStays DEF Publish, Inv, FilesSound
<1>10. FilesSound'
  <2>1. SoundState(disk)'
    BY <1>9
  <2>2. torn' \in BOOLEAN /\ lost' \subseteq Sig
    BY DEF Publish, Inv, FilesSound
  <2>3. /\ manifest' \in [sigs : SUBSET Sig, pending : Sig \cup {NoSig}]
        /\ AllSucceeded(manifest.sigs)'
    BY <1>6, <1>7 DEF AllSucceeded
  <2>. QED
    BY <2>1, <2>2, <2>3 DEF FilesSound
<1>. QED
  BY <1>1, <1>4, <1>5, <1>10 DEF Inv

\* A process that ends early loses its memory; a kill in saveState also
\* leaves the file torn.
LEMMA StopStep ==
    ASSUME Inv, NEW p \in Proc, Stop(p) \/ StopWhileWriting(p)
    PROVE  Inv'
<1>1. lost' \subseteq Sig
  BY DEF Stop, StopWhileWriting, Forgotten, Inv, FilesSound
<1>. QED
  BY <1>1, ExitStep DEF Stop, StopWhileWriting, Inv, FilesSound

\* One step of a running command.
LEMMA CommandStep ==
    ASSUME Inv, NEW p \in Proc, Step(p)
    PROVE  Inv'
<1>1. CASE Save(p)
  BY <1>1, SaveStep
<1>2. CASE ReconcileBefore(p)
  BY <1>2, GotoWithStep, ExitStep DEF ReconcileBefore, Inv, FilesSound
<1>3. CASE \E t \in Sig : SendExchange(p, t) \/ SendExchangeUnanswered(p, t)
  BY <1>3, SendExchangeStep
<1>4. CASE SendRefused(p) \/ SimulationFails(p)
  BY <1>4, ExitStep DEF SendRefused, SimulationFails, Inv, FilesSound
<1>5. CASE ConfirmExchange(p) \/ ConfirmAllocation(p) \/ AllocationAfter(p)
  BY <1>5, ConfirmStep
<1>6. CASE ReconcileAfter(p)
  BY <1>6, ReconcileAfterStep
<1>7. CASE Finish(p)
  <2>1. PICK m : m = mem[p]
    OBVIOUS
  <2>2. SoundState(m) /\ mem' = [mem EXCEPT ![p] = m]
    BY <1>7, <2>1 DEF Finish, Inv, ProcsSound
  <2>. QED
    BY <1>7, <2>2, SaveThenStep DEF Finish
<1>8. CASE AllocationBefore(p)
  BY <1>8, GotoWithStep, ExitStep DEF AllocationBefore, Inv, FilesSound
<1>9. CASE \E t \in Sig : SignAllocation(p, t)
  BY <1>9, SignAllocationStep
<1>10. CASE SendAllocation(p)
  BY <1>10, SendAllocationStep
<1>11. CASE InspectReconcile(p)
  BY <1>11, GotoWithStep DEF InspectReconcile
<1>12. CASE InspectPending(p)
  BY <1>12, InspectPendingStep
<1>13. CASE Publish(p)
  BY <1>13, PublishStep
<1>. QED
  BY <1>1, <1>2, <1>3, <1>4, <1>5, <1>6, <1>7, <1>8, <1>9, <1>10, <1>11, <1>12,
     <1>13
     DEF Step
-----------------------------------------------------------------------------
(* The steps of the chain and of the testers                               *)

\* A transaction that was handed over is settled, one way or another.
LEMMA SettleStep ==
    ASSUME Inv, NEW t \in Sig, Settle(t), UNCHANGED cliVars
    PROVE  Inv'
<1>1. /\ Finalized \in Ledger
      /\ tx \in [Sig -> Tx]
      /\ tx[t].status = "sent"
      /\ hist \in Seq(Ledger) /\ Len(hist) > 0
  BY DEF Inv, ChainSound, Finalized, Settle, Finalize, FinalizeWithError, Expire
<1>2. PICK old \in Tx : old = tx[t]
  BY <1>1
<1>3. PICK new \in Tx : tx' = [tx EXCEPT ![t] = new]
  <2>1. CASE Finalize(t)
    <3>1. PICK n \in Nat : n = Len(hist) + 1
      BY <1>1
    <3>2. [old EXCEPT !.status = "ok", !.slot = n] \in Tx
      BY DEF Tx, Status
    <3>3. tx' = [tx EXCEPT ![t] = [old EXCEPT !.status = "ok", !.slot = n]]
      BY <1>2, <2>1, <3>1, Zenon DEF Finalize
    <3>. QED
      BY <3>2, <3>3, Zenon
  <2>2. CASE FinalizeWithError(t)
    <3>1. PICK n \in Nat : n = Len(hist)
      BY <1>1
    <3>2. [old EXCEPT !.status = "failed", !.slot = n] \in Tx
      BY DEF Tx, Status
    <3>3. tx' = [tx EXCEPT ![t] = [old EXCEPT !.status = "failed", !.slot = n]]
      BY <1>2, <2>2, <3>1, Zenon DEF FinalizeWithError
    <3>. QED
      BY <3>2, <3>3, Zenon
  <2>3. CASE Expire(t)
    <3>1. [old EXCEPT !.status = "expired"] \in Tx
      BY DEF Tx, Status
    <3>2. tx' = [tx EXCEPT ![t] = [old EXCEPT !.status = "expired"]]
      BY <1>2, <2>3, Zenon DEF Expire
    <3>. QED
      BY <3>1, <3>2, Zenon
  <2>. QED
    BY <2>1, <2>2, <2>3 DEF Settle
<1>4. /\ tx' \in [Sig -> Tx]
      /\ \A u \in Sig : u # t => tx'[u] = tx[u]
  BY <1>1, <1>3
<1>5. \/ hist' = hist
      \/ /\ Executable(Finalized, old)
         /\ hist' = Append(hist, Execute(Finalized, old))
  BY <1>2, Zenon DEF Settle, Finalize, FinalizeWithError, Expire
<1>6. Executable(Finalized, old) => Execute(Finalized, old) \in Ledger
  BY <1>1, ExecuteType
<1>7. PICK l \in Ledger : hist' = hist \/ hist' = Append(hist, l)
  <2>1. CASE hist' = hist
    BY <1>1, <2>1
  <2>2. CASE Executable(Finalized, old) /\ hist' = Append(hist, Execute(Finalized, old))
    <3>1. Execute(Finalized, old) \in Ledger
      BY <1>6, <2>2
    <3>. QED
      BY <2>2, <3>1
  <2>. QED
    BY <1>5, <2>1, <2>2
<1>8. /\ hist' \in Seq(Ledger)
      /\ Len(hist') >= Len(hist)
      /\ \A s \in 1 .. Len(hist) : hist'[s] = hist[s]
  BY <1>1, <1>7
<1>9. Grows
  BY <1>1, <1>4, <1>8 DEF Grows
<1>10. ChainSound'
  BY <1>1, <1>4, <1>8 DEF Inv, ChainSound
<1>11. ProcsSound' /\ FilesSound' /\ OwnBytes'
  <2>1. ASSUME NEW q \in Proc
        PROVE  (SoundCtl(ctl[q]) /\ SoundState(mem[q]))'
    <3>1. PICK c, m : c = ctl[q] /\ m = mem[q]
      OBVIOUS
    <3>2. SoundCtl(c)' /\ SoundState(m)'
      BY <1>9, <3>1, SoundStays DEF Inv, ProcsSound
    <3>. QED
      BY <3>1, <3>2 DEF cliVars, SoundCtl, SoundState, Sending, Confirming
  <2>2. ProcsSound'
    BY <2>1 DEF Inv, ProcsSound, cliVars
  <2>3. FilesSound'
    BY <1>9, FilesStay DEF Inv, FilesSound, cliVars
  <2>4. OwnBytes'
    BY <1>1, <1>4 DEF Inv, ProcsSound, SoundCtl, OwnBytes, Sending, cliVars
  <2>. QED
    BY <2>2, <2>3, <2>4
<1>. QED
  BY <1>10, <1>11 DEF Inv

\* A move of a tester's own adds a slot to the history and nothing else.
LEMMA TesterStep ==
    ASSUME Inv, NEW u \in Tester, NEW k \in Exchange,
           TesterExchange(u, k) \/ TesterDonation(u)
    PROVE  Inv'
<1>1. Finalized \in Ledger /\ hist \in Seq(Ledger) /\ Len(hist) > 0
  BY DEF Inv, ChainSound, Finalized
<1>2. u \in Holder /\ Escrow \in Holder
  BY DEF Holder
<1>3. UNCHANGED <<tx, cliVars>>
  BY DEF TesterExchange, TesterDonation
<1>4. PICK l \in Ledger : hist' = Append(hist, l)
  <2>1. CASE TesterExchange(u, k)
    <3>. DEFINE t == [Unused EXCEPT !.kind = k, !.by = u]
    <3>1. t \in Tx
      BY <1>2, InitialTypes DEF Tx, Kind, Exchange
    <3>2. Executable(Finalized, t) /\ hist' = Append(hist, Execute(Finalized, t))
      BY <2>1, Zenon DEF TesterExchange
    <3>. HIDE DEF t
    <3>3. Execute(Finalized, t) \in Ledger
      BY <1>1, <3>1, <3>2, ExecuteType
    <3>. QED
      BY <3>2, <3>3
  <2>2. CASE TesterDonation(u)
    <3>1. PICK f \in [Holder -> Nat] : f = Move(Finalized.tokens, u, Escrow)
      <4>1. Finalized.tokens[u] >= Backing
        BY <2>2 DEF TesterDonation
      <4>2. Finalized.tokens \in [Holder -> Nat]
        BY <1>1 DEF Ledger
      <4>. QED
        BY <1>2, <4>1, <4>2, MoveType
    <3>2. PICK now \in Ledger : now = Finalized
      BY <1>1
    <3>3. [now EXCEPT !.tokens = f] \in Ledger
      BY DEF Ledger
    <3>4. hist' = Append(hist, [now EXCEPT !.tokens = f])
      BY <2>2, <3>1, <3>2, Zenon DEF TesterDonation
    <3>. QED
      BY <3>3, <3>4, Zenon
  <2>. QED
    BY <2>1, <2>2
<1>5. Grows
  BY <1>1, <1>3, <1>4 DEF Grows
<1>6. ChainSound'
  BY <1>1, <1>3, <1>4 DEF Inv, ChainSound
<1>7. ASSUME NEW q \in Proc
      PROVE  (SoundCtl(ctl[q]) /\ SoundState(mem[q]))'
  <2>1. PICK c, m : c = ctl[q] /\ m = mem[q]
    OBVIOUS
  <2>2. SoundCtl(c)' /\ SoundState(m)'
    BY <1>5, <2>1, SoundStays DEF Inv, ProcsSound
  <2>. QED
    BY <1>3, <2>1, <2>2 DEF cliVars, SoundCtl, SoundState, Sending, Confirming
<1>8. ProcsSound'
  BY <1>3, <1>7 DEF Inv, ProcsSound, cliVars
<1>9. FilesSound'
  BY <1>3, <1>5, FilesStay DEF Inv, FilesSound, cliVars
<1>10. OwnBytes'
  BY <1>3 DEF Inv, OwnBytes, Sending, cliVars
<1>. QED
  BY <1>6, <1>8, <1>9, <1>10 DEF Inv

-----------------------------------------------------------------------------
(* The theorems                                                            *)

\* The invariant holds once setup is complete.
LEMMA InvInit == Init => Inv
<1>. SUFFICES ASSUME Init PROVE Inv
  OBVIOUS
<1>1. Escrow \in Holder /\ Operator \in Holder /\ Operator # Escrow
  BY HolderAssumption DEF Holder
<1>2. ChainSound
  <2>1. PICK own \in Backing .. Supply, u \in Tester \cup {Operator} :
           hist = <<[owner |-> Escrow, tokens |-> Shared(own, u)]>>
    BY Zenon DEF Init, ChainInit
  <2>2. Shared(own, u) \in [Holder -> Nat] /\ Shared(own, u)[Escrow] = 0
    BY <1>1, HolderAssumption, SharedType
  <2>3. [owner |-> Escrow, tokens |-> Shared(own, u)] \in Ledger
    BY <1>1, <2>2 DEF Ledger
  <2>. QED
    BY <1>1, <2>1, <2>2, <2>3, InitialTypes DEF Init, ChainInit, ChainSound
<1>3. SoundCtl(Idle) /\ SoundState(FirstState) /\ ~ Sending(Idle)
  BY <1>2, InitialSound DEF Sending, Idle
<1>4. ProcsSound
  BY <1>3, InitialTypes DEF Init, ProcsSound
<1>5. FilesSound
  BY <1>3 DEF Init, FilesSound, AllSucceeded
<1>6. OwnBytes
  BY <1>3 DEF Init, OwnBytes
<1>. QED
  BY <1>2, <1>4, <1>5, <1>6 DEF Inv

\* Every step of the chain, of a command or of a kill preserves the invariant.
LEMMA InvNext == Inv /\ [Next]_vars => Inv'
<1>. SUFFICES ASSUME Inv, [Next]_vars PROVE Inv'
  OBVIOUS
<1>1. CASE \E t \in Sig : Settle(t) /\ UNCHANGED cliVars
  BY <1>1, SettleStep
<1>2. CASE \E u \in Tester, k \in Exchange : TesterExchange(u, k)
  BY <1>2, TesterStep
<1>3. CASE \E u \in Tester : TesterDonation(u)
  BY <1>3, TesterStep DEF Exchange
<1>4. CASE \E p \in Proc : Command(p)
  BY <1>4, LoadStep
<1>5. CASE \E p \in Proc : Step(p)
  BY <1>5, CommandStep
<1>6. CASE \E p \in Proc : Stop(p) \/ StopWhileWriting(p)
  BY <1>6, StopStep
<1>7. CASE UNCHANGED vars
  BY <1>7 DEF vars, Inv, ChainSound, ProcsSound, FilesSound, OwnBytes, SoundCtl,
              SoundState, TrueSnapshot, AllSucceeded, Sending, Confirming
<1>. QED
  BY <1>1, <1>2, <1>3, <1>4, <1>5, <1>6, <1>7 DEF Next, Chain

\* Hence it always holds.
LEMMA InvAlways == Spec => []Inv
<1>. QED
  BY InvInit, InvNext, PTL DEF Spec

\* Every variable always has its type, however many commands run at once and
\* wherever they stop: main, sendRecorded, runAllocateTester and the inspect
\* branch never write a state that loadState's reader could not have meant.
THEOREM TypeCorrect == Spec => []TypeOK
<1>1. Inv => TypeOK
  BY DEF Inv, ChainSound, ProcsSound, FilesSound, SoundState, TypeOK
<1>. QED
  BY <1>1, InvAlways, PTL

\* sendRecorded, runAllocateTester and inspect list a signature as a success
\* only if it finalized without error; copies of the state that overtake one
\* another can lose such a signature, never invent one.
THEOREM OnlySuccessesRecorded == Spec => []RecordedSucceeded
<1>1. Inv => RecordedSucceeded
  <2>. SUFFICES ASSUME Inv, NEW t,
                       \/ t \in disk.sigs \cup manifest.sigs
                       \/ \E p \in Proc : t \in mem[p].sigs
                PROVE  tx[t].status = "ok"
    BY DEF RecordedSucceeded
  <2>1. CASE t \in disk.sigs \cup manifest.sigs
    BY <2>1 DEF Inv, FilesSound, SoundState, AllSucceeded
  <2>2. CASE \E p \in Proc : t \in mem[p].sigs
    BY <2>2 DEF Inv, ProcsSound, SoundState, AllSucceeded
  <2>. QED
    BY <2>1, <2>2
<1>. QED
  BY <1>1, InvAlways, PTL

\* The snapshot that reconcile built and saveState kept is what one finalized
\* slot really held, for any lag of the node and any number of terminals.
THEOREM SavedSnapshotTrue == Spec => []SnapshotConsistent
<1>1. Inv => SnapshotConsistent
  BY DEF Inv, FilesSound, SoundState, TrueSnapshot, SnapshotConsistent
<1>. QED
  BY <1>1, InvAlways, PTL


-----------------------------------------------------------------------------
(* The custody and the evidence                                            *)
(*                                                                         *)
(* For any number of terminals: nothing but a capture, a release or a      *)
(* donation moves the custody, and the operator's successful transactions  *)
(* say who holds the asset.  For one terminal: the promises of the         *)
(* recovery evidence.  Each action is first reduced to what it does to the *)
(* fields of the one control state and the one copy it touches; the        *)
(* invariants are then preserved by these effects.                         *)

-----------------------------------------------------------------------------
(* What a step does to its process                                         *)

\* Process p goes on with control state c and copy m; nobody else moves.
Becomes(p, c, m) ==
    /\ ctl' = [ctl EXCEPT ![p] = c]
    /\ mem' = [mem EXCEPT ![p] = m]

SameTask(c0, c) == c.op = c0.op /\ c.to = c0.to /\ c.sig = c0.sig

\* The copies differ in their snapshot at most.
SameEvidence(m0, m) ==
    m.pending = m0.pending /\ m.sigs = m0.sigs /\ m.tester = m0.tester

\* t succeeded, and is a success and no longer pending in m.
Lists(m0, m, t) ==
    /\ t \in Sig
    /\ tx[t].status = "ok"
    /\ m.sigs = m0.sigs \cup {t}
    /\ m.pending = NoSig
    /\ m.tester = m0.tester

SavesFor(c, pcs) == c.pc = "save" /\ c.ret \in pcs

\* What a command does between two saves, as long as it broadcasts nothing.
Works(c0, m0, c, m) ==
    \/ c = Idle
    \/ /\ m = m0
       /\ SameTask(c0, c)
       /\ \/ c0.pc = "reconcile" /\ c.pc = "send" /\ c.op \in Exchange
          \/ c0.pc = "reconcile" /\ c.pc = "sign" /\ c.op = "ALLOCATE_TESTER"
          \/ c0.pc = "reconcile" /\ c.pc = "status"
          \/ c0.pc = "confirmAllocation" /\ c.pc = "verifyAllocation"
          \/ c0.pc = "final" /\ SavesFor(c, {"idle"})
    \/ /\ c0.pc = "confirm" /\ SavesFor(c, {"verify"})
       /\ SameTask(c0, c) /\ Lists(m0, m, c0.sig)
    \/ /\ c0.pc = "verify" /\ SavesFor(c, {"reconcile", "final"})
       /\ c.ret = "reconcile" => c.op \in Exchange
       /\ SameEvidence(m0, m)
    \/ /\ c0.pc = "verifyAllocation" /\ SavesFor(c, {"final"})
       /\ SameTask(c0, c) /\ Lists(m0, m, c0.sig)
    \/ /\ c0.pc = "status" /\ SavesFor(c, {"idle", "publish"})
       /\ SameEvidence(m0, m) \/ Lists(m0, m, m0.pending)

Quiet(p) ==
    /\ ctl[p].pc \notin {"idle", "save"}
    /\ UNCHANGED <<chainVars, disk, torn, lost>>
    /\ \E c \in Ctl, m \in State : Becomes(p, c, m) /\ Works(ctl[p], mem[p], c, m)

\* A process that ends.
LEMMA ExitEffect ==
    ASSUME NEW p \in Proc, Exit(p)
    PROVE  Idle \in Ctl /\ FirstState \in State /\ Becomes(p, Idle, FirstState)
<1>. QED
  BY InitialTypes DEF Exit, Becomes

\* A process that ends has done no work.
LEMMA QuietExit ==
    ASSUME NEW p \in Proc, Exit(p), ctl[p].pc \notin {"idle", "save"},
           UNCHANGED <<chainVars, disk, torn, lost>>
    PROVE  Quiet(p)
<1>. QED
  BY ExitEffect DEF Quiet, Works

\* The snapshot before an exchange, an allocation or an inspection.
LEMMA QuietGotoWith ==
    ASSUME Inv, NEW p \in Proc, ctl[p].pc = "reconcile",
           UNCHANGED <<chainVars, disk, torn, mem, manifest, lost>>,
           NEW pc \in {"send", "sign", "status"}, NEW s \in Readable,
           pc = "send" => ctl[p].op \in Exchange,
           pc = "sign" => ctl[p].op = "ALLOCATE_TESTER",
           GotoWith(p, pc, Reconcile(s, mem[p]))
    PROVE  Quiet(p)
<1>1. ctl \in [Proc -> Ctl] /\ mem \in [Proc -> State] /\ ChainSound
  BY DEF Inv, ProcsSound
<1>2. PICK seen \in Snapshot : seen = Reconcile(s, mem[p])
  BY <1>1, ReconcileTrue DEF TrueSnapshot
<1>3. PICK c \in Ctl : /\ ctl' = [ctl EXCEPT ![p] = c]
                       /\ c.pc = pc /\ c.op = ctl[p].op
                       /\ c.to = ctl[p].to /\ c.sig = ctl[p].sig
  BY <1>1, <1>2, GotoWithEffect DEF PC
<1>4. mem[p] \in State /\ Becomes(p, c, mem[p])
  BY <1>1, <1>3 DEF Becomes
<1>5. Works(ctl[p], mem[p], c, mem[p])
  BY <1>3 DEF Works, SameTask
<1>. QED
  BY <1>4, <1>5 DEF Quiet

\* Listing a success, with a new snapshot or with the old one.
LEMMA ListEffect ==
    ASSUME NEW r \in State, NEW t \in Sig, tx[t].status = "ok", NEW s \in Snapshot
    PROVE  \E m, n \in State :
              /\ m = [r EXCEPT !.sigs = @ \cup {t}, !.pending = NoSig]
              /\ n = [r EXCEPT !.sigs = @ \cup {t}, !.pending = NoSig, !.last = s]
              /\ Lists(r, m, t)
              /\ Lists(r, n, t)
<1>1. PICK g \in SUBSET Sig : g = r.sigs \cup {t}
  BY DEF State
<1>2. [r EXCEPT !.sigs = g, !.pending = NoSig] \in State
  BY DEF State
<1>3. [r EXCEPT !.sigs = g, !.pending = NoSig, !.last = s] \in State
  BY DEF State
<1>4. /\ [r EXCEPT !.sigs = g, !.pending = NoSig].sigs = g
      /\ [r EXCEPT !.sigs = g, !.pending = NoSig].pending = NoSig
      /\ [r EXCEPT !.sigs = g, !.pending = NoSig].tester = r.tester
  BY DEF State
<1>5. /\ [r EXCEPT !.sigs = g, !.pending = NoSig, !.last = s].sigs = g
      /\ [r EXCEPT !.sigs = g, !.pending = NoSig, !.last = s].pending = NoSig
      /\ [r EXCEPT !.sigs = g, !.pending = NoSig, !.last = s].tester = r.tester
  BY DEF State
<1>6. Lists(r, [r EXCEPT !.sigs = g, !.pending = NoSig], t)
  BY <1>1, <1>4, Zenon DEF Lists
<1>7. Lists(r, [r EXCEPT !.sigs = g, !.pending = NoSig, !.last = s], t)
  BY <1>1, <1>5, Zenon DEF Lists
<1>. QED
  BY <1>1, <1>2, <1>3, <1>6, <1>7, Zenon

\* Replacing the snapshot keeps the evidence.
LEMMA SnapshotEffect ==
    ASSUME NEW r \in State, NEW s \in Snapshot
    PROVE  \E m \in State : m = [r EXCEPT !.last = s] /\ SameEvidence(r, m)
<1>1. [r EXCEPT !.last = s] \in State
  BY DEF State
<1>2. /\ [r EXCEPT !.last = s].sigs = r.sigs
      /\ [r EXCEPT !.last = s].pending = r.pending
      /\ [r EXCEPT !.last = s].tester = r.tester
  BY DEF State
<1>. QED
  BY <1>1, <1>2, Zenon DEF SameEvidence

\* The commands between two saves, one action at a time.
LEMMA QuietEffect ==
    ASSUME Inv, NEW p \in Proc,
           \/ ReconcileBefore(p) \/ SendRefused(p) \/ ConfirmExchange(p)
           \/ ReconcileAfter(p) \/ Finish(p) \/ AllocationBefore(p)
           \/ SimulationFails(p) \/ ConfirmAllocation(p) \/ AllocationAfter(p)
           \/ InspectReconcile(p) \/ InspectPending(p) \/ Publish(p)
    PROVE  Quiet(p)
<1>1. /\ ctl \in [Proc -> Ctl] /\ SoundCtl(ctl[p]) /\ ctl[p] \in Ctl
      /\ mem \in [Proc -> State] /\ mem[p] \in State /\ ChainSound
  BY DEF Inv, ProcsSound
<1>2. PICK r \in State : r = mem[p]
  BY <1>1
<1>3. \A s \in Readable : Reconcile(s, mem[p]) \in Snapshot
  BY <1>1, ReconcileTrue DEF TrueSnapshot
<1>4. ASSUME NEW pc \in {"verify", "final", "idle", "publish"}, SaveThen(p, pc)
      PROVE  \E c \in Ctl : /\ ctl' = [ctl EXCEPT ![p] = c]
                            /\ SavesFor(c, {pc})
                            /\ SameTask(ctl[p], c)
  BY <1>1, <1>4, SaveThenEffect DEF PC, SavesFor, SameTask
<1>5. CASE ReconcileBefore(p)
  BY <1>5, QuietGotoWith, QuietExit DEF ReconcileBefore
<1>6. CASE SendRefused(p) \/ SimulationFails(p)
  BY <1>6, QuietExit DEF SendRefused, SimulationFails
<1>7. CASE ConfirmExchange(p)
  <2>1. CASE Exit(p)
    BY <1>7, <2>1, QuietExit DEF ConfirmExchange
  <2>2. CASE ~ Exit(p)
    <3>1. PICK t \in Sig : t = ctl[p].sig
      BY <1>1, <1>7 DEF ConfirmExchange, SoundCtl, Confirming
    <3>2. /\ tx[t].status = "ok"
          /\ mem' = [mem EXCEPT ![p] = [r EXCEPT !.sigs = @ \cup {t},
                                                 !.pending = NoSig]]
          /\ SaveThen(p, "verify")
      BY <1>2, <1>7, <2>2, <3>1, Zenon DEF ConfirmExchange, Confirmed
    <3>3. PICK m \in State : /\ m = [r EXCEPT !.sigs = @ \cup {t}, !.pending = NoSig]
                             /\ Lists(r, m, t)
      BY <3>2, InitialTypes, ListEffect
    <3>4. mem' = [mem EXCEPT ![p] = m]
      BY <3>2, <3>3, Zenon
    <3>5. PICK c \in Ctl : /\ ctl' = [ctl EXCEPT ![p] = c]
                           /\ SavesFor(c, {"verify"}) /\ SameTask(ctl[p], c)
      BY <1>4, <3>2
    <3>6. Becomes(p, c, m) /\ Works(ctl[p], mem[p], c, m)
      BY <1>2, <1>7, <3>1, <3>3, <3>4, <3>5 DEF Becomes, Works, ConfirmExchange
    <3>. QED
      BY <1>7, <3>6 DEF Quiet, ConfirmExchange
  <2>. QED
    BY <2>1, <2>2
<1>8. CASE ReconcileAfter(p)
  <2>1. CASE Exit(p)
    BY <1>8, <2>1, QuietExit DEF ReconcileAfter
  <2>2. CASE ~ Exit(p)
    <3>1. PICK s \in Readable : /\ mem' = [mem EXCEPT ![p].last = Reconcile(s, mem[p])]
                                /\ ctl' = [ctl EXCEPT ![p] = NextExchange(p)]
      BY <1>8, <2>2, Zenon DEF ReconcileAfter
    <3>2. PICK seen \in Snapshot : seen = Reconcile(s, mem[p])
      BY <1>3
    <3>3. PICK m \in State : m = [r EXCEPT !.last = seen] /\ SameEvidence(r, m)
      BY SnapshotEffect
    <3>4. mem' = [mem EXCEPT ![p] = m]
      BY <1>2, <3>1, <3>2, <3>3, Zenon
    <3>5. PICK c \in Ctl : /\ c = NextExchange(p)
                           /\ SavesFor(c, {"reconcile", "final"})
                           /\ c.ret = "reconcile" => c.op \in Exchange
      BY <1>1, NextExchangeEffect DEF SavesFor
    <3>6. Becomes(p, c, m) /\ Works(ctl[p], mem[p], c, m)
      BY <1>2, <1>8, <3>1, <3>3, <3>4, <3>5 DEF Becomes, Works, ReconcileAfter
    <3>. QED
      BY <1>8, <3>6 DEF Quiet, ReconcileAfter
  <2>. QED
    BY <2>1, <2>2
<1>9. CASE Finish(p)
  <2>1. PICK c \in Ctl : /\ ctl' = [ctl EXCEPT ![p] = c]
                         /\ SavesFor(c, {"idle"}) /\ SameTask(ctl[p], c)
    BY <1>4, <1>9 DEF Finish
  <2>2. Becomes(p, c, mem[p]) /\ Works(ctl[p], mem[p], c, mem[p])
    BY <1>1, <1>9, <2>1 DEF Becomes, Works, Finish
  <2>. QED
    BY <1>1, <1>9, <2>2 DEF Quiet, Finish
<1>10. CASE AllocationBefore(p)
  BY <1>10, QuietGotoWith, QuietExit DEF AllocationBefore
<1>11. CASE ConfirmAllocation(p)
  <2>1. CASE Exit(p)
    BY <1>11, <2>1, QuietExit DEF ConfirmAllocation
  <2>2. CASE ~ Exit(p)
    <3>1. Goto(p, "verifyAllocation") /\ UNCHANGED mem
      BY <1>11, <2>2 DEF ConfirmAllocation
    <3>2. PICK c \in Ctl : /\ ctl' = [ctl EXCEPT ![p] = c]
                           /\ c.pc = "verifyAllocation"
                           /\ SameTask(ctl[p], c)
      BY <1>1, <3>1, GotoEffect DEF PC, SameTask
    <3>3. Becomes(p, c, mem[p]) /\ Works(ctl[p], mem[p], c, mem[p])
      BY <1>1, <1>11, <3>1, <3>2 DEF Becomes, Works, ConfirmAllocation
    <3>. QED
      BY <1>1, <1>11, <3>3 DEF Quiet, ConfirmAllocation
  <2>. QED
    BY <2>1, <2>2
<1>12. CASE AllocationAfter(p)
  <2>1. CASE Exit(p)
    BY <1>12, <2>1, QuietExit DEF AllocationAfter
  <2>2. CASE ~ Exit(p)
    <3>1. PICK t \in Sig : t = ctl[p].sig /\ tx[t].status = "ok"
      BY <1>1, <1>12 DEF AllocationAfter, SoundCtl
    <3>2. PICK s \in Readable :
             /\ mem' = [mem EXCEPT ![p].sigs = @ \cup {ctl[p].sig},
                                   ![p].pending = NoSig,
                                   ![p].last = Reconcile(s, mem[p])]
             /\ SaveThen(p, "final")
      BY <1>12, <2>2, Zenon DEF AllocationAfter
    <3>3. PICK seen \in Snapshot : seen = Reconcile(s, mem[p])
      BY <1>3
    <3>4. PICK m \in State : /\ m = [r EXCEPT !.sigs = @ \cup {t}, !.pending = NoSig,
                                              !.last = seen]
                             /\ Lists(r, m, t)
      BY <3>1, ListEffect
    <3>5. mem' = [mem EXCEPT ![p] = m]
      BY <1>2, <3>1, <3>2, <3>3, <3>4, Zenon
    <3>6. PICK c \in Ctl : /\ ctl' = [ctl EXCEPT ![p] = c]
                           /\ SavesFor(c, {"final"}) /\ SameTask(ctl[p], c)
      BY <1>4, <3>2
    <3>7. Becomes(p, c, m) /\ Works(ctl[p], mem[p], c, m)
      BY <1>2, <1>12, <3>1, <3>4, <3>5, <3>6 DEF Becomes, Works, AllocationAfter
    <3>. QED
      BY <1>12, <3>7 DEF Quiet, AllocationAfter
  <2>. QED
    BY <2>1, <2>2
<1>13. CASE InspectReconcile(p)
  BY <1>13, QuietGotoWith DEF InspectReconcile
<1>14. CASE InspectPending(p)
  <2>1. PICK seen \in Snapshot : seen = ctl[p].seen
    BY <1>1 DEF Ctl
  <2>2. PICK m \in State : /\ mem' = [mem EXCEPT ![p] = m]
                           /\ SameEvidence(r, m) \/ Lists(r, m, r.pending)
    <3>1. CASE PendingProven(p) /\ mem' = [mem EXCEPT ![p] = Recovered(p)]
      <4>1. PICK t \in Sig : t = r.pending /\ tx[t].status = "ok"
        BY <1>2, <3>1 DEF PendingProven, State
      <4>2. PICK m \in State : /\ m = [r EXCEPT !.sigs = @ \cup {t},
                                                !.pending = NoSig, !.last = seen]
                               /\ Lists(r, m, t)
        BY <4>1, ListEffect
      <4>3. mem' = [mem EXCEPT ![p] = m]
        BY <1>2, <2>1, <3>1, <4>1, <4>2, Zenon DEF Recovered
      <4>. QED
        BY <4>1, <4>2, <4>3
    <3>2. CASE mem' = [mem EXCEPT ![p].last = ctl[p].seen]
      <4>1. PICK m \in State : m = [r EXCEPT !.last = seen] /\ SameEvidence(r, m)
        BY SnapshotEffect
      <4>2. mem' = [mem EXCEPT ![p] = m]
        BY <1>2, <2>1, <3>2, <4>1, Zenon
      <4>. QED
        BY <4>1, <4>2
    <3>. QED
      BY <1>14, <3>1, <3>2 DEF InspectPending, Recover, Retain
  <2>3. /\ AfterInspection(p) \in {"idle", "publish"}
        /\ SaveThen(p, AfterInspection(p))
    BY <1>14 DEF InspectPending, Recover, Retain, AfterInspection
  <2>4. PICK c \in Ctl : /\ ctl' = [ctl EXCEPT ![p] = c]
                         /\ SavesFor(c, {AfterInspection(p)}) /\ SameTask(ctl[p], c)
    BY <1>4, <2>3
  <2>5. SavesFor(c, {"idle", "publish"})
    BY <2>3, <2>4 DEF SavesFor
  <2>6. /\ ctl[p].pc = "status"
        /\ UNCHANGED <<chainVars, disk, torn, lost>>
    BY <1>14 DEF InspectPending, Recover, Retain
  <2>7. Becomes(p, c, m) /\ Works(ctl[p], mem[p], c, m)
    BY <1>2, <2>2, <2>4, <2>5, <2>6 DEF Becomes, Works
  <2>. QED
    BY <2>6, <2>7 DEF Quiet
<1>15. CASE Publish(p)
  BY <1>15, QuietExit DEF Publish
<1>. QED
  BY <1>5, <1>6, <1>7, <1>8, <1>9, <1>10, <1>11, <1>12, <1>13, <1>14, <1>15

\* Loading copies the file of an idle terminal's command.
LEMMA LoadEffect ==
    ASSUME Inv, NEW p \in Proc, Command(p)
    PROVE  /\ ctl[p].pc = "idle"
           /\ ~ torn
           /\ UNCHANGED <<chainVars, disk, torn, manifest, lost>>
           /\ \E c \in Ctl : /\ Becomes(p, c, disk)
                             /\ c.pc = "reconcile"
                             /\ Allowed(c.op, c.to)
                             /\ c.op = "ALLOCATE_TESTER" => c.to \in Tester
<1>1. PICK op \in {"INSPECT", "PUBLISH", "AWAKEN", "RELEASE", "ALLOCATE_TESTER"},
           n \in Nat, to \in Tester \cup {Operator} :
              Load(p, op, n, to) /\ (op = "ALLOCATE_TESTER" => to \in Tester)
  <2>1. CASE \E op \in {"INSPECT", "PUBLISH"} \cup Exchange : Load(p, op, 1, Operator)
    BY <2>1 DEF Exchange
  <2>2. CASE \E n \in 1 .. MaxCycles : Load(p, "AWAKEN", 2 * n, Operator)
    <3>1. PICK n \in 1 .. MaxCycles : Load(p, "AWAKEN", 2 * n, Operator)
      BY <2>2
    <3>2. 2 * n \in Nat
      BY CliAssumption
    <3>. QED
      BY <3>1, <3>2
  <2>3. CASE \E to \in Tester : Load(p, "ALLOCATE_TESTER", 1, to)
    BY <2>3
  <2>. QED
    BY <2>1, <2>2, <2>3 DEF Command
<1>. DEFINE c == [Idle EXCEPT !.pc = "reconcile", !.op = op, !.left = n, !.to = to]
<1>2. c \in Ctl
  BY InitialTypes DEF Ctl, PC, Op, Exchange
<1>3. c.pc = "reconcile" /\ c.op = op /\ c.to = to
  BY DEF Idle
<1>4. ctl' = [ctl EXCEPT ![p] = c]
  BY <1>1, Zenon DEF Load
<1>. HIDE DEF c
<1>5. Becomes(p, c, disk)
  BY <1>1, <1>4 DEF Load, Becomes
<1>. QED
  BY <1>1, <1>2, <1>3, <1>5 DEF Load

\* saveState copies the memory into the file, and the command goes on.
LEMMA SaveEffect ==
    ASSUME Inv, NEW p \in Proc, Save(p)
    PROVE  /\ ctl[p].pc = "save"
           /\ disk' = mem[p]
           /\ torn' = FALSE
           /\ UNCHANGED <<chainVars, lost>>
           /\ \/ Exit(p) /\ ctl[p].ret = "idle"
              \/ \E c \in Ctl : /\ Becomes(p, c, mem[p])
                                /\ c.pc = ctl[p].ret
                                /\ SameTask(ctl[p], c)
<1>1. ctl \in [Proc -> Ctl] /\ mem \in [Proc -> State] /\ ctl[p].ret \in PC
  BY DEF Inv, ProcsSound, Ctl
<1>2. CASE ctl[p].ret = "idle"
  BY <1>2 DEF Save
<1>3. CASE ctl[p].ret # "idle"
  <2>1. Goto(p, ctl[p].ret) /\ UNCHANGED mem
    BY <1>3 DEF Save
  <2>2. PICK c \in Ctl : /\ ctl' = [ctl EXCEPT ![p] = c]
                         /\ c.pc = ctl[p].ret
                         /\ SameTask(ctl[p], c)
    BY <1>1, <2>1, GotoEffect DEF SameTask
  <2>3. Becomes(p, c, mem[p])
    BY <1>1, <2>1, <2>2 DEF Becomes
  <2>. QED
    BY <2>2, <2>3 DEF Save
<1>. QED
  BY <1>2, <1>3

\* An exchange reaches the network; its signature is in memory, or lost.
LEMMA SendExchangeEffect ==
    ASSUME Inv, NEW p \in Proc, NEW t \in Sig,
           SendExchange(p, t) \/ SendExchangeUnanswered(p, t)
    PROVE  /\ ctl[p].pc = "send"
           /\ tx[t].status = "unused"
           /\ UNCHANGED <<hist, disk, torn, manifest>>
           /\ \E new \in Tx : /\ tx' = [tx EXCEPT ![t] = new]
                              /\ new.kind = ctl[p].op
                              /\ new.by = Operator /\ new.to = Operator
                              /\ new.status = "sent"
           /\ \/ lost' = lost \cup {t} /\ Exit(p)
              \/ /\ lost' = lost
                 /\ \E c \in Ctl, m \in State :
                       /\ Becomes(p, c, m)
                       /\ SavesFor(c, {"confirm"})
                       /\ c.op = ctl[p].op /\ c.to = ctl[p].to /\ c.sig = t
                       /\ m.pending = t
                       /\ m.sigs = mem[p].sigs /\ m.tester = mem[p].tester
<1>1. ctl[p] \in Ctl /\ SoundCtl(ctl[p]) /\ mem[p] \in State
  BY DEF Inv, ProcsSound
<1>2. ctl[p].pc = "send"
  BY DEF SendExchange, SendExchangeUnanswered
<1>3. PICK k \in Kind : k = ctl[p].op
  BY <1>1, <1>2 DEF SoundCtl, Exchange, Kind
<1>. DEFINE sent == [Unused EXCEPT !.kind = k, !.status = "sent"]
<1>4. sent \in Tx
  BY InitialTypes DEF Tx, Status
<1>5. /\ sent.kind = k /\ sent.by = Operator /\ sent.to = Operator
      /\ sent.status = "sent"
  BY DEF Unused
<1>6. tx' = [tx EXCEPT ![t] = sent]
  BY <1>3, Zenon DEF SendExchange, SendExchangeUnanswered
<1>. HIDE DEF sent
<1>7. ASSUME SendExchange(p, t)
      PROVE  \E c \in Ctl, m \in State :
                /\ Becomes(p, c, m)
                /\ SavesFor(c, {"confirm"})
                /\ c.op = ctl[p].op /\ c.to = ctl[p].to /\ c.sig = t
                /\ m.pending = t
                /\ m.sigs = mem[p].sigs /\ m.tester = mem[p].tester
  <2>1. PICK c \in Ctl : /\ c = RecordThen(p, t, "confirm")
                         /\ SavesFor(c, {"confirm"})
                         /\ c.op = ctl[p].op /\ c.to = ctl[p].to /\ c.sig = t
    BY <1>1, RecordThenEffect DEF PC, SavesFor
  <2>2. PICK r \in State : r = mem[p]
    BY <1>1
  <2>3. PICK m \in State : m = [r EXCEPT !.pending = t]
    BY DEF State
  <2>4. m.pending = t /\ m.sigs = r.sigs /\ m.tester = r.tester
    BY <2>3 DEF State
  <2>5. mem' = [mem EXCEPT ![p] = m]
    BY <1>7, <2>2, <2>3, Zenon DEF SendExchange
  <2>6. Becomes(p, c, m)
    BY <1>7, <2>1, <2>5 DEF SendExchange, Becomes
  <2>. QED
    BY <2>1, <2>2, <2>4, <2>6
<1>. QED
  BY <1>2, <1>3, <1>4, <1>5, <1>6, <1>7 DEF SendExchange, SendExchangeUnanswered

\* An allocation is signed, and bound to its tester in memory.
LEMMA SignAllocationEffect ==
    ASSUME Inv, NEW p \in Proc, NEW t \in Sig, SignAllocation(p, t)
    PROVE  /\ ctl[p].pc = "sign"
           /\ tx[t].status = "unused"
           /\ UNCHANGED <<hist, disk, torn, manifest, lost>>
           /\ \E new \in Tx : /\ tx' = [tx EXCEPT ![t] = new]
                              /\ new.kind = "ALLOCATE_TESTER"
                              /\ new.by = Operator /\ new.to = ctl[p].to
                              /\ new.status = "signed"
           /\ \E c \in Ctl, m \in State :
                 /\ Becomes(p, c, m)
                 /\ SavesFor(c, {"sendAllocation"})
                 /\ c.op = ctl[p].op /\ c.to = ctl[p].to /\ c.sig = t
                 /\ m.pending = t /\ m.tester = ctl[p].to
                 /\ m.sigs = mem[p].sigs
<1>1. ctl[p] \in Ctl /\ mem[p] \in State
  BY DEF Inv, ProcsSound
<1>2. PICK h \in Tester \cup {Operator} : h = ctl[p].to
  BY <1>1 DEF Ctl
<1>. DEFINE signed == [Unused EXCEPT !.kind = "ALLOCATE_TESTER", !.to = h,
                                     !.status = "signed"]
<1>3. signed \in Tx
  BY InitialTypes DEF Tx, Status, Kind, Holder
<1>4. /\ signed.kind = "ALLOCATE_TESTER" /\ signed.by = Operator
      /\ signed.to = h /\ signed.status = "signed"
  BY DEF Unused
<1>5. tx' = [tx EXCEPT ![t] = signed]
  BY <1>2, Zenon DEF SignAllocation
<1>. HIDE DEF signed
<1>6. PICK c \in Ctl : /\ c = RecordThen(p, t, "sendAllocation")
                       /\ SavesFor(c, {"sendAllocation"})
                       /\ c.op = ctl[p].op /\ c.to = ctl[p].to /\ c.sig = t
  BY <1>1, RecordThenEffect DEF PC, SavesFor
<1>7. PICK r \in State : r = mem[p]
  BY <1>1
<1>8. PICK m \in State : m = [r EXCEPT !.tester = h, !.pending = t]
  <2>1. [r EXCEPT !.tester = h, !.pending = t] \in State
    BY DEF State
  <2>. QED
    BY <2>1, Zenon
<1>9. m.pending = t /\ m.sigs = r.sigs /\ m.tester = h
  BY <1>8 DEF State
<1>10. mem' = [mem EXCEPT ![p] = m]
  BY <1>2, <1>7, <1>8, Zenon DEF SignAllocation
<1>11. Becomes(p, c, m)
  BY <1>6, <1>10 DEF SignAllocation, Becomes
<1>. QED
  BY <1>2, <1>3, <1>4, <1>5, <1>6, <1>7, <1>9, <1>11 DEF SignAllocation

\* The signed allocation is handed over, and nothing of it changes.
LEMMA SendAllocationEffect ==
    ASSUME Inv, NEW p \in Proc, SendAllocation(p)
    PROVE  /\ ctl[p].pc = "sendAllocation"
           /\ ctl[p].sig \in Sig
           /\ tx[ctl[p].sig].status = "signed"
           /\ UNCHANGED <<hist, disk, torn, manifest, lost>>
           /\ \E new \in Tx : /\ tx' = [tx EXCEPT ![ctl[p].sig] = new]
                              /\ new.kind = tx[ctl[p].sig].kind
                              /\ new.by = tx[ctl[p].sig].by
                              /\ new.to = tx[ctl[p].sig].to
                              /\ new.status = "sent"
           /\ \/ Exit(p)
              \/ \E c \in Ctl : /\ Becomes(p, c, mem[p])
                                /\ c.pc = "confirmAllocation"
                                /\ SameTask(ctl[p], c)
<1>1. /\ ctl \in [Proc -> Ctl] /\ mem \in [Proc -> State]
      /\ SoundCtl(ctl[p]) /\ ctl[p].pc = "sendAllocation"
  BY DEF SendAllocation, Inv, ProcsSound
<1>2. PICK t \in Sig : t = ctl[p].sig
  BY <1>1 DEF SoundCtl, Sending
<1>3. tx[t].status = "signed"
  BY <1>1, <1>2 DEF Inv, OwnBytes, Sending
<1>4. PICK old \in Tx : old = tx[t]
  BY DEF Inv, ChainSound
<1>5. PICK new \in Tx : new = [old EXCEPT !.status = "sent"]
  <2>1. [old EXCEPT !.status = "sent"] \in Tx
    BY DEF Tx, Status
  <2>. QED
    BY <2>1, Zenon
<1>6. /\ new.kind = old.kind /\ new.by = old.by /\ new.to = old.to
      /\ new.status = "sent"
  BY <1>5 DEF Tx
<1>7. tx' = [tx EXCEPT ![t] = new]
  BY <1>2, <1>4, <1>5, Zenon DEF SendAllocation
<1>8. CASE Exit(p)
  BY <1>1, <1>2, <1>3, <1>4, <1>6, <1>7, <1>8 DEF SendAllocation
<1>9. CASE ~ Exit(p)
  <2>1. Goto(p, "confirmAllocation") /\ UNCHANGED mem
    BY <1>9 DEF SendAllocation
  <2>2. PICK c \in Ctl : /\ ctl' = [ctl EXCEPT ![p] = c]
                         /\ c.pc = "confirmAllocation"
                         /\ SameTask(ctl[p], c)
    BY <1>1, <2>1, GotoEffect DEF PC, SameTask
  <2>3. Becomes(p, c, mem[p])
    BY <1>1, <2>1, <2>2 DEF Becomes
  <2>. QED
    BY <1>1, <1>2, <1>3, <1>4, <1>6, <1>7, <2>2, <2>3 DEF SendAllocation
<1>. QED
  BY <1>8, <1>9

-----------------------------------------------------------------------------
(* Payments                                                                *)

\* A command is at an exchange, or at an allocation and knows its tester.
OnExchange(c) ==
    \/ c.pc \in {"send", "confirm", "verify"}
    \/ SavesFor(c, {"confirm", "verify", "reconcile"})

OnAllocation(c) ==
    \/ c.pc \in {"sign", "sendAllocation", "confirmAllocation", "verifyAllocation"}
    \/ SavesFor(c, {"sendAllocation"})

RightCommand(c) ==
    /\ OnExchange(c) => c.op \in Exchange
    /\ OnAllocation(c) => c.op = "ALLOCATE_TESTER" /\ c.to \in Tester
    /\ c.pc = "reconcile" /\ c.op = "ALLOCATE_TESTER" => c.to \in Tester

RightCommands == \A p \in Proc : RightCommand(ctl[p])

\* Only the operator's wallet signs, and it allocates to testers.
OperatorPays(t) ==
    /\ t.by = Operator
    /\ t.to \in Tester \cup {Operator}
    /\ t.kind = "ALLOCATE_TESTER" => t.to \in Tester

OperatorPaid == \A t \in Sig : OperatorPays(tx[t])

\* An idle process is at neither.
LEMMA IdleRight == RightCommand(Idle)
<1>. QED
  BY DEF RightCommand, OnExchange, OnAllocation, SavesFor, Idle

\* It is enough that the process that moves ends up right.
LEMMA RightStays ==
    ASSUME Inv, RightCommands, NEW p \in Proc, NEW c, RightCommand(c),
           ctl' = [ctl EXCEPT ![p] = c]
    PROVE  RightCommands'
<1>1. \A q \in Proc : ctl'[q] = IF q = p THEN c ELSE ctl[q]
  BY DEF Inv, ProcsSound
<1>. QED
  BY <1>1 DEF RightCommands, RightCommand, OnExchange, OnAllocation, SavesFor

\* Every step of a command keeps to what main let the command do.
LEMMA RightNext == Inv /\ RightCommands /\ [Next]_vars => RightCommands'
<1>. SUFFICES ASSUME Inv, RightCommands, [Next]_vars PROVE RightCommands'
  OBVIOUS
<1>1. ASSUME UNCHANGED ctl PROVE RightCommands'
  BY <1>1 DEF RightCommands
<1>2. ASSUME NEW p \in Proc, Exit(p) PROVE RightCommands'
  BY <1>2, IdleRight, RightStays DEF Exit
<1>3. CASE Chain \/ UNCHANGED vars
  BY <1>1, <1>3 DEF Chain, TesterExchange, TesterDonation, cliVars, vars
<1>4. ASSUME NEW p \in Proc, Command(p) PROVE RightCommands'
  <2>1. PICK c \in Ctl : /\ Becomes(p, c, disk)
                         /\ c.pc = "reconcile"
                         /\ c.op = "ALLOCATE_TESTER" => c.to \in Tester
    BY <1>4, LoadEffect
  <2>2. RightCommand(c)
    BY <2>1 DEF RightCommand, OnExchange, OnAllocation, SavesFor
  <2>. QED
    BY <2>1, <2>2, RightStays DEF Becomes
<1>5. ASSUME NEW p \in Proc, Quiet(p) PROVE RightCommands'
  <2>1. PICK c \in Ctl, m \in State : Becomes(p, c, m) /\ Works(ctl[p], mem[p], c, m)
    BY <1>5 DEF Quiet
  <2>2. RightCommand(ctl[p])
    BY DEF RightCommands
  <2>3. RightCommand(c)
    BY <2>1, <2>2, IdleRight
       DEF Works, SameTask, SavesFor, RightCommand, OnExchange, OnAllocation
  <2>. QED
    BY <2>1, <2>3, RightStays DEF Becomes
<1>6. ASSUME NEW p \in Proc, Save(p) PROVE RightCommands'
  <2>1. CASE Exit(p)
    BY <1>2, <2>1
  <2>2. CASE ~ Exit(p)
    <3>1. PICK c \in Ctl : /\ Becomes(p, c, mem[p])
                           /\ c.pc = ctl[p].ret
                           /\ SameTask(ctl[p], c)
      BY <1>6, <2>2, SaveEffect
    <3>2. ctl[p].pc = "save" /\ RightCommand(ctl[p]) /\ SoundCtl(ctl[p])
      BY <1>6, SaveEffect DEF RightCommands, Inv, ProcsSound
    <3>3. RightCommand(c)
      BY <3>1, <3>2 DEF SoundCtl, SameTask, SavesFor, RightCommand, OnExchange,
                        OnAllocation, Exchange
    <3>. QED
      BY <3>1, <3>3, RightStays DEF Becomes
  <2>. QED
    BY <2>1, <2>2
<1>7. ASSUME NEW p \in Proc, NEW t \in Sig,
             SendExchange(p, t) \/ SendExchangeUnanswered(p, t)
      PROVE  RightCommands'
  <2>1. CASE Exit(p)
    BY <1>2, <2>1
  <2>2. CASE ~ Exit(p)
    <3>1. PICK c \in Ctl, m \in State : /\ Becomes(p, c, m)
                                        /\ SavesFor(c, {"confirm"})
                                        /\ c.op = ctl[p].op
      BY <1>7, <2>2, SendExchangeEffect
    <3>2. ctl[p].pc = "send" /\ RightCommand(ctl[p])
      BY <1>7, SendExchangeEffect DEF RightCommands
    <3>3. RightCommand(c)
      BY <3>1, <3>2 DEF SavesFor, RightCommand, OnExchange, OnAllocation
    <3>. QED
      BY <3>1, <3>3, RightStays DEF Becomes
  <2>. QED
    BY <2>1, <2>2
<1>8. ASSUME NEW p \in Proc, NEW t \in Sig, SignAllocation(p, t)
      PROVE  RightCommands'
  <2>1. PICK c \in Ctl, m \in State : /\ Becomes(p, c, m)
                                      /\ SavesFor(c, {"sendAllocation"})
                                      /\ c.op = ctl[p].op /\ c.to = ctl[p].to
    BY <1>8, SignAllocationEffect
  <2>2. ctl[p].pc = "sign" /\ RightCommand(ctl[p])
    BY <1>8, SignAllocationEffect DEF RightCommands
  <2>3. RightCommand(c)
    BY <2>1, <2>2 DEF SavesFor, RightCommand, OnExchange, OnAllocation
  <2>. QED
    BY <2>1, <2>3, RightStays DEF Becomes
<1>9. ASSUME NEW p \in Proc, SendAllocation(p) PROVE RightCommands'
  <2>1. CASE Exit(p)
    BY <1>2, <2>1
  <2>2. CASE ~ Exit(p)
    <3>1. PICK c \in Ctl : /\ Becomes(p, c, mem[p])
                           /\ c.pc = "confirmAllocation"
                           /\ SameTask(ctl[p], c)
      BY <1>9, <2>2, SendAllocationEffect
    <3>2. ctl[p].pc = "sendAllocation" /\ RightCommand(ctl[p])
      BY <1>9, SendAllocationEffect DEF RightCommands
    <3>3. RightCommand(c)
      BY <3>1, <3>2 DEF SameTask, SavesFor, RightCommand, OnExchange, OnAllocation
    <3>. QED
      BY <3>1, <3>3, RightStays DEF Becomes
  <2>. QED
    BY <2>1, <2>2
<1>10. ASSUME NEW p \in Proc, Stop(p) \/ StopWhileWriting(p) PROVE RightCommands'
  BY <1>2, <1>10 DEF Stop, StopWhileWriting
<1>. QED
  BY <1>3, <1>4, <1>5, <1>6, <1>7, <1>8, <1>9, <1>10, QuietEffect DEF Next, Step

-----------------------------------------------------------------------------
(* The chain                                                               *)

\* The transactions of the operator that succeeded as an exchange.
Succeeded(kind) == {t \in Sig : tx[t].status = "ok" /\ tx[t].kind = kind}

\* They say whether the operator has the asset.
CustodyCounted ==
    /\ IsFiniteSet(Succeeded("AWAKEN"))
    /\ IsFiniteSet(Succeeded("RELEASE"))
    /\ Cardinality(Succeeded("AWAKEN"))
         = Cardinality(Succeeded("RELEASE"))
           + (IF Finalized.owner = Operator THEN 1 ELSE 0)

Payments == RightCommands /\ OperatorPaid /\ LedgerSound /\ CustodyCounted

\* t, which the operator signed, is new or is handed over as it was signed.
Submits(t) ==
    /\ UNCHANGED hist
    /\ tx[t].status # "ok"
    /\ \E new \in Tx : /\ tx' = [tx EXCEPT ![t] = new]
                       /\ OperatorPays(new)
                       /\ new.status # "ok"

\* All that can happen to the history and to the transactions.
ChainMoves ==
    \/ UNCHANGED <<hist, tx>>
    \/ \E t \in Sig : Submits(t)
    \/ \E t \in Sig : Settle(t)
    \/ \E u \in Tester, k \in Exchange : TesterExchange(u, k)
    \/ \E u \in Tester : TesterDonation(u)

\* The steps of the commands that touch the chain submit what the operator pays.
LEMMA ChainEffect ==
    ASSUME Inv, RightCommands, OperatorPaid, [Next]_vars
    PROVE  ChainMoves
<1>1. CASE Chain
  BY <1>1 DEF Chain, ChainMoves
<1>2. CASE UNCHANGED vars
  BY <1>2 DEF vars, ChainMoves
<1>3. ASSUME NEW p \in Proc, Command(p) PROVE ChainMoves
  BY <1>3, LoadEffect DEF ChainMoves, chainVars
<1>4. ASSUME NEW p \in Proc, Quiet(p) PROVE ChainMoves
  BY <1>4 DEF Quiet, ChainMoves, chainVars
<1>5. ASSUME NEW p \in Proc, Save(p) PROVE ChainMoves
  BY <1>5, SaveEffect DEF ChainMoves, chainVars
<1>6. ASSUME NEW p \in Proc, NEW t \in Sig,
             SendExchange(p, t) \/ SendExchangeUnanswered(p, t)
      PROVE  ChainMoves
  <2>1. PICK new \in Tx : /\ tx' = [tx EXCEPT ![t] = new]
                          /\ new.kind = ctl[p].op
                          /\ new.by = Operator /\ new.to = Operator
                          /\ new.status = "sent"
    BY <1>6, SendExchangeEffect
  <2>2. ctl[p].pc = "send" /\ tx[t].status = "unused" /\ UNCHANGED hist
    BY <1>6, SendExchangeEffect
  <2>3. ctl[p].op \in Exchange
    BY <2>2 DEF RightCommands, RightCommand, OnExchange
  <2>4. OperatorPays(new)
    BY <2>1, <2>3 DEF OperatorPays, Exchange
  <2>. QED
    BY <2>1, <2>2, <2>4 DEF ChainMoves, Submits
<1>7. ASSUME NEW p \in Proc, NEW t \in Sig, SignAllocation(p, t)
      PROVE  ChainMoves
  <2>1. PICK new \in Tx : /\ tx' = [tx EXCEPT ![t] = new]
                          /\ new.by = Operator /\ new.to = ctl[p].to
                          /\ new.status = "signed"
    BY <1>7, SignAllocationEffect
  <2>2. ctl[p].pc = "sign" /\ tx[t].status = "unused" /\ UNCHANGED hist
    BY <1>7, SignAllocationEffect
  <2>3. ctl[p].to \in Tester
    BY <2>2 DEF RightCommands, RightCommand, OnAllocation
  <2>4. OperatorPays(new)
    BY <2>1, <2>3 DEF OperatorPays
  <2>. QED
    BY <2>1, <2>2, <2>4 DEF ChainMoves, Submits
<1>8. ASSUME NEW p \in Proc, SendAllocation(p) PROVE ChainMoves
  <2>1. PICK t \in Sig : t = ctl[p].sig
    BY <1>8, SendAllocationEffect
  <2>2. PICK new \in Tx : /\ tx' = [tx EXCEPT ![t] = new]
                          /\ new.kind = tx[t].kind /\ new.by = tx[t].by
                          /\ new.to = tx[t].to /\ new.status = "sent"
    BY <1>8, <2>1, SendAllocationEffect
  <2>3. tx[t].status = "signed" /\ UNCHANGED hist
    BY <1>8, <2>1, SendAllocationEffect
  <2>4. OperatorPays(new)
    BY <2>2 DEF OperatorPaid, OperatorPays
  <2>. QED
    BY <2>2, <2>3, <2>4 DEF ChainMoves, Submits
<1>9. ASSUME NEW p \in Proc, Stop(p) \/ StopWhileWriting(p) PROVE ChainMoves
  BY <1>9 DEF Stop, StopWhileWriting, ChainMoves, chainVars
<1>. QED
  BY <1>1, <1>2, <1>3, <1>4, <1>5, <1>6, <1>7, <1>8, <1>9, QuietEffect DEF Next, Step

\* What a transaction was signed for never changes.
LEMMA OperatorPaidNext ==
    ASSUME Inv, OperatorPaid, ChainMoves
    PROVE  OperatorPaid'
<1>1. tx \in [Sig -> Tx] /\ hist \in Seq(Ledger)
  BY DEF Inv, ChainSound
<1>2. ASSUME UNCHANGED tx PROVE OperatorPaid'
  BY <1>2 DEF OperatorPaid
<1>3. ASSUME NEW t \in Sig, NEW new \in Tx, OperatorPays(new),
             tx' = [tx EXCEPT ![t] = new]
      PROVE  OperatorPaid'
  BY <1>1, <1>3 DEF OperatorPaid
<1>4. ASSUME NEW t \in Sig, Settle(t) PROVE OperatorPaid'
  <2>1. PICK new \in Tx : /\ tx' = [tx EXCEPT ![t] = new]
                          /\ new.kind = tx[t].kind /\ new.by = tx[t].by
                          /\ new.to = tx[t].to
    BY <1>1, <1>4, SettleEffect
  <2>2. OperatorPays(new)
    BY <2>1 DEF OperatorPaid, OperatorPays
  <2>. QED
    BY <1>3, <2>1, <2>2
<1>. QED
  BY <1>2, <1>3, <1>4 DEF ChainMoves, Submits, TesterExchange, TesterDonation

\* A tester exchanges what its own wallet signs.
LEMMA TesterPays ==
    ASSUME NEW u \in Tester, NEW k \in Exchange
    PROVE  LET t == [Unused EXCEPT !.kind = k, !.by = u]
           IN  t \in Tx /\ Payable(t) /\ t.kind = k /\ t.by = u
<1>. DEFINE t == [Unused EXCEPT !.kind = k, !.by = u]
<1>1. u \in Holder /\ Operator \in Holder
  BY DEF Holder
<1>2. t \in Tx
  BY <1>1, InitialTypes DEF Tx, Kind, Exchange
<1>3. t.kind = k /\ t.by = u /\ t.to = Operator
  BY DEF Unused
<1>4. Payable(t)
  BY <1>3, HolderAssumption DEF Payable, Exchange
<1>. QED
  BY <1>2, <1>3, <1>4

\* Whatever moves the chain moves the custody as math.ts projects it, or not
\* at all.
LEMMA CustodyNext ==
    ASSUME Inv, OperatorPaid, LedgerSound, ChainMoves
    PROVE  LedgerSound' /\ [Custody!ReserveNext]_(Custody!reserveVars)
<1>1. tx \in [Sig -> Tx] /\ hist \in Seq(Ledger)
  BY DEF Inv, ChainSound
<1>2. CASE UNCHANGED hist
  BY <1>2, HistoryStays
<1>3. ASSUME NEW t \in Sig, Settle(t), hist' # hist
      PROVE  LedgerSound' /\ [Custody!ReserveNext]_(Custody!reserveVars)
  <2>1. Executable(Finalized, tx[t]) /\ hist' = Append(hist, Execute(Finalized, tx[t]))
    BY <1>1, <1>3, SettleEffect
  <2>2. tx[t] \in Tx /\ Payable(tx[t])
    BY <1>1, HolderAssumption DEF OperatorPaid, OperatorPays, Payable
  <2>. QED
    BY <2>1, <2>2, ExecuteProjected
<1>4. ASSUME NEW u \in Tester, NEW k \in Exchange, TesterExchange(u, k)
      PROVE  LedgerSound' /\ [Custody!ReserveNext]_(Custody!reserveVars)
  <2>1. PICK t \in Tx : t = [Unused EXCEPT !.kind = k, !.by = u] /\ Payable(t)
    BY TesterPays
  <2>2. Executable(Finalized, t) /\ hist' = Append(hist, Execute(Finalized, t))
    BY <1>4, <2>1, Zenon DEF TesterExchange
  <2>. QED
    BY <2>1, <2>2, ExecuteProjected
<1>5. ASSUME NEW u \in Tester, TesterDonation(u)
      PROVE  LedgerSound' /\ [Custody!ReserveNext]_(Custody!reserveVars)
  <2>1. u \in Holder /\ u # Escrow
    BY HolderAssumption DEF Holder
  <2>. QED
    BY <1>5, <2>1, DonationProjected DEF TesterDonation
<1>. QED
  BY <1>2, <1>3, <1>4, <1>5 DEF ChainMoves, Submits

\* A success is counted once, when the asset moves.
LEMMA CountNext ==
    ASSUME Inv, OperatorPaid, CustodyCounted, ChainMoves
    PROVE  CustodyCounted'
<1>1. /\ tx \in [Sig -> Tx] /\ hist \in Seq(Ledger) /\ Len(hist) > 0
      /\ Finalized \in Ledger
  BY DEF Inv, ChainSound, Finalized
<1>2. Operator # Escrow
  BY HolderAssumption
<1>3. ASSUME Succeeded("AWAKEN")' = Succeeded("AWAKEN"),
             Succeeded("RELEASE")' = Succeeded("RELEASE"),
             (Finalized.owner = Operator) = (Finalized'.owner = Operator)
      PROVE  CustodyCounted'
  BY <1>3 DEF CustodyCounted
<1>4. CASE UNCHANGED <<hist, tx>>
  BY <1>3, <1>4, HistoryStays DEF Succeeded
<1>5. ASSUME NEW t \in Sig, NEW new \in Tx, tx' = [tx EXCEPT ![t] = new],
             tx[t].status # "ok", NEW k \in Kind
      PROVE  Succeeded(k)' = IF new.status = "ok" /\ new.kind = k
                             THEN Succeeded(k) \cup {t} ELSE Succeeded(k)
  BY <1>1, <1>5 DEF Succeeded
<1>6. "AWAKEN" \in Kind /\ "RELEASE" \in Kind
  BY DEF Kind
<1>7. ASSUME NEW t \in Sig, Submits(t) PROVE CustodyCounted'
  <2>1. PICK new \in Tx : tx' = [tx EXCEPT ![t] = new] /\ new.status # "ok"
    BY <1>7 DEF Submits
  <2>. QED
    BY <1>3, <1>5, <1>6, <1>7, <2>1, HistoryStays DEF Submits
<1>8. ASSUME NEW t \in Sig, Settle(t) PROVE CustodyCounted'
  <2>1. PICK new \in Tx :
           /\ tx' = [tx EXCEPT ![t] = new]
           /\ new.kind = tx[t].kind
           /\ \/ /\ new.status = "ok"
                 /\ Executable(Finalized, tx[t])
                 /\ hist' = Append(hist, Execute(Finalized, tx[t]))
              \/ new.status # "ok" /\ hist' = hist
    BY <1>1, <1>8, SettleEffect
  <2>2. tx[t].status = "sent"
    BY <1>1, <1>8, SettleEffect
  <2>3. CASE new.status # "ok"
    BY <1>3, <1>5, <1>6, <2>1, <2>2, <2>3, HistoryStays
  <2>4. CASE new.status = "ok"
    <3>1. PICK old \in Tx : /\ old = tx[t] /\ Payable(old)
                            /\ old.by = Operator /\ old.kind = new.kind
      BY <1>1, <2>1, HolderAssumption DEF OperatorPaid, OperatorPays, Payable
    <3>2. PICK l \in Ledger : l = Finalized
      BY <1>1
    <3>3. Executable(l, old) /\ hist' = Append(hist, Execute(l, old))
      BY <2>1, <2>4, <3>1, <3>2
    <3>4. Execute(l, old) \in Ledger
      BY <3>3, ExecuteType
    <3>5. Finalized' = Execute(l, old)
      BY <1>1, <3>3, <3>4, AppendFinalized
    <3>6. t \notin Succeeded("AWAKEN") /\ t \notin Succeeded("RELEASE")
      BY <2>2 DEF Succeeded
    <3>7. /\ IsFiniteSet(Succeeded("AWAKEN") \cup {t})
          /\ Cardinality(Succeeded("AWAKEN") \cup {t})
               = Cardinality(Succeeded("AWAKEN")) + 1
          /\ IsFiniteSet(Succeeded("RELEASE") \cup {t})
          /\ Cardinality(Succeeded("RELEASE") \cup {t})
               = Cardinality(Succeeded("RELEASE")) + 1
      BY <3>6, FS_AddElement DEF CustodyCounted
    <3>8. CASE old.kind = "AWAKEN"
      <4>1. Succeeded("AWAKEN")' = Succeeded("AWAKEN") \cup {t}
        BY <1>5, <1>6, <2>1, <2>2, <2>4, <3>1, <3>8
      <4>2. Succeeded("RELEASE")' = Succeeded("RELEASE")
        BY <1>5, <1>6, <2>1, <2>2, <2>4, <3>1, <3>8
      <4>3. Finalized.owner = Escrow /\ Finalized'.owner = Operator
        BY <3>1, <3>2, <3>3, <3>5, <3>8, ExecuteEffect
      <4>4. /\ Cardinality(Succeeded("RELEASE")) \in Nat
            /\ Cardinality(Succeeded("AWAKEN")) \in Nat
        BY FS_CardinalityType DEF CustodyCounted
      <4>5. Cardinality(Succeeded("AWAKEN")) = Cardinality(Succeeded("RELEASE"))
        BY <1>2, <4>3, <4>4 DEF CustodyCounted
      <4>6. /\ IsFiniteSet(Succeeded("AWAKEN")')
            /\ Cardinality(Succeeded("AWAKEN")') = Cardinality(Succeeded("RELEASE")') + 1
        BY <3>7, <4>1, <4>2, <4>5, Zenon
      <4>7. IsFiniteSet(Succeeded("RELEASE")')
        BY <4>2 DEF CustodyCounted
      <4>. QED
        BY <4>3, <4>6, <4>7 DEF CustodyCounted
    <3>9. CASE old.kind = "RELEASE"
      <4>1. Succeeded("RELEASE")' = Succeeded("RELEASE") \cup {t}
        BY <1>5, <1>6, <2>1, <2>2, <2>4, <3>1, <3>9
      <4>2. Succeeded("AWAKEN")' = Succeeded("AWAKEN")
        BY <1>5, <1>6, <2>1, <2>2, <2>4, <3>1, <3>9
      <4>3. Finalized.owner = Operator /\ Finalized'.owner = Escrow
        BY <3>1, <3>2, <3>3, <3>5, <3>9, ExecuteEffect
      <4>4. /\ Cardinality(Succeeded("RELEASE")) \in Nat
            /\ Cardinality(Succeeded("AWAKEN")) \in Nat
        BY FS_CardinalityType DEF CustodyCounted
      <4>5. Cardinality(Succeeded("AWAKEN")) = Cardinality(Succeeded("RELEASE")) + 1
        BY <4>3, <4>4 DEF CustodyCounted
      <4>6. /\ IsFiniteSet(Succeeded("RELEASE")')
            /\ Cardinality(Succeeded("AWAKEN")') = Cardinality(Succeeded("RELEASE")')
        BY <3>7, <4>1, <4>2, <4>5, Zenon
      <4>7. IsFiniteSet(Succeeded("AWAKEN")')
        BY <4>2 DEF CustodyCounted
      <4>8. Cardinality(Succeeded("RELEASE")') \in Nat
        BY <4>6, FS_CardinalityType
      <4>. QED
        BY <1>2, <4>3, <4>6, <4>7, <4>8 DEF CustodyCounted
    <3>10. CASE old.kind = "ALLOCATE_TESTER"
      <4>1. /\ Succeeded("RELEASE")' = Succeeded("RELEASE")
            /\ Succeeded("AWAKEN")' = Succeeded("AWAKEN")
        BY <1>5, <1>6, <2>1, <2>2, <2>4, <3>1, <3>10
      <4>2. Finalized'.owner = Finalized.owner
        BY <3>1, <3>2, <3>3, <3>5, <3>10, ExecuteEffect
      <4>. QED
        BY <1>3, <4>1, <4>2
    <3>. QED
      BY <3>8, <3>9, <3>10 DEF Tx, Kind
  <2>. QED
    BY <2>3, <2>4
<1>9. ASSUME NEW u \in Tester, NEW k \in Exchange, TesterExchange(u, k)
      PROVE  CustodyCounted'
  <2>1. PICK t \in Tx : /\ t = [Unused EXCEPT !.kind = k, !.by = u]
                        /\ Payable(t) /\ t.kind = k /\ t.by = u
    BY TesterPays
  <2>2. Executable(Finalized, t) /\ hist' = Append(hist, Execute(Finalized, t))
    BY <1>9, <2>1, Zenon DEF TesterExchange
  <2>3. Finalized' = Execute(Finalized, t)
    BY <1>1, <2>2, ExecuteType, AppendFinalized
  <2>4. u # Operator
    BY HolderAssumption
  <2>5. Finalized.owner # Operator /\ Finalized'.owner # Operator
    BY <1>1, <1>2, <2>1, <2>2, <2>3, <2>4, ExecuteEffect DEF Exchange
  <2>6. \A j : Succeeded(j)' = Succeeded(j)
    BY <1>9 DEF TesterExchange, Succeeded
  <2>. QED
    BY <1>3, <2>5, <2>6
<1>10. ASSUME NEW u \in Tester, TesterDonation(u) PROVE CustodyCounted'
  <2>1. PICK l \in Ledger : l = Finalized
    BY <1>1
  <2>2. PICK f \in [Holder -> Nat] : f = Move(l.tokens, u, Escrow)
    BY <1>10, <2>1, MoveType DEF TesterDonation, Ledger, Holder
  <2>3. PICK m \in Ledger : m = [l EXCEPT !.tokens = f]
    BY DEF Ledger
  <2>4. m.owner = l.owner
    BY <2>3 DEF Ledger
  <2>5. hist' = Append(hist, m)
    BY <1>10, <2>1, <2>2, <2>3, Zenon DEF TesterDonation
  <2>6. Finalized' = m
    BY <1>1, <2>5, AppendFinalized
  <2>7. \A j : Succeeded(j)' = Succeeded(j)
    BY <1>10 DEF TesterDonation, Succeeded
  <2>. QED
    BY <1>3, <2>1, <2>4, <2>6, <2>7
<1>. QED
  BY <1>4, <1>7, <1>8, <1>9, <1>10 DEF ChainMoves

\* When setup is complete the operator and one outsider have the whole supply,
\* the escrow has the asset, and nothing is recorded.
LEMMA PaymentsInit == Init => Payments /\ Custody!ReserveInit
<1>. SUFFICES ASSUME Init PROVE Payments /\ Custody!ReserveInit
  OBVIOUS
<1>1. Operator \in Holder /\ Escrow \in Holder /\ Operator # Escrow
  BY HolderAssumption DEF Holder
<1>2. RightCommands
  BY IdleRight DEF Init, RightCommands
<1>3. OperatorPaid
  BY DEF Init, ChainInit, OperatorPaid, OperatorPays, Unused
<1>4. PICK own \in Backing .. Supply, u \in Tester \cup {Operator} :
         /\ u = Operator => own = Supply
         /\ hist = <<[owner |-> Escrow, tokens |-> Shared(own, u)]>>
  BY Zenon DEF Init, ChainInit
<1>5. /\ Finalized.owner = Escrow
      /\ Finalized.tokens = Shared(own, u)
      /\ hist \in Seq(Ledger) /\ Len(hist) > 0
  <2>1. Inv
    BY InvInit
  <2>. QED
    BY <1>4, <2>1 DEF Finalized, Inv, ChainSound
<1>6. Shared(own, u) \in [Holder -> Nat] /\ Shared(own, u)[Escrow] = 0
  BY HolderAssumption, SharedType
<1>7. LedgerSound
  BY <1>4, <1>5, <1>6, SharedConserved DEF LedgerSound
<1>8. CustodyCounted
  <2>1. Succeeded("AWAKEN") = {} /\ Succeeded("RELEASE") = {}
    BY DEF Init, ChainInit, Succeeded, Unused
  <2>2. IsFiniteSet({}) /\ Cardinality({}) = 0
    BY FS_EmptySet
  <2>3. (IF Finalized.owner = Operator THEN 1 ELSE 0) = 0
    BY <1>1, <1>5
  <2>. QED
    BY <2>1, <2>2, <2>3 DEF CustodyCounted
<1>9. Custody!ReserveInit
  BY <1>1, <1>5, <1>6, NumberAssumption DEF Custody!ReserveInit
<1>. QED
  BY <1>2, <1>3, <1>7, <1>8, <1>9 DEF Payments

\* Every step keeps the payments, and is a step of the custody or none.
LEMMA PaymentsNext ==
    Inv /\ Payments /\ [Next]_vars
       => Payments' /\ [Custody!ReserveNext]_(Custody!reserveVars)
<1>. SUFFICES ASSUME Inv, Payments, [Next]_vars
              PROVE  Payments' /\ [Custody!ReserveNext]_(Custody!reserveVars)
  OBVIOUS
<1>1. ChainMoves
  BY ChainEffect DEF Payments
<1>. QED
  BY <1>1, RightNext, OperatorPaidNext, CustodyNext, CountNext DEF Payments

\* Hence it always holds.
LEMMA PaymentsAlways == Spec => []Payments
<1>. QED
  BY PaymentsInit, InvAlways, PaymentsNext, PTL DEF Spec

\* The finalized chain implements the custody math.ts projects, whatever the
\* operator's commands, in any number of terminals, and the testers do, and
\* wherever a command is stopped: every finalized exchange is one capture or
\* one release against its backing, an allocation is none, and coins sent to
\* the escrow are a donation that fits in the supply.
THEOREM CustodyImplemented == Spec => CanaryCustody
<1>1. Init => Custody!ReserveInit
  BY PaymentsInit
<1>2. Inv /\ Payments /\ [Next]_vars => [Custody!ReserveNext]_(Custody!reserveVars)
  BY PaymentsNext
<1>. QED
  BY <1>1, <1>2, InvAlways, PaymentsAlways, PTL
     DEF Spec, CanaryCustody, Custody!ReserveSpec

-----------------------------------------------------------------------------
(* One terminal                                                            *)

\* No command runs while another one does.
OneTerminal == \A p, q \in Proc : p = q

\* An exchange was sent, and its signature is in memory only.
Sent(c, m) ==
    /\ c.ret = "confirm"
    /\ disk.pending = NoSig
    /\ m.pending = c.sig /\ m.sigs = disk.sigs /\ m.tester = disk.tester
    /\ tx[c.sig].status \notin {"unused", "signed"}
    /\ tx[c.sig].kind \in Exchange

\* An allocation was signed and bound to its tester, in memory only.
Signed(c, m) ==
    /\ c.ret = "sendAllocation"
    /\ disk.pending = NoSig
    /\ disk.tester \in {Operator, c.to}
    /\ m.pending = c.sig /\ m.sigs = disk.sigs /\ m.tester = c.to
    /\ tx[c.sig].status = "signed"
    /\ tx[c.sig].kind = "ALLOCATE_TESTER" /\ tx[c.sig].to = c.to

\* All that a copy about to be saved may change in the file.
Updates(c, m) ==
    \/ SameEvidence(disk, m)
    \/ Lists(disk, m, disk.pending)
    \/ Sent(c, m)
    \/ Signed(c, m)

\* A running command's copy is the file, or is about to replace it; and what
\* the command has checked of the file is still so.
Faithful(c, m) ==
    /\ c.pc \notin {"idle", "save"} => m = disk
    /\ c.pc = "save" => Updates(c, m)
    /\ SavesFor(c, {"confirm"}) => Sent(c, m)
    /\ SavesFor(c, {"sendAllocation"}) => Signed(c, m)
    /\ SavesFor(c, {"verify", "reconcile"}) => m.pending = NoSig
    /\ c.pc \in {"send", "sign", "verify"} => disk.pending = NoSig
    /\ c.pc = "reconcile" /\ c.op \in Exchange \cup {"ALLOCATE_TESTER"}
          => disk.pending = NoSig
    /\ c.pc \in {"reconcile", "sign"} /\ c.op = "ALLOCATE_TESTER"
          => disk.tester \in {Operator, c.to}
    /\ c.pc \in {"confirm", "sendAllocation", "confirmAllocation", "verifyAllocation"}
          => disk.pending = c.sig
    /\ c.pc \in {"sendAllocation", "confirmAllocation", "verifyAllocation"}
          => tx[c.sig].kind = "ALLOCATE_TESTER" /\ tx[c.sig].to = disk.tester

\* A torn file is never loaded.
Following(c, m) == Faithful(c, m) /\ (torn => c.pc = "idle")

Evidence == (\A p \in Proc : Following(ctl[p], mem[p])) /\ EvidenceAccounted

\* Everything the steps below need of a state.
OneInv == Inv /\ Payments /\ Evidence

\* With one terminal, the process that moves is the only one.
LEMMA OnlyProcess ==
    ASSUME OneTerminal, Inv, NEW p \in Proc, NEW c, NEW m, Becomes(p, c, m)
    PROVE  \A q \in Proc : q = p /\ ctl'[q] = c /\ mem'[q] = m
<1>. QED
  BY DEF OneTerminal, Inv, ProcsSound, Becomes

\* An idle process follows whatever the file says.
LEMMA IdleFollows == Following(Idle, FirstState) /\ Following(Idle, FirstState)'
<1>. QED
  BY DEF Following, Faithful, SavesFor, Idle

\* It is enough to say what the moving process becomes.
LEMMA EvidenceStep ==
    ASSUME OneTerminal, Inv, NEW p \in Proc, NEW c, NEW m, Becomes(p, c, m),
           Following(c, m)', EvidenceAccounted'
    PROVE  Evidence'
<1>1. \A q \in Proc : ctl'[q] = c /\ mem'[q] = m
  BY OnlyProcess
<1>. QED
  BY <1>1 DEF Evidence, Following, Faithful, SavesFor, Updates, SameEvidence,
              Lists, Sent, Signed

\* What is accounted for by the file, or as lost, stays so while they stay.
LEMMA AccountedStays ==
    ASSUME OneTerminal, EvidenceAccounted, NEW p \in Proc, ctl[p].pc # "save",
           UNCHANGED <<tx, disk, torn>>, lost \subseteq lost'
    PROVE  EvidenceAccounted'
<1>1. \A q \in Proc : ctl[q].pc # "save"
  BY DEF OneTerminal
<1>. QED
  BY <1>1 DEF EvidenceAccounted, Broadcast

\* A step between two saves.
LEMMA QuietFollows ==
    ASSUME OneTerminal, OneInv, NEW p \in Proc, Quiet(p)
    PROVE  Evidence'
<1>1. PICK c \in Ctl, m \in State : Becomes(p, c, m) /\ Works(ctl[p], mem[p], c, m)
  BY DEF Quiet
<1>2. /\ ctl[p].pc \notin {"idle", "save"}
      /\ UNCHANGED <<hist, tx, disk, torn, lost>>
  BY DEF Quiet, chainVars
<1>3. PICK c0, m0 : c0 = ctl[p] /\ m0 = mem[p]
  OBVIOUS
<1>4. Faithful(c0, m0) /\ m0 = disk /\ ~ torn
  BY <1>2, <1>3 DEF OneInv, Evidence, Following, Faithful
<1>5. EvidenceAccounted'
  BY <1>2, AccountedStays DEF OneInv, Evidence
<1>6. CASE c = Idle
  <2>1. Following(c, m)'
    BY <1>6 DEF Following, Faithful, SavesFor, Idle
  <2>. QED
    BY <1>1, <1>5, <2>1, EvidenceStep DEF OneInv
<1>7. CASE c # Idle
  <2>1. Faithful(c, m)
    BY <1>1, <1>3, <1>4, <1>7
       DEF Works, Faithful, SavesFor, SameTask, Updates, SameEvidence, Lists,
           Exchange
  <2>2. Following(c, m)'
    BY <1>2, <1>4, <2>1 DEF Following, Faithful, SavesFor, Updates, SameEvidence,
                            Lists, Sent, Signed
  <2>. QED
    BY <1>1, <1>5, <2>2, EvidenceStep DEF OneInv
<1>. QED
  BY <1>6, <1>7

\* A command starts with the file as it is.
LEMMA LoadFollows ==
    ASSUME OneTerminal, OneInv, NEW p \in Proc, Command(p)
    PROVE  Evidence'
<1>1. /\ ctl[p].pc = "idle" /\ ~ torn
      /\ UNCHANGED <<hist, tx, disk, torn, lost>>
  BY LoadEffect DEF OneInv, chainVars
<1>2. PICK c \in Ctl : /\ Becomes(p, c, disk)
                       /\ c.pc = "reconcile"
                       /\ Allowed(c.op, c.to)
  BY LoadEffect DEF OneInv
<1>3. PICK m : m = disk
  OBVIOUS
<1>4. Following(c, m)'
  BY <1>1, <1>2, <1>3 DEF Following, Faithful, SavesFor, Allowed
<1>5. EvidenceAccounted'
  BY <1>1, AccountedStays DEF OneInv, Evidence
<1>. QED
  BY <1>2, <1>3, <1>4, <1>5, EvidenceStep DEF OneInv

\* saveState makes the file follow: nothing pending is forgotten by it.
LEMMA SaveFollows ==
    ASSUME OneTerminal, OneInv, NEW p \in Proc, Save(p)
    PROVE  Evidence'
<1>1. /\ ctl[p].pc = "save" /\ disk' = mem[p] /\ torn' = FALSE
      /\ tx' = tx /\ lost' = lost
  BY SaveEffect DEF OneInv, chainVars
<1>2. PICK c0, m0 : c0 = ctl[p] /\ m0 = mem[p]
  OBVIOUS
<1>3. Faithful(c0, m0) /\ Updates(c0, m0) /\ ~ torn
  BY <1>1, <1>2 DEF OneInv, Evidence, Following, Faithful
<1>4. RightCommand(c0) /\ SoundCtl(c0)
  BY <1>2 DEF OneInv, Payments, RightCommands, Inv, ProcsSound
<1>5. EvidenceAccounted'
  <2>1. \A t \in Broadcast' : t \in Broadcast
    BY <1>1 DEF Broadcast
  <2>2. ASSUME NEW t \in Broadcast
        PROVE  /\ t \in m0.sigs \/ m0.pending = t \/ t \in lost
               /\ tx[t].kind = "ALLOCATE_TESTER" =>
                     /\ t \in m0.sigs \/ m0.pending = t
                     /\ m0.tester = tx[t].to
    <3>1. /\ \/ t \in disk.sigs
             \/ disk.pending = t
             \/ t \in lost
             \/ m0.pending = t
          /\ tx[t].kind = "ALLOCATE_TESTER" =>
                /\ t \in disk.sigs \/ disk.pending = t
                /\ disk.tester = tx[t].to
      BY <1>2, <1>3 DEF OneInv, Evidence, EvidenceAccounted, OneTerminal
    <3>2. t \in Sig /\ t # NoSig
      BY CliAssumption DEF Broadcast
    <3>3. tx[t].kind = "ALLOCATE_TESTER" => tx[t].to # Operator
      BY <3>2, HolderAssumption DEF OneInv, Payments, OperatorPaid, OperatorPays
    <3>4. CASE SameEvidence(disk, m0)
      BY <3>1, <3>4 DEF SameEvidence
    <3>5. CASE Lists(disk, m0, disk.pending)
      BY <3>1, <3>5 DEF Lists
    <3>6. CASE Sent(c0, m0)
      BY <3>1, <3>2, <3>6 DEF Sent
    <3>7. CASE Signed(c0, m0)
      BY <3>1, <3>2, <3>3, <3>7 DEF Signed
    <3>. QED
      BY <1>3, <3>4, <3>5, <3>6, <3>7 DEF Updates
  <2>. QED
    BY <1>1, <1>2, <2>1, <2>2 DEF EvidenceAccounted
<1>6. CASE Exit(p)
  BY <1>5, <1>6, ExitEffect, IdleFollows, EvidenceStep DEF OneInv
<1>7. CASE ~ Exit(p)
  <2>1. PICK c \in Ctl : /\ Becomes(p, c, m0)
                         /\ c.pc = c0.ret
                         /\ SameTask(c0, c)
    BY <1>2, <1>7, SaveEffect DEF OneInv
  <2>2. Faithful(c, m0)'
    <3>1. c0.pc = "save" /\ c0.sig = c.sig /\ c0.op = c.op /\ c0.to = c.to
      BY <1>1, <1>2, <2>1 DEF SameTask
    <3>2. CASE c.pc = "confirm"
      BY <1>1, <1>2, <1>3, <2>1, <3>1, <3>2 DEF Faithful, SavesFor, Sent
    <3>3. CASE c.pc = "sendAllocation"
      BY <1>1, <1>2, <1>3, <2>1, <3>1, <3>3 DEF Faithful, SavesFor, Signed
    <3>4. CASE c.pc = "verify"
      BY <1>1, <1>2, <1>3, <2>1, <3>1, <3>4 DEF Faithful, SavesFor
    <3>5. CASE c.pc = "reconcile"
      <4>1. c.op # "ALLOCATE_TESTER"
        BY <1>4, <2>1, <3>1, <3>5
           DEF RightCommand, OnExchange, SavesFor, Exchange
      <4>. QED
        BY <1>1, <1>2, <1>3, <2>1, <3>1, <3>5, <4>1 DEF Faithful, SavesFor
    <3>6. CASE c.pc \in {"final", "idle", "publish"}
      BY <1>1, <1>2, <3>6 DEF Faithful, SavesFor
    <3>. QED
      BY <1>4, <2>1, <3>1, <3>2, <3>3, <3>4, <3>5, <3>6 DEF SoundCtl
  <2>3. Following(c, m0)'
    BY <1>1, <2>2 DEF Following
  <2>. QED
    BY <1>2, <1>5, <2>1, <2>3, EvidenceStep DEF OneInv
<1>. QED
  BY <1>6, <1>7

\* A new transaction is not broadcast, or is accounted for by its process.
LEMMA SendExchangeFollows ==
    ASSUME OneTerminal, OneInv, NEW p \in Proc, NEW t \in Sig,
           SendExchange(p, t) \/ SendExchangeUnanswered(p, t)
    PROVE  Evidence'
<1>1. /\ ctl[p].pc = "send" /\ tx[t].status = "unused"
      /\ disk' = disk /\ torn' = torn
  BY SendExchangeEffect DEF OneInv
<1>2. PICK new \in Tx : /\ tx' = [tx EXCEPT ![t] = new]
                        /\ new.kind = ctl[p].op
                        /\ new.status = "sent"
  BY SendExchangeEffect DEF OneInv
<1>3. PICK c0, m0 : c0 = ctl[p] /\ m0 = mem[p]
  OBVIOUS
<1>4. m0 = disk /\ disk.pending = NoSig /\ ~ torn
  BY <1>1, <1>3 DEF OneInv, Evidence, Following, Faithful
<1>5. /\ \A u \in Sig : tx'[u] = IF u = t THEN new ELSE tx[u]
      /\ new.kind \in Exchange
  BY <1>1, <1>2, <1>3
     DEF OneInv, Inv, ChainSound, Payments, RightCommands, RightCommand, OnExchange
<1>6. \A u \in Broadcast' : u # t =>
         /\ u \in disk.sigs \/ u \in lost
         /\ tx'[u].kind = "ALLOCATE_TESTER" =>
               u \in disk.sigs /\ disk.tester = tx'[u].to
  <2>1. \A q \in Proc : ctl[q].pc # "save"
    BY <1>1 DEF OneTerminal
  <2>2. \A u \in Sig : u # NoSig
    BY CliAssumption
  <2>. QED
    BY <1>4, <1>5, <2>1, <2>2 DEF OneInv, Evidence, EvidenceAccounted, Broadcast
<1>7. tx'[t].kind # "ALLOCATE_TESTER"
  BY <1>5 DEF Exchange
<1>8. CASE lost' = lost \cup {t} /\ Exit(p)
  <2>1. EvidenceAccounted'
    BY <1>1, <1>6, <1>7, <1>8 DEF EvidenceAccounted
  <2>. QED
    BY <1>8, <2>1, ExitEffect, IdleFollows, EvidenceStep DEF OneInv
<1>9. CASE lost' = lost /\ ~ (lost' = lost \cup {t} /\ Exit(p))
  <2>1. PICK c \in Ctl, m \in State :
           /\ Becomes(p, c, m)
           /\ SavesFor(c, {"confirm"})
           /\ c.sig = t /\ m.pending = t
           /\ m.sigs = m0.sigs /\ m.tester = m0.tester
    BY <1>3, <1>9, SendExchangeEffect DEF OneInv
  <2>2. Sent(c, m)'
    BY <1>1, <1>2, <1>4, <1>5, <2>1 DEF Sent, SavesFor
  <2>3. Following(c, m)'
    BY <1>1, <1>4, <2>1, <2>2 DEF Following, Faithful, SavesFor, Updates
  <2>4. ctl'[p].pc = "save" /\ mem'[p].pending = t
    BY <2>1, OnlyProcess DEF OneInv, SavesFor
  <2>5. EvidenceAccounted'
    BY <1>1, <1>6, <1>7, <1>9, <2>4 DEF EvidenceAccounted
  <2>. QED
    BY <2>1, <2>3, <2>5, EvidenceStep DEF OneInv
<1>. QED
  BY <1>8, <1>9, SendExchangeEffect DEF OneInv

\* A signed allocation is not broadcast yet.
LEMMA SignAllocationFollows ==
    ASSUME OneTerminal, OneInv, NEW p \in Proc, NEW t \in Sig, SignAllocation(p, t)
    PROVE  Evidence'
<1>1. /\ ctl[p].pc = "sign" /\ tx[t].status = "unused"
      /\ disk' = disk /\ torn' = torn /\ lost' = lost
  BY SignAllocationEffect DEF OneInv
<1>2. PICK new \in Tx : /\ tx' = [tx EXCEPT ![t] = new]
                        /\ new.kind = "ALLOCATE_TESTER"
                        /\ new.to = ctl[p].to
                        /\ new.status = "signed"
  BY SignAllocationEffect DEF OneInv
<1>3. PICK c0, m0 : c0 = ctl[p] /\ m0 = mem[p]
  OBVIOUS
<1>4. /\ m0 = disk /\ disk.pending = NoSig /\ ~ torn
      /\ disk.tester \in {Operator, c0.to}
  BY <1>1, <1>3 DEF OneInv, Evidence, Following, Faithful, Payments,
                    RightCommands, RightCommand, OnAllocation
<1>5. \A u \in Sig : tx'[u] = IF u = t THEN new ELSE tx[u]
  BY <1>2 DEF OneInv, Inv, ChainSound
<1>6. EvidenceAccounted'
  <2>1. \A q \in Proc : ctl[q].pc # "save"
    BY <1>1 DEF OneTerminal
  <2>2. \A u \in Broadcast' : u \in Broadcast /\ tx'[u] = tx[u]
    BY <1>2, <1>5 DEF Broadcast
  <2>. QED
    BY <1>1, <2>1, <2>2 DEF OneInv, Evidence, EvidenceAccounted
<1>7. PICK c \in Ctl, m \in State :
         /\ Becomes(p, c, m)
         /\ SavesFor(c, {"sendAllocation"})
         /\ c.to = c0.to /\ c.sig = t
         /\ m.pending = t /\ m.tester = c0.to /\ m.sigs = m0.sigs
  BY <1>3, SignAllocationEffect DEF OneInv
<1>8. Signed(c, m)'
  BY <1>1, <1>2, <1>3, <1>4, <1>5, <1>7 DEF Signed, SavesFor
<1>9. Following(c, m)'
  BY <1>1, <1>4, <1>7, <1>8 DEF Following, Faithful, SavesFor, Updates
<1>. QED
  BY <1>6, <1>7, <1>9, EvidenceStep DEF OneInv

\* An allocation is in the file before its bytes are sent.
LEMMA SendAllocationFollows ==
    ASSUME OneTerminal, OneInv, NEW p \in Proc, SendAllocation(p)
    PROVE  Evidence'
<1>1. /\ ctl[p].pc = "sendAllocation"
      /\ disk' = disk /\ torn' = torn /\ lost' = lost
  BY SendAllocationEffect DEF OneInv
<1>2. PICK t \in Sig : t = ctl[p].sig /\ tx[t].status = "signed"
  BY SendAllocationEffect DEF OneInv
<1>3. PICK new \in Tx : /\ tx' = [tx EXCEPT ![t] = new]
                        /\ new.kind = tx[t].kind /\ new.to = tx[t].to
                        /\ new.status = "sent"
  BY <1>2, SendAllocationEffect DEF OneInv
<1>4. PICK c0, m0 : c0 = ctl[p] /\ m0 = mem[p]
  OBVIOUS
<1>5. /\ m0 = disk /\ disk.pending = t /\ ~ torn
      /\ tx[t].kind = "ALLOCATE_TESTER" /\ tx[t].to = disk.tester
  BY <1>1, <1>2, <1>4 DEF OneInv, Evidence, Following, Faithful
<1>6. \A u \in Sig : tx'[u] = IF u = t THEN new ELSE tx[u]
  BY <1>3 DEF OneInv, Inv, ChainSound
<1>7. EvidenceAccounted'
  <2>1. \A q \in Proc : ctl[q].pc # "save"
    BY <1>1 DEF OneTerminal
  <2>2. \A u \in Broadcast' : u = t \/ (u \in Broadcast /\ tx'[u] = tx[u])
    BY <1>6 DEF Broadcast
  <2>3. tx'[t].kind = "ALLOCATE_TESTER" /\ tx'[t].to = disk.tester
    BY <1>3, <1>5, <1>6
  <2>. QED
    BY <1>1, <1>5, <2>1, <2>2, <2>3 DEF OneInv, Evidence, EvidenceAccounted
<1>8. CASE Exit(p)
  BY <1>7, <1>8, ExitEffect, IdleFollows, EvidenceStep DEF OneInv
<1>9. CASE ~ Exit(p)
  <2>1. PICK c \in Ctl : /\ Becomes(p, c, m0)
                         /\ c.pc = "confirmAllocation"
                         /\ c.sig = t
    BY <1>2, <1>4, <1>9, SendAllocationEffect DEF OneInv, SameTask
  <2>2. Following(c, m0)'
    BY <1>1, <1>3, <1>5, <1>6, <2>1 DEF Following, Faithful, SavesFor
  <2>. QED
    BY <1>7, <2>1, <2>2, EvidenceStep DEF OneInv
<1>. QED
  BY <1>8, <1>9

\* A kill loses what was sent and not saved, and nothing else.
LEMMA StopFollows ==
    ASSUME OneTerminal, OneInv, NEW p \in Proc, Stop(p) \/ StopWhileWriting(p)
    PROVE  Evidence'
<1>1. /\ Exit(p) /\ tx' = tx /\ disk' = disk
      /\ lost' = lost \cup Forgotten(p)
      /\ torn' = torn \/ torn' = TRUE
      /\ ctl[p].pc # "idle"
  BY DEF Stop, StopWhileWriting, chainVars
<1>2. PICK c0, m0 : c0 = ctl[p] /\ m0 = mem[p]
  OBVIOUS
<1>3. Following(c0, m0) /\ ~ torn
  BY <1>1, <1>2 DEF OneInv, Evidence, Following
<1>4. EvidenceAccounted'
  <2>1. SUFFICES ASSUME NEW t \in Broadcast
                 PROVE  /\ t \in disk.sigs \/ disk.pending = t \/ t \in lost'
                        /\ tx[t].kind = "ALLOCATE_TESTER" =>
                              /\ t \in disk.sigs \/ disk.pending = t
                              /\ disk.tester = tx[t].to
    BY <1>1 DEF EvidenceAccounted, Broadcast
  <2>2. /\ \/ t \in disk.sigs
           \/ disk.pending = t
           \/ t \in lost
           \/ c0.pc = "save" /\ m0.pending = t
        /\ tx[t].kind = "ALLOCATE_TESTER" =>
              /\ t \in disk.sigs \/ disk.pending = t
              /\ disk.tester = tx[t].to
    BY <1>2, <1>3 DEF OneInv, Evidence, EvidenceAccounted, OneTerminal
  <2>3. ASSUME c0.pc = "save", m0.pending = t, t \notin disk.sigs, disk.pending # t
        PROVE  t \in lost'
    <3>1. t \in Sig /\ t # NoSig /\ tx[t].status \notin {"unused", "signed"}
      BY CliAssumption DEF Broadcast
    <3>2. Sent(c0, m0)
      BY <1>3, <2>3, <3>1
         DEF Following, Faithful, Updates, SameEvidence, Lists, Signed
    <3>3. t \in Forgotten(p)
      BY <1>2, <2>3, <3>1, <3>2 DEF Forgotten, Sent
    <3>. QED
      BY <1>1, <3>3
  <2>. QED
    BY <1>1, <2>2, <2>3
<1>. QED
  BY <1>1, <1>4, ExitEffect, IdleFollows, EvidenceStep DEF OneInv

\* What the chain and the testers do does not change the evidence.
LEMMA ChainFollows ==
    ASSUME OneInv, Chain
    PROVE  Evidence'
<1>1. UNCHANGED <<disk, torn, ctl, mem, lost>>
  BY DEF Chain, TesterExchange, TesterDonation, cliVars
<1>2. tx \in [Sig -> Tx] /\ hist \in Seq(Ledger)
  BY DEF OneInv, Inv, ChainSound
<1>3. \A u \in Sig : /\ tx'[u].kind = tx[u].kind
                      /\ tx'[u].to = tx[u].to
                      /\ \/ tx'[u].status = tx[u].status
                         \/ /\ tx[u].status = "sent"
                            /\ tx'[u].status \in {"ok", "failed", "expired"}
  <2>1. CASE UNCHANGED tx
    BY <2>1
  <2>2. ASSUME NEW t \in Sig, Settle(t), NEW u \in Sig
        PROVE  /\ tx'[u].kind = tx[u].kind
               /\ tx'[u].to = tx[u].to
               /\ \/ tx'[u].status = tx[u].status
                  \/ /\ tx[u].status = "sent"
                     /\ tx'[u].status \in {"ok", "failed", "expired"}
    <3>1. PICK new \in Tx : /\ tx' = [tx EXCEPT ![t] = new]
                            /\ new.kind = tx[t].kind /\ new.to = tx[t].to
                            /\ new.status \in {"ok", "failed", "expired"}
      BY <1>2, <2>2, SettleEffect
    <3>2. tx[t].status = "sent"
      BY <1>2, <2>2, SettleEffect
    <3>. QED
      BY <1>2, <3>1, <3>2
  <2>. QED
    BY <2>1, <2>2 DEF Chain, TesterExchange, TesterDonation
<1>4. ASSUME NEW q \in Proc PROVE Following(ctl[q], mem[q])'
  <2>1. PICK c, m : c = ctl[q] /\ m = mem[q]
    OBVIOUS
  <2>2. Following(c, m) /\ SoundCtl(c)
    BY <2>1 DEF OneInv, Evidence, Inv, ProcsSound
  <2>3. Following(c, m)'
    <3>1. Lists(disk, m, disk.pending) => Lists(disk, m, disk.pending)'
      BY <1>1, <1>3 DEF Lists
    <3>2. c.sig \in Sig => (Sent(c, m) => Sent(c, m)')
      BY <1>1, <1>3 DEF Sent
    <3>3. c.sig \in Sig => (Signed(c, m) => Signed(c, m)')
      BY <1>1, <1>3 DEF Signed
    <3>4. c.pc = "save" /\ (Sent(c, m) \/ Signed(c, m)) => c.sig \in Sig
      BY <2>2 DEF SoundCtl, Sending, Confirming, Sent, Signed
    <3>5. c.pc = "save" => Updates(c, m)'
      BY <1>1, <2>2, <3>1, <3>2, <3>3, <3>4
         DEF Following, Faithful, Updates, SameEvidence
    <3>6. /\ SavesFor(c, {"confirm"}) => Sent(c, m)'
          /\ SavesFor(c, {"sendAllocation"}) => Signed(c, m)'
      BY <2>2, <3>2, <3>3, <3>4 DEF Following, Faithful, SavesFor
    <3>7. c.pc \in {"sendAllocation", "confirmAllocation", "verifyAllocation"}
             => c.sig \in Sig
      BY <2>2 DEF SoundCtl, Sending, Confirming
    <3>. QED
      BY <1>1, <1>3, <2>2, <3>5, <3>6, <3>7 DEF Following, Faithful, SavesFor
  <2>. QED
    BY <1>1, <2>1, <2>3 DEF Following, Faithful, SavesFor, Updates, SameEvidence,
                            Lists, Sent, Signed
<1>5. EvidenceAccounted'
  <2>1. \A u \in Broadcast' : u \in Broadcast /\ u \in Sig
    BY <1>3 DEF Broadcast
  <2>. QED
    BY <1>1, <1>3, <2>1 DEF OneInv, Evidence, EvidenceAccounted
<1>. QED
  BY <1>4, <1>5 DEF Evidence

\* When setup is complete nothing is recorded and nothing was sent.
LEMMA EvidenceInit == Init => Evidence
<1>. SUFFICES ASSUME Init PROVE Evidence
  OBVIOUS
<1>1. \A p \in Proc : Following(ctl[p], mem[p])
  BY IdleFollows DEF Init
<1>2. EvidenceAccounted
  BY DEF Init, ChainInit, Unused, EvidenceAccounted, Broadcast
<1>. QED
  BY <1>1, <1>2 DEF Evidence

\* Every step keeps the evidence.
LEMMA EvidenceNext ==
    ASSUME OneTerminal, OneInv, [Next]_vars
    PROVE  Evidence'
<1>1. CASE Chain
  BY <1>1, ChainFollows
<1>2. CASE UNCHANGED vars
  BY <1>2 DEF vars, OneInv, Evidence, EvidenceAccounted, Broadcast, Following,
              Faithful, SavesFor, Updates, SameEvidence, Lists, Sent, Signed
<1>3. ASSUME NEW p \in Proc, Quiet(p) PROVE Evidence'
  BY <1>3, QuietFollows
<1>4. ASSUME NEW p \in Proc, Step(p) PROVE Evidence'
  BY <1>3, <1>4, QuietEffect, SaveFollows, SendExchangeFollows,
     SignAllocationFollows, SendAllocationFollows DEF Step, OneInv
<1>. QED
  BY <1>1, <1>2, <1>4, LoadFollows, StopFollows DEF Next

\* Hence it always holds, with one terminal.
LEMMA OneAlways == OneTerminal => (Spec => []OneInv)
<1>1. Init => OneInv
  BY InvInit, PaymentsInit, EvidenceInit DEF OneInv
<1>2. OneTerminal /\ OneInv /\ [Next]_vars => OneInv'
  BY InvNext, PaymentsNext, EvidenceNext DEF OneInv
<1>3. ASSUME OneTerminal PROVE Spec => []OneInv
  <2>1. OneInv /\ [Next]_vars => OneInv'
    BY <1>2, <1>3
  <2>. QED
    BY <1>1, <2>1, PTL DEF Spec
<1>. QED
  BY <1>3

\* With one terminal the state file accounts for every transaction that left
\* the machine, wherever a command is killed: saveState after the send, and
\* before it for an allocation, leaves only the send window uncovered.
THEOREM EvidenceKept == OneTerminal => (Spec => []EvidenceAccounted)
<1>1. OneInv => EvidenceAccounted
  BY DEF OneInv, Evidence
<1>. QED
  BY <1>1, OneAlways, PTL

-----------------------------------------------------------------------------
(* What one terminal's steps never do                                      *)

\* Only a command that sends or signs takes a new signature.
LEMMA OnlySendersSign ==
    ASSUME Inv, [Next]_vars, NEW t \in Sig,
           tx[t].status = "unused", tx'[t].status # "unused"
    PROVE  \E p \in Proc, u \in Sig :
              \/ SendExchange(p, u) \/ SendExchangeUnanswered(p, u)
              \/ SignAllocation(p, u)
<1>1. tx \in [Sig -> Tx] /\ hist \in Seq(Ledger)
  BY DEF Inv, ChainSound
<1>2. tx' # tx
  OBVIOUS
<1>3. ASSUME NEW u \in Sig, Settle(u) PROVE FALSE
  <2>1. tx[u].status = "sent" /\ \E new \in Tx : tx' = [tx EXCEPT ![u] = new]
    BY <1>1, <1>3, SettleEffect
  <2>. QED
    BY <1>1, <2>1
<1>4. ASSUME Chain PROVE FALSE
  BY <1>2, <1>3, <1>4 DEF Chain, TesterExchange, TesterDonation
<1>5. ASSUME NEW p \in Proc, Quiet(p) PROVE FALSE
  BY <1>2, <1>5 DEF Quiet, chainVars
<1>6. ASSUME NEW p \in Proc, SendAllocation(p) PROVE FALSE
  <2>1. PICK u \in Sig : u = ctl[p].sig /\ tx[u].status = "signed"
    BY <1>6, SendAllocationEffect
  <2>2. \E new \in Tx : tx' = [tx EXCEPT ![u] = new]
    BY <1>6, <2>1, SendAllocationEffect
  <2>. QED
    BY <1>1, <2>1, <2>2
<1>7. ASSUME NEW p \in Proc, Command(p) \/ Save(p) PROVE FALSE
  BY <1>2, <1>7, LoadEffect, SaveEffect DEF chainVars
<1>8. ASSUME NEW p \in Proc, Stop(p) \/ StopWhileWriting(p) PROVE FALSE
  BY <1>2, <1>8 DEF Stop, StopWhileWriting, chainVars
<1>9. ~ UNCHANGED vars
  BY <1>2 DEF vars, chainVars
<1>. QED
  BY <1>4, <1>5, <1>6, <1>7, <1>8, <1>9, QuietEffect DEF Next, Step

\* sendRecorded and runAllocateTester sign nothing while the outcome of an
\* earlier transaction is open, with one terminal: main refuses while one is
\* pending, and every other one succeeded or was lost in the send window.
THEOREM BlindResendNever == OneTerminal => (Spec => NoBlindResend)
<1>. DEFINE Step1 == \A t \in Sig :
              tx[t].status = "unused" /\ tx'[t].status # "unused"
                 => \A u \in Sig \ {t} :
                       \/ tx[u].status \in {"unused", "ok"}
                       \/ tx[u].status = "signed" /\ disk.pending # u
                       \/ u \in lost
<1>1. OneTerminal /\ OneInv /\ [Next]_vars => Step1
  <2>. SUFFICES ASSUME OneTerminal, OneInv, [Next]_vars, NEW t \in Sig,
                       tx[t].status = "unused", tx'[t].status # "unused",
                       NEW u \in Sig
                PROVE  \/ tx[u].status \in {"unused", "ok"}
                       \/ tx[u].status = "signed" /\ disk.pending # u
                       \/ u \in lost
    OBVIOUS
  <2>1. PICK p \in Proc : ctl[p].pc \in {"send", "sign"}
    BY OnlySendersSign, SendExchangeEffect, SignAllocationEffect DEF OneInv
  <2>2. disk.pending = NoSig /\ ~ torn
    BY <2>1 DEF OneInv, Evidence, Following, Faithful
  <2>3. \A q \in Proc : ctl[q].pc # "save"
    BY <2>1 DEF OneTerminal
  <2>4. u # NoSig
    BY CliAssumption
  <2>5. CASE u \in Broadcast
    <3>1. u \in disk.sigs \/ u \in lost
      BY <2>2, <2>3, <2>4, <2>5 DEF OneInv, Evidence, EvidenceAccounted
    <3>2. u \in disk.sigs => tx[u].status = "ok"
      BY DEF OneInv, Inv, FilesSound, SoundState, AllSucceeded
    <3>. QED
      BY <3>1, <3>2
  <2>6. CASE u \notin Broadcast
    BY <2>2, <2>4, <2>6 DEF Broadcast
  <2>. QED
    BY <2>5, <2>6
<1>2. ASSUME OneTerminal PROVE Spec => [][Step1]_vars
  <2>1. OneInv /\ [Next]_vars => [Step1]_vars
    BY <1>1, <1>2
  <2>2. Spec => []OneInv
    BY <1>2, OneAlways
  <2>. HIDE DEF Step1
  <2>. QED
    BY <2>1, <2>2, PTL DEF Spec
<1>. QED
  BY <1>2 DEF NoBlindResend

\* A pending signature leaves the file only as a success, with one terminal:
\* sendRecorded and inspect clear it after confirmation without error, and no
\* copy saved later brings back an older file.
THEOREM PendingNeedsProof == OneTerminal => (Spec => PendingClearedByProof)
<1>. DEFINE Step1 == disk.pending \in Sig /\ disk'.pending # disk.pending
                        => /\ tx[disk.pending].status = "ok"
                           /\ disk.pending \in disk'.sigs
<1>1. OneTerminal /\ OneInv /\ [Next]_vars => Step1
  <2>. SUFFICES ASSUME OneTerminal, OneInv, [Next]_vars,
                       disk.pending \in Sig, disk'.pending # disk.pending
                PROVE  /\ tx[disk.pending].status = "ok"
                       /\ disk.pending \in disk'.sigs
    OBVIOUS
  <2>1. PICK p \in Proc : Save(p)
    <3>1. disk' # disk
      OBVIOUS
    <3>2. ~ Chain /\ ~ UNCHANGED vars
      BY <3>1 DEF Chain, TesterExchange, TesterDonation, cliVars, vars
    <3>3. ASSUME NEW p \in Proc, Quiet(p) PROVE FALSE
      BY <3>1, <3>3 DEF Quiet
    <3>4. ASSUME NEW p \in Proc, Stop(p) \/ StopWhileWriting(p) PROVE FALSE
      BY <3>1, <3>4 DEF Stop, StopWhileWriting
    <3>. QED
      BY <3>1, <3>2, <3>3, <3>4, QuietEffect, LoadEffect, SendExchangeEffect,
         SignAllocationEffect, SendAllocationEffect DEF Next, Step, OneInv
  <2>2. ctl[p].pc = "save" /\ disk' = mem[p]
    BY <2>1, SaveEffect DEF OneInv
  <2>3. Updates(ctl[p], mem[p])
    BY <2>2 DEF OneInv, Evidence, Following, Faithful
  <2>4. disk.pending # NoSig
    BY CliAssumption
  <2>. QED
    BY <2>2, <2>3, <2>4 DEF Updates, SameEvidence, Lists, Sent, Signed
<1>2. ASSUME OneTerminal PROVE Spec => [][Step1]_vars
  <2>1. OneInv /\ [Next]_vars => [Step1]_vars
    BY <1>1, <1>2
  <2>2. Spec => []OneInv
    BY <1>2, OneAlways
  <2>. HIDE DEF Step1
  <2>. QED
    BY <2>1, <2>2, PTL DEF Spec
<1>. QED
  BY <1>2 DEF PendingClearedByProof

\* When nothing runs, nothing is pending and nothing was lost, the signatures
\* the file lists are the exchanges that succeeded, so they say who holds the
\* asset, with one terminal.
THEOREM RecordMatchesChain == OneTerminal => (Spec => []EvidenceMatchesCustody)
<1>1. OneInv => EvidenceMatchesCustody
  <2>. SUFFICES ASSUME OneInv, ~ torn, lost = {}, disk.pending = NoSig,
                       \A p \in Proc : ctl[p].pc = "idle"
                PROVE  Recorded("AWAKEN")
                          = Recorded("RELEASE")
                            + (IF Finalized.owner = Operator THEN 1 ELSE 0)
    BY DEF EvidenceMatchesCustody
  <2>1. \A t \in Broadcast : t \in disk.sigs
    BY CliAssumption DEF OneInv, Evidence, EvidenceAccounted, Broadcast
  <2>2. \A t \in disk.sigs : t \in Sig /\ tx[t].status = "ok"
    BY DEF OneInv, Inv, FilesSound, SoundState, AllSucceeded, State
  <2>3. ASSUME NEW kind
        PROVE  {t \in disk.sigs : tx[t].kind = kind} = Succeeded(kind)
    BY <2>1, <2>2 DEF Succeeded, Broadcast
  <2>4. /\ Recorded("AWAKEN") = Cardinality(Succeeded("AWAKEN"))
        /\ Recorded("RELEASE") = Cardinality(Succeeded("RELEASE"))
    BY <2>3, Zenon DEF Recorded
  <2>. QED
    BY <2>4 DEF OneInv, Payments, CustodyCounted
<1>. QED
  BY <1>1, OneAlways, PTL
=============================================================================
