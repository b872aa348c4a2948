-------------------------- MODULE CanarySetupProofs --------------------------
(***************************************************************************)
(* Custody and the record of setup, for any number of runs that are killed *)
(* anywhere and of Worlds they leave behind.                               *)
(***************************************************************************)
EXTENDS CanarySetup, FiniteSetTheorems, TLAPS

\* The command is past the key file: it has read the key and made a state.
Running == ctl.pc \notin {"idle", "writeKey", "airdrop"}

\* Where it stands, or will stand when the file is written.
At == IF ctl.pc = "save" THEN ctl.ret ELSE ctl.pc

\* A World is built in order: the steps up to n succeeded, those from n were never sent.
Done(w, n) == \A s \in Step : s <= n => chain[w][s] = "ok"
Untouched(w, n) == \A s \in Step : s >= n => chain[w][s] = "none"

\* A key is unusable only before anything was funded, and a command works for the key
\* of the key file.
KeySound ==
    /\ funded \subseteq {key}
    /\ key \notin Key => funded = {}
    /\ ctl.pc = "writeKey" => key \notin Key /\ ctl.key \in Key
    /\ ctl.pc \notin {"idle", "writeKey"} => ctl.key = key /\ key \in Key

\* The chain is exactly where the command believes it is.
ChainMatches ==
    /\ At \in {"fund", "mint"} =>
          Untouched(mem.world, Mint) /\ mem.signatures = {} /\ mem.pending = NoStep
    /\ At = "minted" =>
          /\ Done(mem.world, Mint) /\ Untouched(mem.world, CreateCollection)
          /\ mem.signatures = {} /\ mem.pending = NoStep
    /\ At = "send" =>
          /\ ctl.step \in Recorded
          /\ Done(mem.world, ctl.step - 1) /\ Untouched(mem.world, ctl.step)
          /\ mem.signatures = 2 .. (ctl.step - 1) /\ mem.pending = NoStep
    /\ At = "confirm" =>
          /\ ctl.step \in Recorded
          /\ Done(mem.world, ctl.step - 1) /\ Untouched(mem.world, ctl.step + 1)
          /\ chain[mem.world][ctl.step] # "none"
          /\ mem.signatures = 2 .. (ctl.step - 1) /\ mem.pending = ctl.step
    /\ At = "assign" =>
          /\ ctl.step \in Recorded
          /\ Done(mem.world, ctl.step) /\ Untouched(mem.world, ctl.step + 1)
          /\ mem.signatures = 2 .. ctl.step /\ mem.pending = NoStep
    /\ At \in {"reconcile", "idle"} =>
          /\ Done(mem.world, FundEscrowAsset)
          /\ mem.signatures = 2 .. FundEscrowAsset /\ mem.pending = NoStep

RunSound ==
    Running =>
        /\ mem.world \in World /\ mem.operator = key
        /\ ctl.pc = "save" => ctl.ret \in {"fund", "send", "confirm", "assign", "idle"}
        /\ ChainMatches

\* A state with k - 1 signatures is true of the chain, which is one step ahead at most.
PrefixAt(k) ==
    /\ disk.signatures = 2 .. k
    /\ \A s \in 2 .. k : chain[disk.world][s] = "ok"
    /\ disk.pending \in {NoStep, k + 1}
    /\ \A s \in Step : s > k + 1 => chain[disk.world][s] = "none"

FileSound ==
    file = "ok" =>
        /\ disk.world \in World /\ disk.operator = key /\ key \in Key
        /\ \E k \in Step : PrefixAt(k)

\* The file is behind the copy in memory by what the next save writes.
FileFollows ==
    /\ file = "ok" /\ disk.world = mem.world
    /\ At \in {"fund", "mint", "minted"} => disk.signatures = {}
    /\ At \in {"send", "confirm"} => disk.signatures = 2 .. (ctl.step - 1)
    /\ At = "assign" =>
          disk.signatures = 2 .. (IF ctl.pc = "save" THEN ctl.step - 1 ELSE ctl.step)

RunFollowed ==
    Running => IF ctl.pc = "save" /\ ctl.ret = "fund" THEN file # "ok" ELSE FileFollows

\* The inductive invariant.
SetupSound ==
    TypeOK /\ KeySound /\ RunSound /\ FileSound /\ RunFollowed /\ CustodyAfterSetup

-----------------------------------------------------------------------------
(* What the updates do *)

\* A finished or killed command.
LEMMA ExitEffect ==
    ASSUME Exit
    PROVE  /\ ctl' \in Ctl /\ ctl'.pc = "idle"
           /\ mem' \in State
BY SetupAssumption DEF Exit, Idle, NoState, Ctl, PC, State, Step, Recorded, Mint, NoStep,
   CreateCollection, FundEscrowAsset

\* The control state of a terminal at rest.
LEMMA IdleTyped == Idle \in Ctl
BY DEF Idle, Ctl, PC, Step, Mint, FundEscrowAsset

\* bootstrap begins.
LEMMA BootstrapEffect ==
    ASSUME NEW pc \in PC, NEW k \in Key, ctl' = [Idle EXCEPT !.pc = pc, !.key = k]
    PROVE  ctl' \in Ctl /\ ctl'.pc = pc /\ ctl'.key = k
<1>1. PICK r \in Ctl : r = Idle
  BY IdleTyped
<1>2. [r EXCEPT !.pc = pc, !.key = k] \in Ctl
  BY DEF Ctl
<1>3. ctl' = [r EXCEPT !.pc = pc, !.key = k]
  BY <1>1
<1> QED
  BY <1>2, <1>3 DEF Ctl

\* setup begins.
LEMMA SetupEffect ==
    ASSUME NEW pc \in PC, NEW ret \in PC, NEW k \in Key,
           ctl' = [Idle EXCEPT !.pc = pc, !.ret = ret, !.key = k]
    PROVE  ctl' \in Ctl /\ ctl'.pc = pc /\ ctl'.ret = ret /\ ctl'.key = k
<1>1. PICK r \in Ctl : r = Idle
  BY IdleTyped
<1>2. [r EXCEPT !.pc = pc, !.ret = ret, !.key = k] \in Ctl
  BY DEF Ctl
<1>3. ctl' = [r EXCEPT !.pc = pc, !.ret = ret, !.key = k]
  BY <1>1
<1> QED
  BY <1>2, <1>3 DEF Ctl

\* A command that moves on.
LEMMA GotoEffect ==
    ASSUME ctl \in Ctl, NEW pc \in PC, ctl' = [ctl EXCEPT !.pc = pc]
    PROVE  /\ ctl' \in Ctl /\ ctl'.pc = pc
           /\ ctl'.ret = ctl.ret /\ ctl'.step = ctl.step /\ ctl'.key = ctl.key
BY DEF Ctl

\* A command that writes the file first.
LEMMA SaveThenEffect ==
    ASSUME ctl \in Ctl, NEW pc \in PC, SaveThen(pc)
    PROVE  /\ ctl' \in Ctl /\ ctl'.pc = "save" /\ ctl'.ret = pc
           /\ ctl'.step = ctl.step /\ ctl'.key = ctl.key
<1>1. [ctl EXCEPT !.pc = "save", !.ret = pc] \in Ctl
  BY DEF Ctl, PC
<1> QED
  BY <1>1 DEF SaveThen, Ctl

\* A command that goes on to another step.
LEMMA NextStepEffect ==
    ASSUME ctl \in Ctl, NEW pc \in PC, NEW ret \in PC, NEW s \in Step,
           ctl' = [ctl EXCEPT !.pc = pc, !.ret = ret, !.step = s]
    PROVE  /\ ctl' \in Ctl /\ ctl'.pc = pc /\ ctl'.ret = ret
           /\ ctl'.step = s /\ ctl'.key = ctl.key
<1>1. [ctl EXCEPT !.pc = pc, !.ret = ret, !.step = s] \in Ctl
  BY DEF Ctl
<1> QED
  BY <1>1 DEF Ctl

\* An address is assigned.
LEMMA KnownEffect ==
    ASSUME mem \in State, NEW x \in SUBSET Field, mem' = [mem EXCEPT !.known = @ \cup x]
    PROVE  /\ mem' \in State
           /\ mem'.world = mem.world /\ mem'.operator = mem.operator
           /\ mem'.signatures = mem.signatures /\ mem'.pending = mem.pending
<1>1. PICK y \in SUBSET Field : y = mem.known \cup x
  BY DEF State
<1>2. mem' = [mem EXCEPT !.known = y]
  BY <1>1
<1>3. [mem EXCEPT !.known = y] \in State
  BY DEF State
<1> QED
  BY <1>2, <1>3 DEF State

\* A signature becomes pending.
LEMMA PendingEffect ==
    ASSUME mem \in State, NEW x \in SUBSET Field, NEW s \in Step,
           mem' = [mem EXCEPT !.known = @ \cup x, !.pending = s]
    PROVE  /\ mem' \in State
           /\ mem'.world = mem.world /\ mem'.operator = mem.operator
           /\ mem'.signatures = mem.signatures /\ mem'.pending = s
<1>1. PICK y \in SUBSET Field : y = mem.known \cup x
  BY DEF State
<1>2. mem' = [mem EXCEPT !.known = y, !.pending = s]
  BY <1>1
<1>3. [mem EXCEPT !.known = y, !.pending = s] \in State
  BY DEF State
<1> QED
  BY <1>2, <1>3 DEF State

\* A pending signature becomes a recorded one.
LEMMA ConfirmedEffect ==
    ASSUME mem \in State, NEW s \in Recorded,
           mem' = [mem EXCEPT !.signatures = @ \cup {s}, !.pending = NoStep]
    PROVE  /\ mem' \in State
           /\ mem'.world = mem.world /\ mem'.operator = mem.operator
           /\ mem'.signatures = mem.signatures \cup {s} /\ mem'.pending = NoStep
<1>1. PICK g \in SUBSET Recorded : g = mem.signatures \cup {s}
  BY DEF State
<1>2. mem' = [mem EXCEPT !.signatures = g, !.pending = NoStep]
  BY <1>1
<1>3. [mem EXCEPT !.signatures = g, !.pending = NoStep] \in State
  BY DEF State
<1> QED
  BY <1>1, <1>2, <1>3 DEF State

\* The chain moves in one place.
LEMMA ChainEffect ==
    ASSUME chain \in [World -> [Step -> Outcome]], NEW w \in World, NEW s \in Step,
           NEW o \in Outcome, chain' = [chain EXCEPT ![w][s] = o]
    PROVE  /\ chain' \in [World -> [Step -> Outcome]]
           /\ chain'[w][s] = o
           /\ \A v \in World, q \in Step : v # w \/ q # s => chain'[v][q] = chain[v][q]
OBVIOUS

\* Two prefixes are the same set only if they are equally long.
LEMMA PrefixesDiffer ==
    ASSUME NEW a \in Nat, NEW b \in Nat, a >= 1, b >= 1, 2 .. a = 2 .. b
    PROVE  a = b
<1>1. CASE a < b
  <2>1. b \in 2 .. b /\ b \notin 2 .. a
    BY <1>1
  <2> QED
    BY <2>1
<1>2. CASE b < a
  <2>1. a \in 2 .. a /\ a \notin 2 .. b
    BY <1>2
  <2> QED
    BY <2>1
<1> QED
  BY <1>1, <1>2

-----------------------------------------------------------------------------
(* Frames *)

\* While no command is past the key file, only the files and the chain matter.
LEMMA OutsideSound ==
    ASSUME ctl.pc \in {"idle", "writeKey", "airdrop"}
    PROVE  RunSound /\ RunFollowed
BY DEF RunSound, RunFollowed, Running

\* The same of the next state.
LEMMA OutsideSoundNext ==
    ASSUME ctl'.pc \in {"idle", "writeKey", "airdrop"}
    PROVE  RunSound' /\ RunFollowed'
BY DEF RunSound, RunFollowed, Running

\* A file that is not written stays true while the chain and the key rest.
LEMMA FileRests ==
    ASSUME FileSound, UNCHANGED <<file, disk, chain, key>>
    PROVE  FileSound'
BY DEF FileSound, PrefixAt

\* Custody rests with the chain.
LEMMA CustodyRests ==
    ASSUME CustodyAfterSetup, UNCHANGED <<chain, exchanged>>
    PROVE  CustodyAfterSetup'
BY DEF CustodyAfterSetup

\* A command that ends, without a word to the chain or the files.
LEMMA ExitStep ==
    ASSUME SetupSound, Exit, UNCHANGED <<key, generated, file, disk, chain, exchanged>>,
           funded' = funded \/ (funded' = funded \cup {ctl.key} /\ ctl.pc = "airdrop")
    PROVE  SetupSound'
<1>1. ctl' \in Ctl /\ ctl'.pc = "idle" /\ mem' \in State
  BY ExitEffect
<1>2. TypeOK'
  BY <1>1 DEF SetupSound, TypeOK, KeySound
<1>3. KeySound'
  BY <1>1 DEF SetupSound, KeySound
<1>4. RunSound' /\ RunFollowed'
  BY <1>1, OutsideSoundNext
<1>5. FileSound' /\ CustodyAfterSetup'
  BY FileRests, CustodyRests DEF SetupSound
<1> QED
  BY <1>2, <1>3, <1>4, <1>5 DEF SetupSound

-----------------------------------------------------------------------------
(* bootstrap *)

\* A readable key is kept.
LEMMA ReuseKeyStep == ASSUME SetupSound, ReuseKey PROVE SetupSound'
<1>1. ctl' \in Ctl /\ ctl'.pc = "airdrop" /\ ctl'.key = key /\ key \in Key
  BY BootstrapEffect DEF ReuseKey, PC
<1>2. TypeOK'
  BY <1>1 DEF SetupSound, TypeOK, ReuseKey
<1>3. KeySound'
  BY <1>1 DEF SetupSound, KeySound, ReuseKey
<1>4. RunSound' /\ RunFollowed'
  BY <1>1, OutsideSoundNext
<1>5. FileSound' /\ CustodyAfterSetup'
  BY FileRests, CustodyRests DEF SetupSound, ReuseKey
<1> QED
  BY <1>2, <1>3, <1>4, <1>5 DEF SetupSound

\* A new key is generated only when none can be read; nothing is funded then.
LEMMA GenerateKeyStep ==
    ASSUME SetupSound, NEW k \in Key, GenerateKey(k)
    PROVE  SetupSound'
<1>1. ctl' \in Ctl /\ ctl'.pc = "writeKey" /\ ctl'.key = k
  BY BootstrapEffect DEF GenerateKey, PC
<1>2. key \notin Key
  BY SetupAssumption DEF GenerateKey, KeyUnusable
<1>3. TypeOK'
  BY <1>1 DEF SetupSound, TypeOK, GenerateKey
<1>4. KeySound'
  BY <1>1, <1>2 DEF SetupSound, KeySound, GenerateKey
<1>5. RunSound' /\ RunFollowed'
  BY <1>1, OutsideSoundNext
<1>6. FileSound' /\ CustodyAfterSetup'
  BY FileRests, CustodyRests DEF SetupSound, GenerateKey
<1> QED
  BY <1>3, <1>4, <1>5, <1>6 DEF SetupSound

\* The key file is written; there is no state file yet that could be of another key.
LEMMA WriteKeyStep == ASSUME SetupSound, WriteKey PROVE SetupSound'
<1>1. ctl' \in Ctl /\ ctl'.pc = "airdrop" /\ ctl'.key = ctl.key
  BY GotoEffect DEF WriteKey, PC, SetupSound, TypeOK
<1>2. key \notin Key /\ ctl.key \in Key /\ key' = ctl.key /\ funded = {} /\ file # "ok"
  BY DEF WriteKey, SetupSound, KeySound, FileSound
<1>3. TypeOK'
  BY <1>1, <1>2 DEF SetupSound, TypeOK, WriteKey
<1>4. KeySound'
  BY <1>1, <1>2 DEF KeySound, WriteKey
<1>5. RunSound' /\ RunFollowed'
  BY <1>1, OutsideSoundNext
<1>6. FileSound'
  BY <1>2 DEF FileSound, WriteKey
<1>7. CustodyAfterSetup'
  BY CustodyRests DEF SetupSound, WriteKey
<1> QED
  BY <1>3, <1>4, <1>5, <1>6, <1>7 DEF SetupSound

-----------------------------------------------------------------------------
(* setup *)

\* A run begins with a World of its own, of which nothing was sent.
LEMMA SetupBeginStep ==
    ASSUME SetupSound, NEW w \in World, SetupBegin(w)
    PROVE  SetupSound'
<1>1. /\ ctl' \in Ctl /\ ctl'.pc = "save" /\ ctl'.ret = "fund" /\ ctl'.key = key
      /\ key \in Key
  BY SetupEffect DEF SetupBegin, PC
<1>2. /\ mem' \in State /\ mem'.world = w /\ mem'.operator = key
      /\ mem'.signatures = {} /\ mem'.pending = NoStep
  BY <1>1 DEF SetupBegin, NoState, State, Step, NoStep, Recorded
<1>3. TypeOK'
  BY <1>1, <1>2 DEF SetupSound, TypeOK, SetupBegin
<1>4. KeySound'
  BY <1>1 DEF SetupSound, KeySound, SetupBegin
<1>5. RunSound'
  <2>1. At' = "fund"
    BY <1>1 DEF At
  <2>2. Untouched(w, Mint)'
    BY DEF SetupBegin, Untouched
  <2>3. ChainMatches'
    BY <1>2, <2>1, <2>2 DEF ChainMatches
  <2> QED
    BY <1>1, <1>2, <2>3 DEF RunSound, SetupBegin
<1>6. RunFollowed'
  BY <1>1 DEF RunFollowed, SetupBegin, NoCanaryState
<1>7. FileSound' /\ CustodyAfterSetup'
  BY FileRests, CustodyRests DEF SetupSound, SetupBegin
<1> QED
  BY <1>3, <1>4, <1>5, <1>6, <1>7 DEF SetupSound

\* What is written is what the chain has shown.
LEMMA SaveStep == ASSUME SetupSound, Save PROVE SetupSound'
<1>1. /\ ctl.pc = "save" /\ Running /\ At = ctl.ret
      /\ ctl.ret \in {"fund", "send", "confirm", "assign", "idle"}
      /\ mem.world \in World /\ mem.operator = key /\ key \in Key
      /\ ctl \in Ctl /\ mem \in State
      /\ ChainMatches
  BY DEF Save, SetupSound, Running, At, RunSound, KeySound, TypeOK
<1>2. /\ ctl' \in Ctl /\ mem' \in State /\ ctl'.pc = ctl.ret
      /\ ctl.ret # "idle" => mem' = mem /\ ctl'.step = ctl.step /\ ctl'.key = ctl.key
  <2>1. CASE ctl.ret = "idle"
    BY <2>1, ExitEffect DEF Save
  <2>2. CASE ctl.ret # "idle"
    <3>1. ctl' = [ctl EXCEPT !.pc = ctl.ret] /\ mem' = mem /\ ctl.ret \in PC
      BY <1>1, <2>2 DEF Save, Ctl
    <3> QED
      BY <1>1, <3>1, GotoEffect
  <2> QED
    BY <2>1, <2>2
<1>3. TypeOK'
  BY <1>1, <1>2 DEF SetupSound, TypeOK, Save
<1>4. KeySound'
  BY <1>1, <1>2 DEF SetupSound, KeySound, Save
<1>5. ctl.ret # "idle" => At' = At
  BY <1>1, <1>2 DEF At
<1>6. RunSound'
  <2>1. CASE ctl.ret = "idle"
    BY <2>1, <1>2, OutsideSoundNext
  <2>2. CASE ctl.ret # "idle"
    <3>1. ChainMatches'
      BY <1>1, <1>2, <1>5, <2>2 DEF ChainMatches, Save, Done, Untouched
    <3> QED
      BY <1>1, <1>2, <2>2, <3>1 DEF RunSound, Save
  <2> QED
    BY <2>1, <2>2
<1>7. FileSound'
  <2>1. /\ file' = "ok" /\ disk' = mem /\ key' = key /\ chain' = chain
    BY DEF Save
  <2>2. \E k \in Step : PrefixAt(k)'
    <3> USE DEF Step, Recorded, Mint, CreateCollection, FundEscrowAsset, NoStep
    <3>1. CASE ctl.ret = "fund"
      <4>1. PrefixAt(1)'
        BY <1>1, <2>1, <3>1 DEF ChainMatches, Untouched, PrefixAt
      <4> QED
        BY <4>1
    <3>2. CASE ctl.ret = "send"
      <4>1. PICK k \in Step : k + 1 = ctl.step /\ k = ctl.step - 1
        BY <1>1, <3>2 DEF ChainMatches
      <4>2. /\ mem.signatures = 2 .. k /\ mem.pending = NoStep
            /\ Done(mem.world, k) /\ Untouched(mem.world, k + 1)
        BY <1>1, <3>2, <4>1 DEF ChainMatches
      <4>3. PrefixAt(k)'
        BY <2>1, <4>2 DEF Untouched, Done, PrefixAt
      <4> QED
        BY <4>3
    <3>3. CASE ctl.ret = "confirm"
      <4>1. PICK k \in Step : k + 1 = ctl.step /\ k = ctl.step - 1
        BY <1>1, <3>3 DEF ChainMatches
      <4>2. PrefixAt(k)'
        BY <1>1, <2>1, <3>3, <4>1 DEF ChainMatches, Untouched, Done, PrefixAt
      <4> QED
        BY <4>2
    <3>4. CASE ctl.ret = "assign"
      <4>1. PICK k \in Step : k = ctl.step
        BY <1>1, <3>4 DEF ChainMatches
      <4>2. PrefixAt(k)'
        BY <1>1, <2>1, <3>4, <4>1 DEF ChainMatches, Untouched, Done, PrefixAt
      <4> QED
        BY <4>2
    <3>5. CASE ctl.ret = "idle"
      <4>1. PrefixAt(6)'
        BY <1>1, <2>1, <3>5 DEF ChainMatches, Done, PrefixAt
      <4> QED
        BY <4>1
    <3> QED
      BY <1>1, <3>1, <3>2, <3>3, <3>4, <3>5
  <2> QED
    BY <1>1, <2>1, <2>2 DEF FileSound
<1>8. RunFollowed'
  <2>1. CASE ctl.ret = "idle"
    BY <2>1, <1>2, OutsideSoundNext
  <2>2. CASE ctl.ret # "idle"
    BY <1>1, <1>2, <1>5, <2>2 DEF RunFollowed, FileFollows, ChainMatches, Save
  <2> QED
    BY <2>1, <2>2
<1>9. CustodyAfterSetup'
  BY CustodyRests DEF SetupSound, Save
<1> QED
  BY <1>3, <1>4, <1>6, <1>7, <1>8, <1>9 DEF SetupSound

\* The operator's own key is funded.
LEMMA EnsureFundingStep == ASSUME SetupSound, EnsureFunding PROVE SetupSound'
<1>1. /\ ctl' \in Ctl /\ ctl'.pc = "mint" /\ ctl'.key = ctl.key
      /\ ctl.pc = "fund" /\ Running /\ At = "fund" /\ At' = "mint"
      /\ ctl.key = key /\ key \in Key
  BY GotoEffect DEF EnsureFunding, PC, SetupSound, TypeOK, Running, At, KeySound
<1>2. TypeOK'
  BY <1>1 DEF SetupSound, TypeOK, EnsureFunding
<1>3. KeySound'
  BY <1>1 DEF SetupSound, KeySound, EnsureFunding
<1>4. RunSound'
  BY <1>1 DEF SetupSound, RunSound, ChainMatches, Untouched, EnsureFunding
<1>5. RunFollowed'
  BY <1>1 DEF SetupSound, RunFollowed, FileFollows, EnsureFunding
<1>6. FileSound' /\ CustodyAfterSetup'
  BY FileRests, CustodyRests DEF SetupSound, EnsureFunding
<1> QED
  BY <1>2, <1>3, <1>4, <1>5, <1>6 DEF SetupSound

\* The mint is the only thing of its World on the chain.
LEMMA CreateMintStep == ASSUME SetupSound, CreateMint PROVE SetupSound'
<1> USE DEF Step, Mint, CreateCollection, FundEscrowAsset
<1>1. /\ ctl' \in Ctl /\ ctl'.pc = "minted" /\ ctl'.key = ctl.key
      /\ ctl.pc = "mint" /\ Running /\ At = "mint" /\ At' = "minted"
      /\ mem' = mem
  BY GotoEffect DEF CreateMint, PC, SetupSound, TypeOK, Running, At
<1>2. /\ mem.world \in World /\ mem.operator = key
      /\ Untouched(mem.world, Mint) /\ mem.signatures = {} /\ mem.pending = NoStep
  BY <1>1 DEF SetupSound, RunSound, ChainMatches
<1>3. /\ chain' \in [World -> [Step -> Outcome]]
      /\ chain'[mem.world][Mint] = "ok"
      /\ \A v \in World, q \in Step : v # mem.world \/ q # Mint => chain'[v][q] = chain[v][q]
  <2>1. chain \in [World -> [Step -> Outcome]] /\ Mint \in Step /\ "ok" \in Outcome
    BY DEF SetupSound, TypeOK, Outcome
  <2>2. chain' = [chain EXCEPT ![mem.world][Mint] = "ok"]
    BY DEF CreateMint
  <2> QED
    BY <1>2, <2>1, <2>2, ChainEffect
<1>4. TypeOK'
  BY <1>1, <1>3 DEF SetupSound, TypeOK, CreateMint
<1>5. KeySound'
  BY <1>1 DEF SetupSound, KeySound, CreateMint
<1>6. RunSound'
  <2>1. Done(mem.world, Mint)' /\ Untouched(mem.world, CreateCollection)'
    BY <1>1, <1>2, <1>3 DEF Done, Untouched
  <2> QED
    BY <1>1, <1>2, <2>1 DEF RunSound, ChainMatches, CreateMint
<1>7. RunFollowed'
  BY <1>1 DEF SetupSound, RunFollowed, FileFollows, CreateMint
<1>8. FileSound'
  <2> SUFFICES ASSUME file = "ok" PROVE FileSound'
    BY DEF FileSound, CreateMint
  <2>1. disk.world \in World /\ disk.operator = key /\ key \in Key
    BY DEF SetupSound, FileSound
  <2>2. PICK k \in Step : PrefixAt(k)
    BY DEF SetupSound, FileSound
  <2>3. PrefixAt(k)'
    BY <1>3, <2>1, <2>2 DEF PrefixAt, CreateMint
  <2> QED
    BY <2>1, <2>3 DEF FileSound, CreateMint
<1>9. CustodyAfterSetup'
  BY <1>2, <1>3 DEF SetupSound, TypeOK, CustodyAfterSetup, Untouched, CreateMint
<1> QED
  BY <1>4, <1>5, <1>6, <1>7, <1>8, <1>9 DEF SetupSound

\* The mint is noted, and the first recorded step is next.
LEMMA RecordMintStep == ASSUME SetupSound, RecordMint PROVE SetupSound'
<1>1. /\ ctl' \in Ctl /\ ctl'.pc = "save" /\ ctl'.ret = "send" /\ ctl'.key = ctl.key
      /\ ctl'.step = CreateCollection
      /\ ctl.pc = "minted" /\ Running /\ At = "minted" /\ At' = "send"
  BY NextStepEffect DEF RecordMint, PC, SetupSound, TypeOK, Running, At, Step, Mint,
     CreateCollection, FundEscrowAsset
<1>2. /\ mem' \in State /\ mem'.world = mem.world /\ mem'.operator = mem.operator
      /\ mem'.signatures = mem.signatures /\ mem'.pending = mem.pending
  BY KnownEffect DEF RecordMint, SetupSound, TypeOK, Field
<1>3. /\ mem.world \in World /\ mem.operator = key
      /\ Done(mem.world, Mint) /\ Untouched(mem.world, CreateCollection)
      /\ mem.signatures = {} /\ mem.pending = NoStep
  BY <1>1 DEF SetupSound, RunSound, ChainMatches
<1>4. TypeOK'
  BY <1>1, <1>2 DEF SetupSound, TypeOK, RecordMint
<1>5. KeySound'
  BY <1>1 DEF SetupSound, KeySound, RecordMint
<1>6. RunSound'
  <2>1. /\ CreateCollection \in Recorded /\ CreateCollection - 1 = Mint
        /\ 2 .. (CreateCollection - 1) = {}
    BY DEF Recorded, CreateCollection, FundEscrowAsset, Mint
  <2>2. Done(mem.world, Mint)' /\ Untouched(mem.world, CreateCollection)'
    BY <1>2, <1>3 DEF Done, Untouched, RecordMint
  <2>3. ChainMatches'
    BY <1>1, <1>2, <1>3, <2>1, <2>2 DEF ChainMatches, Done, Untouched
  <2> QED
    BY <1>1, <1>2, <1>3, <2>3 DEF RunSound, RecordMint
<1>7. RunFollowed'
  <2>1. 2 .. (CreateCollection - 1) = {}
    BY DEF CreateCollection
  <2> QED
    BY <1>1, <1>2, <2>1 DEF SetupSound, RunFollowed, FileFollows, RecordMint
<1>8. FileSound' /\ CustodyAfterSetup'
  BY FileRests, CustodyRests DEF SetupSound, RecordMint
<1> QED
  BY <1>4, <1>5, <1>6, <1>7, <1>8 DEF SetupSound

\* A step is sent when all before it succeeded, and the file is one step behind at most.
LEMMA SentChain ==
    ASSUME SetupSound, ctl.pc = "send",
           chain' = [chain EXCEPT ![mem.world][ctl.step] = "sent"],
           UNCHANGED <<key, file, disk, exchanged>>
    PROVE  /\ chain' \in [World -> [Step -> Outcome]]
           /\ FileSound' /\ CustodyAfterSetup'
           /\ mem.world \in World /\ mem.operator = key /\ ctl.step \in Recorded
           /\ mem.signatures = 2 .. (ctl.step - 1)
           /\ chain'[mem.world][ctl.step] # "none"
           /\ \A s \in Step : s <= ctl.step - 1 => chain'[mem.world][s] = "ok"
           /\ \A s \in Step : s >= ctl.step + 1 => chain'[mem.world][s] = "none"
<1> USE DEF Step, Recorded, Mint, CreateCollection, FundEscrowAsset
<1>1. /\ Running /\ At = "send"
      /\ mem.world \in World /\ mem.operator = key /\ ctl.step \in Recorded
      /\ Done(mem.world, ctl.step - 1) /\ Untouched(mem.world, ctl.step)
      /\ mem.signatures = 2 .. (ctl.step - 1)
  BY DEF SetupSound, RunSound, ChainMatches, Running, At
<1>2. /\ chain' \in [World -> [Step -> Outcome]]
      /\ chain'[mem.world][ctl.step] = "sent"
      /\ \A v \in World, q \in Step :
            v # mem.world \/ q # ctl.step => chain'[v][q] = chain[v][q]
  <2>1. chain \in [World -> [Step -> Outcome]] /\ ctl.step \in Step /\ "sent" \in Outcome
    BY <1>1 DEF SetupSound, TypeOK, Outcome
  <2> QED
    BY <1>1, <2>1, ChainEffect
<1>3. FileSound'
  <2> SUFFICES ASSUME file = "ok" PROVE FileSound'
    BY DEF FileSound
  <2>1. /\ disk.world = mem.world /\ disk.signatures = 2 .. (ctl.step - 1)
        /\ disk.operator = key /\ key \in Key
    BY <1>1 DEF SetupSound, RunFollowed, FileFollows, FileSound
  <2>2. PICK k \in Step : PrefixAt(k)
    BY DEF SetupSound, FileSound
  <2>3. k = ctl.step - 1
    <3>1. /\ 2 .. k = 2 .. (ctl.step - 1) /\ k \in Nat /\ k >= 1
          /\ ctl.step - 1 \in Nat /\ ctl.step - 1 >= 1
      BY <1>1, <2>1, <2>2 DEF PrefixAt
    <3> QED
      BY <3>1, PrefixesDiffer
  <2>4. PrefixAt(k)'
    <3>1. ctl.step = k + 1
      BY <1>1, <2>3
    <3> QED
      BY <1>1, <1>2, <2>1, <2>2, <3>1 DEF PrefixAt
  <2> QED
    BY <1>1, <2>1, <2>4 DEF FileSound
<1>4. CustodyAfterSetup'
  <2>1. ASSUME NEW w \in World, chain'[w][FundEscrowAsset] # "none",
               NEW s \in Step \ {FundEscrowAsset}
        PROVE  chain'[w][s] = "ok"
    <3>1. CASE w = mem.world
      <4>1. ctl.step = FundEscrowAsset
        BY <1>1, <1>2, <2>1, <3>1 DEF Untouched
      <4> QED
        BY <1>1, <1>2, <3>1, <4>1 DEF Done
    <3>2. CASE w # mem.world
      BY <1>2, <2>1, <3>2 DEF SetupSound, CustodyAfterSetup
    <3> QED
      BY <3>1, <3>2
  <2>2. ASSUME NEW w \in exchanged PROVE chain'[w][FundEscrowAsset] = "ok"
    BY <1>1, <1>2, <2>2 DEF SetupSound, TypeOK, CustodyAfterSetup, Untouched
  <2> QED
    BY <2>1, <2>2 DEF CustodyAfterSetup
<1> QED
  BY <1>1, <1>2, <1>3, <1>4 DEF Done, Untouched

\* A step is broadcast, and its signature about to be written.
LEMMA SendStepStep == ASSUME SetupSound, SendStep PROVE SetupSound'
<1>1. /\ chain' \in [World -> [Step -> Outcome]]
      /\ FileSound' /\ CustodyAfterSetup'
      /\ mem.world \in World /\ mem.operator = key /\ ctl.step \in Recorded
      /\ mem.signatures = 2 .. (ctl.step - 1)
      /\ chain'[mem.world][ctl.step] # "none"
      /\ \A s \in Step : s <= ctl.step - 1 => chain'[mem.world][s] = "ok"
      /\ \A s \in Step : s >= ctl.step + 1 => chain'[mem.world][s] = "none"
  BY SentChain DEF SendStep
<1>2. /\ ctl' \in Ctl /\ ctl'.pc = "save" /\ ctl'.ret = "confirm" /\ ctl'.key = ctl.key
      /\ ctl'.step = ctl.step
      /\ ctl.pc = "send" /\ Running /\ At = "send" /\ At' = "confirm"
  BY SaveThenEffect DEF SendStep, PC, SetupSound, TypeOK, Running, At
<1>3. /\ mem' \in State /\ mem'.world = mem.world /\ mem'.operator = mem.operator
      /\ mem'.signatures = mem.signatures /\ mem'.pending = ctl.step
  <2>1. AssignedBefore(ctl.step) \in SUBSET Field /\ ctl.step \in Step /\ mem \in State
    BY <1>1 DEF AssignedBefore, Recorded, Step, Mint, CreateCollection, SetupSound, TypeOK
  <2>2. mem' = [mem EXCEPT !.known = @ \cup AssignedBefore(ctl.step), !.pending = ctl.step]
    BY DEF SendStep
  <2> QED
    BY <2>1, <2>2, PendingEffect
<1>4. TypeOK'
  BY <1>1, <1>2, <1>3 DEF SetupSound, TypeOK, SendStep
<1>5. KeySound'
  BY <1>2 DEF SetupSound, KeySound, SendStep
<1>6. RunSound'
  <2>1. ChainMatches'
    BY <1>1, <1>2, <1>3 DEF ChainMatches, Done, Untouched
  <2> QED
    BY <1>1, <1>2, <1>3, <2>1 DEF RunSound, SendStep
<1>7. RunFollowed'
  BY <1>2, <1>3 DEF SetupSound, RunFollowed, FileFollows, SendStep
<1> QED
  BY <1>1, <1>4, <1>5, <1>6, <1>7 DEF SetupSound

\* A step is broadcast and the answer lost: the command ends.
LEMMA SendStepUnansweredStep == ASSUME SetupSound, SendStepUnanswered PROVE SetupSound'
<1>1. chain' \in [World -> [Step -> Outcome]] /\ FileSound' /\ CustodyAfterSetup'
  BY SentChain DEF SendStepUnanswered
<1>2. ctl' \in Ctl /\ ctl'.pc = "idle" /\ mem' \in State
  BY ExitEffect DEF SendStepUnanswered
<1>3. TypeOK'
  BY <1>1, <1>2 DEF SetupSound, TypeOK, SendStepUnanswered
<1>4. KeySound'
  BY <1>2 DEF SetupSound, KeySound, SendStepUnanswered
<1>5. RunSound' /\ RunFollowed'
  BY <1>2, OutsideSoundNext
<1> QED
  BY <1>1, <1>3, <1>4, <1>5 DEF SetupSound

\* A confirmed step is recorded; one that failed ends the command.
LEMMA ConfirmStepStep == ASSUME SetupSound, ConfirmStep PROVE SetupSound'
<1>1. /\ ctl.pc = "confirm" /\ Running /\ At = "confirm"
      /\ mem.world \in World /\ mem.operator = key /\ ctl.step \in Recorded
      /\ Done(mem.world, ctl.step - 1) /\ Untouched(mem.world, ctl.step + 1)
      /\ mem.signatures = 2 .. (ctl.step - 1) /\ mem.pending = ctl.step
  BY DEF ConfirmStep, SetupSound, RunSound, ChainMatches, Running, At
<1>2. CASE Exit
  BY <1>2, ExitStep DEF ConfirmStep
<1>3. CASE /\ StepConfirmed(mem.world, ctl.step)
           /\ mem' = [mem EXCEPT !.signatures = @ \cup {ctl.step}, !.pending = NoStep]
           /\ SaveThen("assign")
  <2>1. /\ ctl' \in Ctl /\ ctl'.pc = "save" /\ ctl'.ret = "assign" /\ ctl'.key = ctl.key
        /\ ctl'.step = ctl.step /\ At' = "assign"
    BY <1>3, SaveThenEffect DEF PC, SetupSound, TypeOK, At
  <2>2. /\ mem' \in State /\ mem'.world = mem.world /\ mem'.operator = mem.operator
        /\ mem'.signatures = mem.signatures \cup {ctl.step} /\ mem'.pending = NoStep
    BY <1>1, <1>3, ConfirmedEffect DEF SetupSound, TypeOK
  <2>3. TypeOK'
    BY <2>1, <2>2 DEF SetupSound, TypeOK, ConfirmStep
  <2>4. KeySound'
    BY <1>1, <2>1 DEF SetupSound, KeySound, ConfirmStep
  <2>5. RunSound'
    <3> USE DEF Step, Recorded, Mint, CreateCollection, FundEscrowAsset
    <3>1. chain' = chain /\ key' = key
      BY DEF ConfirmStep
    <3>2. \A s \in Step : s <= ctl.step => chain[mem.world][s] = "ok"
      BY <1>1, <1>3 DEF Done, StepConfirmed
    <3>3. (2 .. (ctl.step - 1)) \cup {ctl.step} = 2 .. ctl.step
      BY <1>1
    <3>4. ChainMatches'
      BY <1>1, <2>1, <2>2, <3>1, <3>2, <3>3 DEF ChainMatches, Done, Untouched
    <3> QED
      BY <1>1, <2>1, <2>2, <3>1, <3>4 DEF RunSound
  <2>6. RunFollowed'
    BY <1>1, <2>1, <2>2 DEF SetupSound, RunFollowed, FileFollows, ConfirmStep
  <2>7. FileSound' /\ CustodyAfterSetup'
    BY FileRests, CustodyRests DEF SetupSound, ConfirmStep
  <2> QED
    BY <2>3, <2>4, <2>5, <2>6, <2>7 DEF SetupSound
<1> QED
  BY <1>2, <1>3 DEF ConfirmStep

\* The next step is of the same World and the next in order.
LEMMA AssignStep == ASSUME SetupSound, Assign PROVE SetupSound'
<1> USE DEF Step, Recorded, Mint, CreateCollection, FundEscrowAsset
<1>1. /\ ctl.pc = "assign" /\ Running /\ At = "assign"
      /\ mem.world \in World /\ mem.operator = key /\ ctl.step \in Recorded
      /\ Done(mem.world, ctl.step) /\ Untouched(mem.world, ctl.step + 1)
      /\ mem.signatures = 2 .. ctl.step /\ mem.pending = NoStep
      /\ file = "ok" /\ disk.world = mem.world /\ disk.signatures = 2 .. ctl.step
      /\ ctl \in Ctl
  BY DEF Assign, SetupSound, RunSound, ChainMatches, Running, At, RunFollowed, FileFollows,
     TypeOK
<1>2. /\ mem' \in State /\ mem'.world = mem.world /\ mem'.operator = mem.operator
      /\ mem'.signatures = mem.signatures /\ mem'.pending = mem.pending
  <2>1. AssignedAfter(ctl.step) \in SUBSET Field /\ mem \in State
    BY DEF AssignedAfter, SetupSound, TypeOK
  <2>2. mem' = [mem EXCEPT !.known = @ \cup AssignedAfter(ctl.step)]
    BY DEF Assign
  <2> QED
    BY <2>1, <2>2, KnownEffect
<1>3. chain' = chain /\ UNCHANGED <<key, generated, funded, file, disk, exchanged>>
  BY DEF Assign
<1>4. CASE LastStep(ctl.step)
  <2>1. /\ ctl' \in Ctl /\ ctl'.pc = "reconcile" /\ ctl'.key = ctl.key /\ At' = "reconcile"
    BY <1>1, <1>4, GotoEffect DEF Assign, PC, At
  <2>2. ctl.step = FundEscrowAsset
    BY <1>4 DEF LastStep
  <2>3. RunSound'
    <3>1. ChainMatches'
      BY <1>1, <1>2, <1>3, <2>1, <2>2 DEF ChainMatches, Done
    <3> QED
      BY <1>1, <1>2, <1>3, <2>1, <3>1 DEF RunSound
  <2>4. RunFollowed'
    BY <1>1, <1>2, <1>3, <2>1 DEF RunFollowed, FileFollows
  <2> QED
    BY <1>1, <1>2, <1>3, <2>1, <2>3, <2>4, FileRests, CustodyRests
    DEF SetupSound, TypeOK, KeySound
<1>5. CASE ~ LastStep(ctl.step)
  <2>1. PICK n \in Recorded : n = ctl.step + 1 /\ n - 1 = ctl.step
    BY <1>1, <1>5 DEF LastStep
  <2>2. /\ ctl' \in Ctl /\ ctl'.ret = "send" /\ ctl'.step = n /\ ctl'.key = ctl.key
        /\ ctl'.pc \in {"send", "save"} /\ At' = "send"
    <3>1. PICK pc \in {"send", "save"} :
             pc = IF AssignedAfter(ctl.step) = {} THEN "send" ELSE "save"
      OBVIOUS
    <3>2. ctl' = [ctl EXCEPT !.pc = pc, !.ret = "send", !.step = n]
      BY <1>5, <2>1, <3>1 DEF Assign
    <3>3. pc \in PC /\ "send" \in PC /\ n \in Step
      BY DEF PC
    <3>4. /\ ctl' \in Ctl /\ ctl'.pc = pc /\ ctl'.ret = "send"
          /\ ctl'.step = n /\ ctl'.key = ctl.key
      BY <1>1, <3>2, <3>3, NextStepEffect
    <3> QED
      BY <3>4 DEF At
  <2>3. RunSound'
    <3>1. ChainMatches'
      BY <1>1, <1>2, <1>3, <2>1, <2>2 DEF ChainMatches, Done, Untouched
    <3> QED
      BY <1>1, <1>2, <1>3, <2>2, <3>1 DEF RunSound
  <2>4. RunFollowed'
    BY <1>1, <1>2, <1>3, <2>1, <2>2 DEF RunFollowed, FileFollows
  <2> QED
    BY <1>1, <1>2, <1>3, <2>2, <2>3, <2>4, FileRests, CustodyRests
    DEF SetupSound, TypeOK, KeySound
<1> QED
  BY <1>4, <1>5

\* A safe reconciliation is saved; any other ends the command.
LEMMA ReconcileSetupStep == ASSUME SetupSound, ReconcileSetup PROVE SetupSound'
<1>1. CASE Exit
  BY <1>1, ExitStep DEF ReconcileSetup
<1>2. CASE SaveThen("idle") /\ UNCHANGED mem
  <2>1. /\ ctl' \in Ctl /\ ctl'.pc = "save" /\ ctl'.ret = "idle" /\ ctl'.key = ctl.key
        /\ ctl.pc = "reconcile" /\ Running /\ At = "reconcile" /\ At' = "idle"
    BY <1>2, SaveThenEffect DEF ReconcileSetup, PC, SetupSound, TypeOK, Running, At
  <2>2. TypeOK' /\ KeySound'
    BY <1>2, <2>1 DEF SetupSound, TypeOK, KeySound, ReconcileSetup
  <2>3. RunSound'
    BY <1>2, <2>1 DEF SetupSound, RunSound, ChainMatches, Done, ReconcileSetup
  <2>4. RunFollowed'
    BY <1>2, <2>1 DEF SetupSound, RunFollowed, FileFollows, ReconcileSetup
  <2> QED
    BY <2>2, <2>3, <2>4, FileRests, CustodyRests DEF SetupSound, ReconcileSetup
<1> QED
  BY <1>1, <1>2 DEF ReconcileSetup

-----------------------------------------------------------------------------
(* Exchanges, kills and the chain *)

\* An exchange is sent only of a World whose NFT has arrived.
LEMMA StartExchangeStep == ASSUME SetupSound, StartExchange PROVE SetupSound'
<1>1. disk.world \in World /\ chain[disk.world][FundEscrowAsset] = "ok"
  BY DEF SetupSound, FileSound, StartExchange, ReadyToExchange, SafeInEscrow
<1>2. TypeOK' /\ KeySound'
  BY <1>1 DEF SetupSound, TypeOK, KeySound, StartExchange
<1>3. RunSound' /\ RunFollowed'
  BY OutsideSoundNext DEF StartExchange
<1>4. FileSound'
  BY FileRests DEF SetupSound, StartExchange
<1>5. CustodyAfterSetup'
  BY <1>1 DEF SetupSound, CustodyAfterSetup, StartExchange
<1> QED
  BY <1>2, <1>3, <1>4, <1>5 DEF SetupSound

\* A kill inside a write leaves no state that is believed and no key that is used.
LEMMA StopWhileWritingStep == ASSUME SetupSound, StopWhileWriting PROVE SetupSound'
<1>1. ctl' \in Ctl /\ ctl'.pc = "idle" /\ mem' \in State
  BY ExitEffect DEF StopWhileWriting
<1>2. TypeOK'
  BY <1>1 DEF SetupSound, TypeOK, StopWhileWriting
<1>3. KeySound'
  BY <1>1, SetupAssumption DEF SetupSound, KeySound, StopWhileWriting
<1>4. RunSound' /\ RunFollowed'
  BY <1>1, OutsideSoundNext
<1>5. FileSound'
  <2>1. CASE file' = "torn"
    BY <2>1 DEF FileSound
  <2>2. CASE ctl.pc = "writeKey" /\ file' = file
    BY <2>2 DEF SetupSound, KeySound, FileSound
  <2> QED
    BY <2>1, <2>2 DEF StopWhileWriting
<1>6. CustodyAfterSetup'
  BY CustodyRests DEF SetupSound, StopWhileWriting
<1> QED
  BY <1>2, <1>3, <1>4, <1>5, <1>6 DEF SetupSound

\* What was never sent stays so, and what succeeded has succeeded.
LEMMA SettleStep ==
    ASSUME SetupSound, NEW w \in World, NEW s \in Step, Settle(w, s)
    PROVE  SetupSound'
<1>1. PICK o \in {"ok", "failed", "expired"} : chain' = [chain EXCEPT ![w][s] = o]
  BY DEF Settle
<1>2. /\ chain' \in [World -> [Step -> Outcome]]
      /\ chain[w][s] = "sent" /\ chain'[w][s] # "none"
      /\ \A v \in World, q \in Step : v # w \/ q # s => chain'[v][q] = chain[v][q]
  <2>1. chain \in [World -> [Step -> Outcome]] /\ o \in Outcome
    BY DEF SetupSound, TypeOK, Outcome
  <2>2. /\ chain' \in [World -> [Step -> Outcome]]
        /\ chain'[w][s] = o
        /\ \A v \in World, q \in Step : v # w \/ q # s => chain'[v][q] = chain[v][q]
    BY <1>1, <2>1, ChainEffect
  <2> QED
    BY <2>2 DEF Settle
<1>3. /\ \A v \in World, q \in Step : chain[v][q] = "ok" => chain'[v][q] = "ok"
      /\ \A v \in World, q \in Step : chain[v][q] = "none" <=> chain'[v][q] = "none"
  BY <1>2
<1>4. UNCHANGED <<key, generated, funded, file, disk, ctl, mem, exchanged>>
  BY DEF Settle
<1>5. TypeOK' /\ KeySound' /\ RunFollowed'
  BY <1>2, <1>4 DEF SetupSound, TypeOK, KeySound, RunFollowed, FileFollows, Running, At
<1>6. RunSound'
  <2> SUFFICES ASSUME Running PROVE RunSound'
    BY <1>4 DEF RunSound, Running
  <2>1. /\ mem.world \in World /\ mem.operator = key /\ ChainMatches
        /\ ctl.pc = "save" => ctl.ret \in {"fund", "send", "confirm", "assign", "idle"}
    BY DEF SetupSound, RunSound
  <2>2. ASSUME NEW n \in Int
        PROVE  /\ Done(mem.world, n) => \A q \in Step : q <= n => chain'[mem.world][q] = "ok"
               /\ Untouched(mem.world, n) =>
                     \A q \in Step : q >= n => chain'[mem.world][q] = "none"
    BY <1>3, <2>1 DEF Done, Untouched
  <2>3. ChainMatches'
    <3>1. At' = At
      BY <1>4 DEF At
    <3>2. Recorded \subseteq Step /\ Step \subseteq Int
      BY DEF Recorded, Step, Mint, CreateCollection, FundEscrowAsset
    <3> QED
      BY <1>3, <1>4, <2>1, <3>1, <3>2 DEF ChainMatches, Done, Untouched
  <2> QED
    BY <1>4, <2>1, <2>3 DEF RunSound
<1>7. FileSound'
  <2> SUFFICES ASSUME file = "ok" PROVE FileSound'
    BY <1>4 DEF FileSound
  <2>1. /\ disk.world \in World /\ disk.operator = key /\ key \in Key
    BY DEF SetupSound, FileSound
  <2>2. PICK k \in Step : PrefixAt(k)
    BY DEF SetupSound, FileSound
  <2>3. 2 .. k \subseteq Step
    BY DEF Step, Mint, FundEscrowAsset
  <2>4. PrefixAt(k)'
    BY <1>3, <1>4, <2>1, <2>2, <2>3 DEF PrefixAt
  <2> QED
    BY <1>4, <2>1, <2>4 DEF FileSound
<1>8. CustodyAfterSetup'
  <2>1. FundEscrowAsset \in Step
    BY DEF FundEscrowAsset, Step, Mint
  <2>2. exchanged \subseteq World
    BY DEF SetupSound, TypeOK
  <2> QED
    BY <1>3, <1>4, <2>1, <2>2 DEF SetupSound, CustodyAfterSetup
<1> QED
  BY <1>5, <1>6, <1>7, <1>8 DEF SetupSound

-----------------------------------------------------------------------------
(* The theorems *)

\* Before the first command there is nothing to be wrong.
LEMMA SetupStart == Init => SetupSound
<1> SUFFICES ASSUME Init PROVE SetupSound
  OBVIOUS
<1>1. NoState \in State
  BY DEF NoState, State, Step, Recorded, NoStep
<1>2. TypeOK
  BY <1>1, IdleTyped DEF Init, TypeOK, Outcome
<1>3. ctl.pc = "idle"
  BY DEF Init, Idle
<1>4. KeySound
  BY <1>3, SetupAssumption DEF Init, KeySound
<1>5. RunSound /\ RunFollowed
  BY <1>3, OutsideSound
<1>6. FileSound
  BY DEF Init, FileSound
<1>7. CustodyAfterSetup
  BY DEF Init, CustodyAfterSetup, FundEscrowAsset, Step, Mint
<1> QED
  BY <1>2, <1>4, <1>5, <1>6, <1>7 DEF SetupSound

\* No step of a command, a kill or the chain breaks the invariant.
LEMMA SetupStep == SetupSound /\ [Next]_vars => SetupSound'
<1> SUFFICES ASSUME SetupSound, [Next]_vars PROVE SetupSound'
  OBVIOUS
<1>1. CASE UNCHANGED vars
  <2>1. TypeOK' /\ KeySound' /\ CustodyAfterSetup'
    BY <1>1 DEF vars, SetupSound, TypeOK, KeySound, CustodyAfterSetup
  <2>2. RunSound' /\ RunFollowed'
    BY <1>1 DEF vars, SetupSound, RunSound, RunFollowed, Running, At, ChainMatches, Done,
       Untouched, FileFollows
  <2>3. FileSound'
    BY <1>1, FileRests DEF vars, SetupSound
  <2> QED
    BY <2>1, <2>2, <2>3 DEF SetupSound
<1>2. CASE Airdrop
  BY <1>2, ExitStep DEF Airdrop
<1>3. CASE Stop
  BY <1>3, ExitStep DEF Stop
<1> QED
  BY <1>1, <1>2, <1>3, ReuseKeyStep, GenerateKeyStep, WriteKeyStep, SetupBeginStep, SaveStep,
     EnsureFundingStep, CreateMintStep, RecordMintStep, SendStepStep, SendStepUnansweredStep,
     ConfirmStepStep, AssignStep, ReconcileSetupStep, StartExchangeStep, StopWhileWritingStep,
     SettleStep
  DEF Next

\* The invariant of setup, for any number of Worlds and keys.
LEMMA SetupAlwaysSound == Spec => []SetupSound
<1>1. Init => SetupSound
  BY SetupStart
<1>2. SetupSound /\ [Next]_vars => SetupSound'
  BY SetupStep
<1> QED
  BY <1>1, <1>2, PTL DEF Spec

\* bootstrap and setup, killed anywhere: every variable keeps its type.
THEOREM SetupTypeCorrect == Spec => []TypeOK
BY SetupAlwaysSound, PTL DEF SetupSound

\* bootstrap and setup, killed anywhere and begun again with other addresses any number
\* of times: the NFT leaves the operator only in a World that is otherwise whole, and only
\* such Worlds are ever exchanged (setupCanary, assertSetupComplete, reconcile).
THEOREM CustodyOnlyAfterSetup == Spec => []CustodyAfterSetup
BY SetupAlwaysSound, PTL DEF SetupSound

\* The invariant says what the file records.
LEMMA SoundRecordsPrefix == SetupSound => RecordedPrefix
<1> SUFFICES ASSUME SetupSound PROVE RecordedPrefix
  OBVIOUS
<1>1. funded \subseteq {key}
  BY DEF SetupSound, KeySound
<1>2. ASSUME file = "ok"
      PROVE  LET n == Cardinality(disk.signatures)
             IN  /\ disk.operator = key
                 /\ disk.signatures = CreateCollection .. (n + 1)
                 /\ \A s \in disk.signatures : chain[disk.world][s] = "ok"
                 /\ disk.pending \in {NoStep, n + 2}
                 /\ \A s \in Step : s > n + 2 => chain[disk.world][s] = "none"
  <2>1. disk.operator = key
    BY <1>2 DEF SetupSound, FileSound
  <2>2. PICK k \in Step : PrefixAt(k)
    BY <1>2 DEF SetupSound, FileSound
  <2>3. Cardinality(2 .. k) = k - 1
    <3>1. k \in Int /\ k >= 1
      BY DEF Step, Mint, FundEscrowAsset
    <3>2. Cardinality(2 .. k) = IF 2 > k THEN 0 ELSE k - 2 + 1
      BY <3>1, FS_Interval
    <3> QED
      BY <3>1, <3>2
  <2>4. k \in Nat
    BY DEF Step, Mint, FundEscrowAsset
  <2> QED
    BY <2>1, <2>2, <2>3, <2>4 DEF PrefixAt, CreateCollection
<1> QED
  BY <1>1, <1>2 DEF RecordedPrefix

\* The state file, whenever it can be read, is of the key in the key file and lists the
\* first steps of its World in order, all of them successes, with the chain at most one
\* step ahead (sendRecorded, saveState, loadOrCreateOperator).
THEOREM RecordsTruePrefix == Spec => []RecordedPrefix
BY SetupAlwaysSound, SoundRecordsPrefix, PTL
=============================================================================
