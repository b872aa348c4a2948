----------------------------- MODULE CanarySetup -----------------------------
(***************************************************************************)
(* The commands bootstrap and setup of the operator harness                *)
(* (scripts/electric-relic-devnet-canary.ts): the operator key file, the   *)
(* state file, and the recorded steps that build a World on chain, with    *)
(* the process stopping at any point.  Setup cannot be resumed: a second   *)
(* run either finds a state file and refuses, or starts a World of its own *)
(* with newly generated addresses.                                         *)
(***************************************************************************)
EXTENDS Naturals, FiniteSets

CONSTANTS
    World,      \* deployments: each run of setup generates new addresses
    NoWorld,
    Key,        \* generated operator keypairs
    NoKey,      \* there is no key file
    TornKey     \* the key file was left half-written

ASSUME SetupAssumption ==
    /\ NoWorld \notin World
    /\ NoKey \notin Key
    /\ TornKey \notin Key
    /\ NoKey # TornKey

VARIABLES
    key,        \* content of the key file
    generated,  \* keypairs that were ever generated
    funded,     \* keypairs that hold devnet SOL
    file,       \* is there a state file, and can it be parsed?
    disk,       \* the state it holds
    ctl,        \* control state of the one terminal
    mem,        \* its copy of the state
    chain,      \* chain[w][s]: what became of step s of World w
    exchanged   \* history: Worlds for which a swap was sent

vars == <<key, generated, funded, file, disk, ctl, mem, chain, exchanged>>

-----------------------------------------------------------------------------
\* Step 1 is the mint and is not recorded; sendRecorded sends the others.
Mint == 1
CreateCollection == 2
CreateAsset == 3
InitEscrow == 4
InitRecipe == 5
FundEscrowAsset == 6

Step == Mint .. FundEscrowAsset
Recorded == CreateCollection .. FundEscrowAsset
NoStep == 0

\* The nullable addresses of CanaryState.
Field == {"token", "feeLocation", "collection", "asset", "escrow", "recipe"}

State == [world : World \cup {NoWorld}, operator : Key \cup {NoKey},
          known : SUBSET Field, pending : Step \cup {NoStep},
          signatures : SUBSET Recorded]

NoState == [world |-> NoWorld, operator |-> NoKey, known |-> {},
            pending |-> NoStep, signatures |-> {}]

PC == {"idle", "writeKey", "airdrop", "fund", "mint", "minted", "send",
       "confirm", "assign", "reconcile", "save"}

Ctl == [pc : PC, ret : PC, step : Step, key : Key \cup {NoKey}]
Idle == [pc |-> "idle", ret |-> "idle", step |-> Mint, key |-> NoKey]

Outcome == {"none", "sent", "ok", "failed", "expired"}

\* assertSetupComplete
Complete(state) == state.known = Field

\* reconcile finds the asset and the escrow's token account, and the NFT is
\* in escrow with no reserve.
SafeInEscrow(w) == chain[w][FundEscrowAsset] = "ok"

\* On chain a step needs the accounts that the earlier steps created.
Prerequisites(s) ==
    CASE s = CreateAsset     -> {CreateCollection}
      [] s = InitRecipe      -> {Mint, CreateCollection}
      [] s = FundEscrowAsset -> {CreateCollection, CreateAsset}
      [] OTHER               -> {}

-----------------------------------------------------------------------------
Exit ==
    /\ ctl' = Idle
    /\ mem' = NoState

\* Mutant: the state is changed in memory and not saved.
GoOnUnsaved(pc) == ctl' = [ctl EXCEPT !.pc = pc, !.ret = pc]

SaveThen(pc) == ctl' = [ctl EXCEPT !.pc = "save", !.ret = pc]

\* bootstrap: loadOrCreateOperator keeps a key file it can read, and replaces
\* a missing or malformed one.
ReuseKey ==
    /\ ctl.pc = "idle"
    /\ key \in Key
    /\ ctl' = [Idle EXCEPT !.pc = "airdrop", !.key = key]
    /\ UNCHANGED <<key, generated, funded, file, disk, mem, chain, exchanged>>

KeyUnusable == key \in {NoKey, TornKey}

GenerateKey(k) ==
    /\ ctl.pc = "idle"
    /\ KeyUnusable
    /\ k \notin generated
    /\ generated' = generated \cup {k}
    /\ ctl' = [Idle EXCEPT !.pc = "writeKey", !.key = k]
    /\ UNCHANGED <<key, funded, file, disk, mem, chain, exchanged>>

WriteKey ==
    /\ ctl.pc = "writeKey"
    /\ key' = ctl.key
    /\ ctl' = [ctl EXCEPT !.pc = "airdrop"]
    /\ UNCHANGED <<generated, funded, file, disk, mem, chain, exchanged>>

Airdrop ==
    /\ ctl.pc = "airdrop"
    /\ funded' = funded \cup {ctl.key}
    /\ Exit
    /\ UNCHANGED <<key, generated, file, disk, chain, exchanged>>

-----------------------------------------------------------------------------
\* createInitialState goes on when loadState reports "No canary state", which
\* it does for a missing file and for one that cannot be parsed alike.
NoCanaryState == file # "ok"

SetupBegin(w) ==
    /\ ctl.pc = "idle"
    /\ key \in Key
    /\ NoCanaryState
    /\ chain[w] = [s \in Step |-> "none"]
    /\ w # disk.world
    /\ mem' = [NoState EXCEPT !.world = w, !.operator = key]
    /\ ctl' = [Idle EXCEPT !.pc = "save", !.ret = "fund", !.key = key]
    /\ UNCHANGED <<key, generated, funded, file, disk, chain, exchanged>>

Save ==
    /\ ctl.pc = "save"
    /\ file' = "ok"
    /\ disk' = mem
    /\ IF ctl.ret = "idle"
       THEN Exit
       ELSE ctl' = [ctl EXCEPT !.pc = ctl.ret] /\ UNCHANGED mem
    /\ UNCHANGED <<key, generated, funded, chain, exchanged>>

EnsureFunding ==
    /\ ctl.pc = "fund"
    /\ funded' = funded \cup {ctl.key}
    /\ ctl' = [ctl EXCEPT !.pc = "mint"]
    /\ UNCHANGED <<key, generated, file, disk, mem, chain, exchanged>>

\* createMint, the token account, mintTo and setAuthority, each awaited at
\* finalized commitment, or the import of a mint; nothing is recorded before.
CreateMint ==
    /\ ctl.pc = "mint"
    /\ chain' = [chain EXCEPT ![mem.world][Mint] = "ok"]
    /\ ctl' = [ctl EXCEPT !.pc = "minted"]
    /\ UNCHANGED <<key, generated, funded, file, disk, mem, exchanged>>

RecordMint ==
    /\ ctl.pc = "minted"
    /\ mem' = [mem EXCEPT !.known = @ \cup {"token"}]
    /\ ctl' = [ctl EXCEPT !.pc = "save", !.ret = "send", !.step = CreateCollection]
    /\ UNCHANGED <<key, generated, funded, file, disk, chain, exchanged>>

\* Addresses that are assigned in memory before the step that creates them:
\* the fee location, and the two PDAs.  The next saveState writes them.
AssignedBefore(s) ==
    {f \in Field : <<s, f>> \in {<<CreateCollection, "feeLocation">>,
                                <<InitEscrow, "escrow">>, <<InitRecipe, "recipe">>}}

\* Addresses of generated accounts are assigned, and saved, after the step.
AssignedAfter(s) ==
    {f \in Field : <<s, f>> \in {<<CreateCollection, "collection">>, <<CreateAsset, "asset">>}}

\* sendRecorded: broadcast, then save the pending signature.
SendStep ==
    /\ ctl.pc = "send"
    /\ chain' = [chain EXCEPT ![mem.world][ctl.step] = "sent"]
    /\ mem' = [mem EXCEPT !.known = @ \cup AssignedBefore(ctl.step),
                          !.pending = ctl.step]
    /\ SaveThen("confirm")
    /\ UNCHANGED <<key, generated, funded, file, disk, exchanged>>

\* The node accepts the bytes and its answer is lost.
SendStepUnanswered ==
    /\ ctl.pc = "send"
    /\ chain' = [chain EXCEPT ![mem.world][ctl.step] = "sent"]
    /\ Exit
    /\ UNCHANGED <<key, generated, funded, file, disk, exchanged>>

StepConfirmed(w, s) == chain[w][s] = "ok"

ConfirmStep ==
    /\ ctl.pc = "confirm"
    /\ \/ /\ StepConfirmed(mem.world, ctl.step)
          /\ mem' = [mem EXCEPT !.signatures = @ \cup {ctl.step}, !.pending = NoStep]
          /\ SaveThen("assign")
       \/ /\ chain[mem.world][ctl.step] \in {"failed", "expired"}
          /\ Exit
    /\ UNCHANGED <<key, generated, funded, file, disk, chain, exchanged>>

\* Mutant: setup goes on after its last step.
PastLastStep(s) == s > FundEscrowAsset

LastStep(s) == s = FundEscrowAsset

\* What setupCanary does between two recorded steps.
Assign ==
    /\ ctl.pc = "assign"
    /\ mem' = [mem EXCEPT !.known = @ \cup AssignedAfter(ctl.step)]
    /\ IF LastStep(ctl.step)
       THEN ctl' = [ctl EXCEPT !.pc = "reconcile"]
       ELSE ctl' = [ctl EXCEPT !.step = @ + 1, !.ret = "send",
                               !.pc = IF AssignedAfter(ctl.step) = {}
                                      THEN "send" ELSE "save"]
    /\ UNCHANGED <<key, generated, funded, file, disk, chain, exchanged>>

\* The final reconciliation must be safe; then the snapshot is saved.
ReconcileSetup ==
    /\ ctl.pc = "reconcile"
    /\ IF SafeInEscrow(mem.world)
       THEN SaveThen("idle") /\ UNCHANGED mem
       ELSE Exit
    /\ UNCHANGED <<key, generated, funded, file, disk, chain, exchanged>>

-----------------------------------------------------------------------------
\* Mutant: a write command trusts assertSetupComplete alone.
CompleteOnly == Complete(disk)

\* awaken, release and allocate send only from a safe reconciliation.
ReadyToExchange ==
    /\ Complete(disk)
    /\ SafeInEscrow(disk.world)

\* A write command on this file: CanaryCli has what follows.
StartExchange ==
    /\ ctl.pc = "idle"
    /\ file = "ok"
    /\ disk.operator = key
    /\ disk.pending = NoStep
    /\ ReadyToExchange
    /\ exchanged' = exchanged \cup {disk.world}
    /\ UNCHANGED <<key, generated, funded, file, disk, ctl, mem, chain>>

-----------------------------------------------------------------------------
Stop ==
    /\ ctl.pc # "idle"
    /\ Exit
    /\ UNCHANGED <<key, generated, funded, file, disk, chain, exchanged>>

StopWhileWriting ==
    /\ \/ /\ ctl.pc = "save"
          /\ file' = "torn"
          /\ UNCHANGED key
       \/ /\ ctl.pc = "writeKey"
          /\ key' = TornKey
          /\ UNCHANGED file
    /\ Exit
    /\ UNCHANGED <<generated, funded, disk, chain, exchanged>>

Settle(w, s) ==
    /\ chain[w][s] = "sent"
    /\ \E o \in {"ok", "failed", "expired"} :
          /\ o = "ok" => \A q \in Prerequisites(s) : chain[w][q] = "ok"
          /\ chain' = [chain EXCEPT ![w][s] = o]
    /\ UNCHANGED <<key, generated, funded, file, disk, ctl, mem, exchanged>>

-----------------------------------------------------------------------------
Init ==
    /\ key = NoKey
    /\ generated = {}
    /\ funded = {}
    /\ file = "absent"
    /\ disk = NoState
    /\ ctl = Idle
    /\ mem = NoState
    /\ chain = [w \in World |-> [s \in Step |-> "none"]]
    /\ exchanged = {}

Next ==
    \/ ReuseKey \/ WriteKey \/ Airdrop
    \/ \E k \in Key : GenerateKey(k)
    \/ \E w \in World : SetupBegin(w)
    \/ Save \/ EnsureFunding \/ CreateMint \/ RecordMint
    \/ SendStep \/ SendStepUnanswered \/ ConfirmStep \/ Assign
    \/ ReconcileSetup
    \/ StartExchange
    \/ Stop \/ StopWhileWriting
    \/ \E w \in World, s \in Step : Settle(w, s)

Spec == Init /\ [][Next]_vars

-----------------------------------------------------------------------------
(* Properties                                                              *)

\* Every variable has its type.
TypeOK ==
    /\ key \in Key \cup {NoKey, TornKey}
    /\ generated \subseteq Key
    /\ funded \subseteq Key
    /\ file \in {"absent", "torn", "ok"}
    /\ disk \in State
    /\ ctl \in Ctl
    /\ mem \in State
    /\ chain \in [World -> [Step -> Outcome]]
    /\ exchanged \subseteq World

\* The NFT is handed to the escrow only when the mint, the collection, the escrow and
\* the recipe that can release it again all exist, and a swap is sent only when it has
\* arrived, although the state of a setup that stopped after INIT_RECIPE already passes
\* assertSetupComplete: the safe reconciliation is what stops it.
CustodyAfterSetup ==
    /\ \A w \in World : chain[w][FundEscrowAsset] # "none"
          => \A s \in Step \ {FundEscrowAsset} : chain[w][s] = "ok"
    /\ \A w \in exchanged : chain[w][FundEscrowAsset] = "ok"

\* The recorded signatures are the first steps of setup in order, all of them
\* succeeded, and the chain is never more than one step ahead of the file.  The World
\* in the file is that of the key in the key file, and so is the SOL that was obtained:
\* a readable key is never replaced, and no key is funded before it is written.
RecordedPrefix ==
    /\ funded \subseteq {key}
    /\ file = "ok" =>
          LET n == Cardinality(disk.signatures)
          IN  /\ disk.operator = key
              /\ disk.signatures = CreateCollection .. (n + 1)
              /\ \A s \in disk.signatures : chain[disk.world][s] = "ok"
              /\ disk.pending \in {NoStep, n + 2}
              /\ \A s \in Step : s > n + 2 => chain[disk.world][s] = "none"

\* docs/DEVNET_CANARY.md, 4: setup fails if the state path already exists, so
\* that the first World's evidence is preserved.  (Fails: a file torn by a
\* process killed in saveState counts as no file.)
SetupKeepsEvidence ==
    [][disk.world # NoWorld => disk'.world = disk.world]_vars

=============================================================================
