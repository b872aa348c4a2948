------------------------------ MODULE CanaryState ------------------------------
(***************************************************************************)
(* The server's view of the canary: GET state and POST prepare             *)
(* (devnet-canary-live.server.ts, devnet-canary-prepare.server.ts and the  *)
(* two routes).  One request reads accounts, program and balance from the  *)
(* chain at the same time and not of the same slot, while others move the  *)
(* asset and the coins, spend, reconfigure the recipe or upgrade the       *)
(* program.                                                                *)
(*                                                                         *)
(* A slot e of the chain holds the asset's owner, the reserve, the         *)
(* tester's coins and SOL (in millions of lamports), the recipe's terms,   *)
(* the program, and e.odd, what else is wrong with the accounts.           *)
(***************************************************************************)
EXTENDS ProgramEvidence, HybridSpec, PreparedTransaction

CONSTANTS
    ObservedSlot, DeployedSlot,     \* of the published program observation
    CanaryStarts,       \* chains to start with, one entry for each slot
    CanarySetups,       \* published manifests and environments
    MaxCanarySlot       \* bound

VARIABLES
    devnet,    \* the finalized chain
    setup,     \* [published, tester, env, devnet, gate]
    query      \* the request under way

canaryVars == <<devnet, setup, query>>

\* Who may own the asset; Tester is the wallet the configuration names, unless it names
\* the operator.
Tester == "tester"
Owners == {"escrow", "operator", Tester, "stranger", "unknown"}

CanarySlots ==
    [owner : Owners, reserve : Nat, coins : Nat, sol : Nat,
     odd : SUBSET {"missing", "foreign", "undecodable", "binding", "supply", "inventory"},
     terms : [backing : Nat, captureFee : Nat, path : Nat],
     program : [owner : STRING, executable : BOOLEAN, size : STRING, tag : Nat,
                programData : STRING],
     data : [owner : STRING, executable : BOOLEAN, size : STRING, tag : Nat, option : Nat,
             authority : STRING, elf : BOOLEAN,
             hash : {"reviewed", "unreviewed", "upgraded"}, slot : Nat]]

Setups ==
    [published : STRING, tester : STRING, env : STRING, devnet : BOOLEAN,
     gate : {"open", "closed"}]

\* The published observation is of the past: what was deployed at its slot is the code
\* that was reviewed.
ASSUME CanaryAssumption ==
    /\ CanaryBacking \in Nat \ {0} /\ DeployedSlot \in Nat
    /\ MaxCanarySlot \in Nat
    /\ CanaryStarts \subseteq Seq(CanarySlots)
    /\ \A start \in CanaryStarts :
          /\ Len(start) \in 1 .. MaxCanarySlot /\ Len(start) >= DeployedSlot
          /\ \A i \in 1 .. Len(start) :
                start[i].data.slot = DeployedSlot => start[i].data.hash = "reviewed"
    /\ CanarySetups \subseteq Setups
    /\ \A s \in CanarySetups :
          /\ s.tester \in {None, Tester, "operator"}
          /\ s.tester = None => s.env \in {None, "malformed", Tester, "operator"}

NoQuery == [kind |-> "state", action |-> "AWAKEN", wallet |-> None, stage |-> "answered",
            accounts |-> 0, program |-> 0, balance |-> 0, answer |-> "none"]

TesterSol == 6      \* DEVNET_CANARY_MINIMUM_TESTER_SOL_LAMPORTS
AwakenSol == 12     \* DEVNET_CANARY_MINIMUM_AWAKEN_SOL_LAMPORTS
ExchangeCost == 6   \* the protocol fee of 0.005 SOL, the network fee and rent

-----------------------------------------------------------------------------
(* Configuration *)

\* parseCanaryConfig; published is the section that is wrong with the file, if any.
ConfigParses == setup.published = "good"

\* resolveTesterWallet
TesterResolves ==
    /\ setup.env # "malformed"
    /\ setup.tester # None /\ setup.env # None => setup.tester = setup.env

TesterWallet == IF setup.env # None THEN setup.env ELSE setup.tester

Authorized(q) == q.wallet # None /\ q.wallet = TesterWallet

\* devnetCanaryWritesEnabled: the window, the tester, the RPC and the commit.
WritesEnabled == setup.gate = "open" /\ setup.env \notin {None, "malformed"}

-----------------------------------------------------------------------------
(* What is concluded from the accounts of one slot *)

\* The reads that throw: an account is missing, foreign or cannot be decoded.
Readable(e) ==
    e.odd \cap {"missing", "foreign", "undecodable"} = {} /\ KnownPath(e.terms.path)

\* Mutant: any program of the same upgrade authority will do.
AuthorityOnly(e) ==
    ProgramReadable(e.program) /\ HeaderReadable(e.data) /\ Authority(e.data) = "upgrader"

\* readProgramHeaderVerification: 45 bytes of ProgramData, no hash.
HeaderVerified(e) ==
    /\ ProgramReadable(e.program) /\ HeaderReadable(e.data)
    /\ e.program.programData = "programData"
    /\ e.data.slot = DeployedSlot
    /\ Authority(e.data) = "upgrader"

\* verifyProgramFromSameContext
FreshVerified(e) ==
    /\ Deployed(e.program, e.data,
                [program |-> "program", programData |-> "programData",
                 executable |-> "reviewed", policy |-> "EXACT",
                 upgradeAuthority |-> "upgrader"])
    /\ e.data.slot = DeployedSlot

Location(e) ==
    IF e.owner \in {"escrow", "operator"} THEN e.owner
    ELSE IF TesterWallet # None /\ e.owner = TesterWallet THEN "tester" ELSE "unrecognized"

ActiveCount(e) == IF Location(e) = "escrow" THEN 0 ELSE 1

ExactReserve(e) == e.reserve = CanaryBacking * ActiveCount(e)

BindingsVerified(e) ==
    LET path == Decode(e.terms.path)
    IN  /\ e.odd \cap {"binding", "supply"} = {}
        /\ e.terms.backing = CanaryBacking
        /\ e.terms.captureFee = 0
        /\ path.capture /\ path.release
        /\ ~ path.reroll /\ ~ path.burnOnCapture /\ ~ path.burnOnRelease

Safe(e, programVerified) ==
    /\ programVerified
    /\ BindingsVerified(e) /\ ExactReserve(e)
    /\ "inventory" \notin e.odd
    /\ Location(e) # "unrecognized"

\* Mutant: every action needs the same balance.
OneBuffer(action) == TesterSol

\* The two SOL balances an action needs.
Buffer(action) == IF action = "AWAKEN" THEN AwakenSol ELSE TesterSol

ActionEnabled(action, e, sol) ==
    /\ sol >= Buffer(action)
    /\ IF action = "AWAKEN"
       THEN Location(e) = "escrow" /\ e.coins >= CanaryBacking
       ELSE Location(e) = "tester"

-----------------------------------------------------------------------------
(* Requests *)

Still == UNCHANGED <<devnet, setup>>

\* Of an answer that promises something the slots it rests on are remembered.
Reply(outcome) ==
    query' = IF outcome \in {"safe", "prepared"}
             THEN [query EXCEPT !.stage = "answered", !.answer = outcome]
             ELSE [NoQuery EXCEPT !.answer = outcome]

\* GET state, up to the first await of readDevnetCanaryLiveState.
AskState(wallet) ==
    /\ query.stage = "answered"
    /\ IF wallet = "malformed" THEN Reply("422")
       ELSE IF ~ ConfigParses THEN Reply("503")
       ELSE query' = [NoQuery EXCEPT !.wallet = wallet, !.stage = "genesis"]
    /\ Still

\* POST prepare: the gate of the route and that of prepareDevnetCanaryTransaction.
AskPrepare(action, wallet) ==
    /\ query.stage = "answered"
    /\ IF ~ WritesEnabled THEN Reply("503")
       ELSE IF wallet = "malformed" THEN Reply("422")
       ELSE IF ~ ConfigParses THEN Reply("409")
       ELSE query' = [NoQuery EXCEPT !.kind = "prepare", !.action = action,
                                     !.wallet = wallet, !.stage = "genesis"]
    /\ Still

\* The outcome of an exception, of a read that fails and of the deadline of 25 seconds.
Failure == IF query.kind = "state" THEN "503" ELSE "409"

CheckGenesis ==
    /\ query.stage = "genesis"
    /\ IF setup.devnet /\ TesterResolves
       THEN query' = [query EXCEPT !.stage = "reading",
                !.program = IF query.kind = "prepare" THEN MaxCanarySlot + 1 ELSE 0,
                !.balance = IF Authorized(query) THEN 0 ELSE MaxCanarySlot + 1]
       ELSE Reply(Failure)
    /\ Still

\* The three reads of one Promise.all; MaxCanarySlot + 1 marks one that is not made.
ReadAccounts(slot) ==
    /\ query.stage = "reading" /\ query.accounts = 0
    /\ slot >= ObservedSlot
    /\ query' = [query EXCEPT !.accounts = slot]
    /\ Still

ReadHeader(slot) ==
    /\ query.stage = "reading" /\ query.program = 0
    /\ slot >= ObservedSlot
    /\ query' = [query EXCEPT !.program = slot]
    /\ Still

ReadBalance(slot) ==
    /\ query.stage = "reading" /\ query.balance = 0
    /\ query' = [query EXCEPT !.balance = slot]
    /\ Still

ProgramVerified(q) ==
    IF q.kind = "prepare" THEN FreshVerified(devnet[q.accounts])
                          ELSE HeaderVerified(devnet[q.program])

Sol(q) == IF q.balance > MaxCanarySlot THEN 0 ELSE devnet[q.balance].sol

LiveSafe(q) == Safe(devnet[q.accounts], ProgramVerified(q))

Enabled(q, action) ==
    /\ LiveSafe(q) /\ Authorized(q)
    /\ ActionEnabled(action, devnet[q.accounts], Sol(q))

Reconcile ==
    /\ query.stage = "reading"
    /\ 0 \notin {query.accounts, query.program, query.balance}
    /\ IF ~ Readable(devnet[query.accounts]) THEN Reply(Failure)
       ELSE IF query.kind = "state"
       THEN Reply(IF LiveSafe(query) THEN "safe" ELSE "unsafe")
       ELSE IF Enabled(query, query.action)
       THEN query' = [query EXCEPT !.stage = "built"]
       ELSE Reply(Failure)
    /\ Still

-----------------------------------------------------------------------------
(* The chain, and what the program makes of an exchange *)

\* The wallet whose coins and SOL a slot tells: the tester of this configuration.
Exchanger == IF TesterWallet = "operator" THEN "operator" ELSE Tester

Executable(action, e) ==
    /\ e.sol >= ExchangeCost
    /\ IF action = "AWAKEN"
       THEN /\ e.owner = "escrow" /\ Decode(e.terms.path).capture
            /\ e.coins >= e.terms.backing + e.terms.captureFee
       ELSE /\ e.owner = Exchanger /\ Decode(e.terms.path).release
            /\ e.reserve >= e.terms.backing

Exchanged(action, e) ==
    IF action = "AWAKEN"
    THEN [e EXCEPT !.owner = Exchanger, !.reserve = @ + e.terms.backing,
                   !.coins = @ - e.terms.backing - e.terms.captureFee,
                   !.sol = @ - ExchangeCost]
    ELSE [e EXCEPT !.owner = "escrow", !.reserve = @ - e.terms.backing,
                   !.coins = @ + e.terms.backing, !.sol = @ - ExchangeCost]

\* simulateUnsignedTransaction, at whatever slot the node is.
Simulate(slot) ==
    /\ query.stage = "built"
    /\ Reply(IF Executable(query.action, devnet[slot]) THEN "prepared" ELSE Failure)
    /\ Still

\* An RPC error, and the deadline over the whole request.
QueryFails ==
    /\ query.stage \in {"genesis", "reading", "built"}
    /\ Reply(Failure)
    /\ Still

Grow(e) ==
    /\ Len(devnet) < MaxCanarySlot
    /\ devnet' = Append(devnet, e)
    /\ UNCHANGED <<setup, query>>

Tip == devnet[Len(devnet)]

Exchange(action) == Executable(action, Tip) /\ Grow(Exchanged(action, Tip))

DonateCoin == Tip.coins > 0 /\ Grow([Tip EXCEPT !.coins = @ - 1, !.reserve = @ + 1])

Spend == Tip.sol > 5 /\ Grow([Tip EXCEPT !.sol = 5])

Reconfigure == Tip.terms.captureFee = 0 /\ Grow([Tip EXCEPT !.terms.captureFee = 1])

Upgrade ==
    Grow([Tip EXCEPT !.data.hash = "upgraded", !.data.slot = Len(devnet) + 1])

CloseGate ==
    /\ setup.gate = "open"
    /\ setup' = [setup EXCEPT !.gate = "closed"]
    /\ UNCHANGED <<devnet, query>>

-----------------------------------------------------------------------------
CanaryInit ==
    /\ devnet \in CanaryStarts
    /\ setup \in CanarySetups
    /\ query = NoQuery

Serve ==
    \/ CheckGenesis \/ Reconcile \/ QueryFails
    \/ \E slot \in 1 .. Len(devnet) :
          ReadAccounts(slot) \/ ReadHeader(slot) \/ ReadBalance(slot) \/ Simulate(slot)

World ==
    \/ \E action \in {"AWAKEN", "RELEASE"} : Exchange(action)
    \/ DonateCoin \/ Spend \/ Reconfigure \/ Upgrade \/ CloseGate

CanaryNext ==
    \/ \E wallet \in {None, Tester, "operator", "stranger", "malformed"} : AskState(wallet)
    \/ \E action \in {"AWAKEN", "RELEASE"}, wallet \in {Tester, "operator", "stranger", "malformed"} :
          AskPrepare(action, wallet)
    \/ Serve
    \/ World

CanarySpec == CanaryInit /\ [][CanaryNext]_canaryVars

-----------------------------------------------------------------------------
(* Properties *)

CanaryTypeOK ==
    /\ Len(devnet) \in 1 .. MaxCanarySlot
    /\ query.stage \in {"genesis", "reading", "built", "answered"}
    /\ query.answer \in {"none", "safe", "unsafe", "prepared", "422", "409", "503"}
    /\ {query.accounts, query.program, query.balance} \subseteq 0 .. MaxCanarySlot + 1

\* A World that is reported safe was whole at the slot the answer names: every coin
\* in the reserve belongs to an asset that is out of escrow, an exchange costs the
\* backing and nothing else, and the program that was seen, at its own slot and by
\* its header alone, is the reviewed one.
SafeMeansSound ==
    query.answer \in {"safe", "prepared"} =>
        LET e == devnet[query.accounts]
            seen == devnet[IF query.kind = "prepare" THEN query.accounts ELSE query.program]
        IN  /\ e.reserve = (IF e.owner = "escrow" THEN 0 ELSE CanaryBacking)
            /\ e.terms.backing = CanaryBacking /\ e.terms.captureFee = 0
            /\ seen.data.hash = "reviewed"

\* A transaction that was prepared does, on the chain it was checked against, what
\* the answer quotes and the browser insists on: the asset changes sides and the
\* reserve is exactly the backing or exactly nothing.  It passes the account table the
\* browser keeps of its own, unless the operator was named as the tester: he has the
\* fee account as well.
PreparedIsHonest ==
    query.answer = "prepared" =>
        LET e == Exchanged(query.action, devnet[query.accounts])
        IN  /\ [owner |-> e.owner, reserve |-> e.reserve] = PostState(query.action, query.wallet)
            /\ BrowserAccepts(PreparedAnswer(query.action, query.wallet), query.action,
                              query.wallet)
                  <=> query.wallet # "operator"

\* No tester is led into an awaken he cannot undo: with the balance that was read,
\* the chain after an awaken the browser accepts is again safe and its release
\* enabled.  The server alone would let the operator into one.
AwakenCanBeReleased ==
    /\ query.answer = "prepared" /\ query.action = "AWAKEN"
    /\ BrowserAccepts(PreparedAnswer("AWAKEN", query.wallet), "AWAKEN", query.wallet)
    => LET after == Exchanged("AWAKEN", devnet[query.accounts])
       IN  /\ Safe(after, TRUE)
           /\ ActionEnabled("RELEASE", after, Sol(query) - ExchangeCost)
=============================================================================
