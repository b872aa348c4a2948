-------------------------- MODULE PreparedTransaction --------------------------
(***************************************************************************)
(* One exchange of the canary as a transaction: what the server builds     *)
(* (devnet-canary-prepare.server.ts, with the generated instructions       *)
(* captureV2 and releaseV2), the message that comes of it, and the         *)
(* browser's own table of the only message it hands to a wallet            *)
(* (devnet-canary-browser.ts).                                             *)
(*                                                                         *)
(* The two tables are written apart.  A message knows each account once,   *)
(* so that an account in two places has the rights of both.  The figures   *)
(* of the quote are the same constants on both sides and left out.         *)
(***************************************************************************)
EXTENDS Integers, Sequences

CONSTANT CanaryBacking      \* backingPerNftAtomic

\* An account: the address of a name, or the token account it has for the canary's mint.
Address(name) == [name |-> name, tokens |-> FALSE]
TokensOf(name) == [name |-> name, tokens |-> TRUE]

\* The operator takes the project's fees: the pins have one address for both.
FeeLocation == "operator"

Metas(accounts, signers, writable) ==
    [i \in DOMAIN accounts |-> [account  |-> accounts[i],
                                signer   |-> i \in signers,
                                writable |-> i \in writable]]

-----------------------------------------------------------------------------
(* The server *)

\* captureV2 and releaseV2 with the accounts they are given; the ninth is the mint.
Instruction(action, wallet) ==
    Metas(<< Address(wallet), Address("recipe"), Address("recipe"), Address("escrow"),
             Address("asset"), Address("collection"), TokensOf(wallet), TokensOf("escrow"),
             Address("mint"), TokensOf(FeeLocation), Address("protocolFeeWallet"),
             Address(FeeLocation), Address("recentBlockhashes"), Address("coreProgram"),
             Address("systemProgram"), Address("tokenProgram"),
             Address("associatedTokenProgram") >>,
          {1}, IF action = "AWAKEN" THEN 1 .. 12 ELSE (1 .. 12) \ {9})

\* A legacy message, as it is read again: an account has one set of rights.
Compiled(metas) ==
    [i \in DOMAIN metas |->
        LET same == {j \in DOMAIN metas : metas[j].account = metas[i].account}
        IN  [account  |-> metas[i].account,
             signer   |-> \E j \in same : metas[j].signer,
             writable |-> \E j \in same : metas[j].writable]]

\* expectedPostState of the answer, and canonicalPostState of the browser
PostState(action, wallet) ==
    IF action = "AWAKEN" THEN [owner |-> wallet, reserve |-> CanaryBacking]
                         ELSE [owner |-> "escrow", reserve |-> 0]

\* prepareDevnetCanaryTransaction, from the instruction on
PreparedAnswer(action, wallet) ==
    [action |-> action, wallet |-> wallet, post |-> PostState(action, wallet),
     payer |-> wallet, data |-> action,
     accounts |-> Compiled(Instruction(action, wallet))]

-----------------------------------------------------------------------------
(* The browser *)

BrowserTable(wallet) ==
    << Address(wallet), Address("recipe"), Address("recipe"), Address("escrow"),
       Address("asset"), Address("collection"), TokensOf(wallet), TokensOf("escrow"),
       Address("mint"), TokensOf(FeeLocation), Address("protocolFeeWallet"),
       Address(FeeLocation), Address("recentBlockhashes"), Address("coreProgram"),
       Address("systemProgram"), Address("tokenProgram"),
       Address("associatedTokenProgram") >>

\* Mutant: neither instruction is expected to write to the mint.
MintNeverWritten(action, wallet) ==
    Metas(BrowserTable(wallet), {1}, (1 .. 12) \ {9})

ExpectedAccounts(action, wallet) ==
    Metas(BrowserTable(wallet), {1}, (1 .. 12) \ (IF action = "AWAKEN" THEN {} ELSE {9}))

\* parseAndVerifyPreparedCanaryTransaction, with verifyLegacyTransactionShape
BrowserAccepts(answer, action, wallet) ==
    /\ answer.action = action /\ answer.wallet = wallet
    /\ answer.post = PostState(action, wallet)
    /\ answer.payer = wallet
    /\ answer.data = action
    /\ {a \in {answer.accounts[i] : i \in DOMAIN answer.accounts} : a.signer}
          = {answer.accounts[1]}
    /\ answer.accounts = ExpectedAccounts(action, wallet)
=============================================================================
