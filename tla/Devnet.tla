------------------------------- MODULE Devnet -------------------------------
(***************************************************************************)
(* The part of Solana devnet and of the MPL-Hybrid program that the canary *)
(* observes: the finalized history of the one NFT and of its backing       *)
(* token, and the life of every transaction that was signed for it.        *)
(*                                                                         *)
(* This module stands for code outside the repository.  It is written from *)
(* how the operator harness and the wallet lab use the chain:              *)
(*   - the chain executes a transaction atomically or not at all;          *)
(*   - a transaction that was handed to an RPC node may finalize late,     *)
(*     finalize with an error, or expire with its blockhash;               *)
(*   - one finalized read sees one slot, but the node that answers may lag *)
(*     behind the newest finalized slot.                                   *)
(***************************************************************************)
EXTENDS Naturals, Sequences

CONSTANTS
    Sig,       \* transaction signatures: a bound on how many are ever signed
    Tester,    \* the tester wallets
    Operator,  \* the operator wallet
    Escrow,    \* the EscrowV2 PDA
    Backing,   \* backing tokens of one active NFT (backingPerNftAtomic)
    Supply,    \* total supply of the backing mint
    Lag,       \* how many slots a finalized read may be behind
    MaxSlot    \* a bound on the history the testers' own moves can create

ASSUME HolderAssumption ==
    /\ Operator # Escrow
    /\ Operator \notin Tester
    /\ Escrow \notin Tester

ASSUME NumberAssumption ==
    /\ Backing \in Nat \ {0}
    /\ Supply \in Nat
    /\ Supply >= Backing
    /\ Lag \in Nat
    /\ MaxSlot \in Nat

VARIABLES
    hist,      \* hist[s] is the finalized ledger at slot s
    tx         \* tx[t] is the transaction with signature t

chainVars == <<hist, tx>>

Holder == {Operator, Escrow} \cup Tester

Kind == {"AWAKEN", "RELEASE", "ALLOCATE_TESTER"}

\* Who owns the NFT, and who holds how many backing tokens.
Ledger == [owner : Holder, tokens : [Holder -> Nat]]

\* "signed" was never handed to a node; "sent" was, and is not final yet;
\* "expired" can no longer land because its blockhash is too old.
Status == {"unused", "signed", "sent", "ok", "failed", "expired"}

\* "to" is the tester an ALLOCATE_TESTER transaction pays.
Tx == [kind : Kind, by : Holder, to : Holder, status : Status, slot : Nat]

Unused == [kind |-> "AWAKEN", by |-> Operator, to |-> Operator,
           status |-> "unused", slot |-> 0]

-----------------------------------------------------------------------------
Finalized == hist[Len(hist)]

\* The slots a finalized read may be answered from.
Readable == {s \in 1 .. Len(hist) : s + Lag >= Len(hist)}

Move(tokens, from, to) ==
    [tokens EXCEPT ![from] = @ - Backing, ![to] = @ + Backing]

\* captureV2 needs the NFT in escrow and the backing in the wallet, releaseV2
\* the NFT in the wallet and the backing in escrow; TransferChecked only the
\* tokens.
Executable(l, t) ==
    \/ t.kind = "AWAKEN"  /\ l.owner = Escrow /\ l.tokens[t.by] >= Backing
    \/ t.kind = "RELEASE" /\ l.owner = t.by /\ l.tokens[Escrow] >= Backing
    \/ t.kind = "ALLOCATE_TESTER" /\ l.tokens[t.by] >= Backing

Execute(l, t) ==
    IF t.kind = "AWAKEN"
    THEN [owner |-> t.by, tokens |-> Move(l.tokens, t.by, Escrow)]
    ELSE IF t.kind = "RELEASE"
    THEN [owner |-> Escrow, tokens |-> Move(l.tokens, Escrow, t.by)]
    ELSE [owner |-> l.owner, tokens |-> Move(l.tokens, t.by, t.to)]

\* The RPC node simulates a transaction before it forwards it.
PreflightPasses(t) == \E s \in Readable : Executable(hist[s], t)

-----------------------------------------------------------------------------
\* The operator has "own" of the backing tokens, and u the rest.
Shared(own, u) ==
    [h \in Holder |-> IF h = Operator THEN own
                      ELSE IF h = u THEN Supply - own ELSE 0]

\* The setup left the NFT in escrow.  A mint it created exists in the backing of
\* one NFT, which the operator holds; of an imported mint the operator holds at
\* least that, and an outsider, whom the testers stand for, may hold the rest.
ChainInit ==
    /\ \E own \in Backing .. Supply, u \in Tester \cup {Operator} :
          /\ u = Operator => own = Supply
          /\ hist = <<[owner |-> Escrow, tokens |-> Shared(own, u)]>>
    /\ tx = [t \in Sig |-> Unused]

Finalize(t) ==
    /\ tx[t].status = "sent"
    /\ Executable(Finalized, tx[t])
    /\ hist' = Append(hist, Execute(Finalized, tx[t]))
    /\ tx' = [tx EXCEPT ![t].status = "ok", ![t].slot = Len(hist) + 1]

FinalizeWithError(t) ==
    /\ tx[t].status = "sent"
    /\ ~ Executable(Finalized, tx[t])
    /\ tx' = [tx EXCEPT ![t].status = "failed", ![t].slot = Len(hist)]
    /\ UNCHANGED hist

Expire(t) ==
    /\ tx[t].status = "sent"
    /\ tx' = [tx EXCEPT ![t].status = "expired"]
    /\ UNCHANGED hist

Settle(t) == Finalize(t) \/ FinalizeWithError(t) \/ Expire(t)

-----------------------------------------------------------------------------
\* The one asset of the canary, as a custody: what escrow holds, and who has
\* the asset.
Custody == INSTANCE Reserve WITH
    BackingPerNft <- Backing, CaptureEnabled <- TRUE, ReleaseEnabled <- TRUE,
    MaxReserve <- Supply, MaxInventory <- 1,
    reserve <- Finalized.tokens[Escrow],
    inventory <- IF Finalized.owner = Escrow THEN 1 ELSE 0,
    active <- IF Finalized.owner = Escrow THEN 0 ELSE 1

=============================================================================
