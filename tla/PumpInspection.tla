---------------------------- MODULE PumpInspection ----------------------------
(***************************************************************************)
(* The read-only check of a Pump coin: the page (pump-mint-checker.tsx),   *)
(* the route and inspectPumpMint (pump-readonly.server.ts).  The mint is   *)
(* read first, then its bonding curve and the curve's token account        *)
(* together, each time from a node that may lag behind.                    *)
(*                                                                         *)
(* A slot of the chain holds the three accounts, each a set of zero or one *)
(* record.                                                                 *)
(***************************************************************************)
EXTENDS Integers, Sequences, FiniteSets

CONSTANTS
    PumpLayouts,    \* lengths and contents of the curves the Pump program writes
    MaxCoinSlot     \* bound

ASSUME CoinAssumption == MaxCoinSlot \in Nat \ {0}

VARIABLES
    coin,         \* the chain, slot by slot
    checker,      \* the page: idle, checking, complete or failed, and the verdict shown
    inspection,   \* the request: stage, the slots it read and the verdict
    genuine       \* history: Pump created the coin

coinVars == <<coin, checker, inspection, genuine>>

NoInspection == [stage |-> "none", mintSlot |-> 0, curveSlot |-> 0, verdict |-> "none"]
NoVerdict == "none"

TokenPrograms == {"CLASSIC_SPL", "TOKEN_2022"}

\* decodePumpBondingCurve: the lengths of the five versions, the discriminator and
\* the flags; a length between two versions is truncated.
DecodableLayouts == {"core", "creator", "mayhem", "cashback", "quote"}

-----------------------------------------------------------------------------
(* The accounts *)

Mint(owner) == {[owner |-> owner, executable |-> FALSE, full |-> TRUE, initialized |-> TRUE]}

Curve(owner, layout) == {[owner |-> owner, executable |-> FALSE, layout |-> layout]}

CurveTokens(owner) ==
    {[owner |-> owner, executable |-> FALSE, full |-> TRUE, bound |-> TRUE, state |-> 1]}

\* classifyPumpMintAccount
CoinMintReadable(account) ==
    \E a \in account :
        ~ a.executable /\ a.owner \in TokenPrograms /\ a.full /\ a.initialized

\* inspectBondingCurveAccount
CurveReadable(account) ==
    \E a \in account :
        ~ a.executable /\ a.owner = "pump" /\ a.layout \in DecodableLayouts

\* inspectAssociatedCurveAccount; 1 is initialized and 2 frozen.
CurveTokensReadable(account, owner) ==
    \E a \in account :
        /\ ~ a.executable /\ a.owner = owner /\ a.full
        /\ a.bound /\ a.state \in {1, 2}

OwnerOf(account) == (CHOOSE a \in account : TRUE).owner

\* Mutant: whatever is at the curve's address proves the coin.
AnyCurveProves(mint, curve, tokens) ==
    IF curve = {} THEN "NOT_A_PUMP_COIN"
    ELSE IF ~ CurveTokensReadable(tokens, OwnerOf(mint)) THEN "UNVERIFIED"
    ELSE IF OwnerOf(mint) = "CLASSIC_SPL" THEN "PUMP_CLASSIC_SPL_COMPATIBLE"
    ELSE "PUMP_TOKEN_2022_INCOMPATIBLE"

\* inspectPumpMint, from the second read on
CoinVerdict(mint, curve, tokens) ==
    IF curve = {} THEN "NOT_A_PUMP_COIN"
    ELSE IF ~ CurveReadable(curve) \/ ~ CurveTokensReadable(tokens, OwnerOf(mint)) THEN "UNVERIFIED"
    ELSE IF OwnerOf(mint) = "CLASSIC_SPL" THEN "PUMP_CLASSIC_SPL_COMPATIBLE"
    ELSE "PUMP_TOKEN_2022_INCOMPATIBLE"

-----------------------------------------------------------------------------
(* The page and the request *)

\* One request at a time: the button is disabled while one runs.
SubmitMint(plausible) ==
    /\ checker.state # "checking"
    /\ IF plausible
       THEN /\ checker' = [state |-> "checking", shown |-> NoVerdict]
            /\ inspection' = [NoInspection EXCEPT !.stage = "asked"]
       ELSE /\ checker' = [state |-> "failed", shown |-> NoVerdict]
            /\ inspection' = NoInspection
    /\ UNCHANGED <<coin, genuine>>

Conclude(verdict) == [inspection EXCEPT !.stage = "answered", !.verdict = verdict]

\* parseMintPublicKey fails for text the page let through; an RPC error likewise.
InspectionUnverified ==
    /\ inspection.stage \in {"asked", "classified"}
    /\ inspection' = Conclude("UNVERIFIED")
    /\ UNCHANGED <<coin, checker, genuine>>

ReadMint(slot) ==
    /\ inspection.stage = "asked"
    /\ inspection' =
          IF CoinMintReadable(coin[slot].mint)
          THEN [inspection EXCEPT !.stage = "classified", !.mintSlot = slot]
          ELSE Conclude("UNVERIFIED")
    /\ UNCHANGED <<coin, checker, genuine>>

ReadCurve(slot) ==
    /\ inspection.stage = "classified"
    /\ inspection' = [Conclude(CoinVerdict(coin[inspection.mintSlot].mint,
                                           coin[slot].curve, coin[slot].tokens))
                      EXCEPT !.curveSlot = slot]
    /\ UNCHANGED <<coin, checker, genuine>>

ShowVerdict ==
    /\ checker.state = "checking" /\ inspection.stage = "answered"
    /\ checker' = [state |-> "complete", shown |-> inspection.verdict]
    /\ UNCHANGED <<coin, inspection, genuine>>

\* The quota of the route (429), a network error, or an answer that is no JSON.
InspectionLost ==
    /\ checker.state = "checking"
    /\ checker' = [state |-> "failed", shown |-> NoVerdict]
    /\ inspection' = NoInspection
    /\ UNCHANGED <<coin, genuine>>

-----------------------------------------------------------------------------
(* The chain *)

LatestCoin == coin[Len(coin)]

NewSlot(e) ==
    /\ Len(coin) < MaxCoinSlot
    /\ coin' = Append(coin, e)
    /\ UNCHANGED <<checker, inspection>>

\* Pump makes mint, curve and token account in one transaction; lamports someone has
\* sent to the curve's address before are no obstacle.
PumpCreates(program, layout) ==
    /\ LatestCoin.mint = {}
    /\ NewSlot([mint |-> Mint(program), curve |-> Curve("pump", layout),
                tokens |-> CurveTokens(program)])
    /\ genuine' = TRUE

CreatedElsewhere(program) ==
    /\ LatestCoin.mint = {}
    /\ NewSlot([LatestCoin EXCEPT !.mint = Mint(program)])
    /\ UNCHANGED genuine

LamportsToCurve ==
    /\ LatestCoin.curve = {}
    /\ NewSlot([LatestCoin EXCEPT !.curve = Curve("system", "none")])
    /\ UNCHANGED genuine

\* Anyone can make the token account of the curve, for a coin of any origin.
TokensToCurve ==
    /\ LatestCoin.mint # {} /\ LatestCoin.tokens = {}
    /\ NewSlot([LatestCoin EXCEPT !.tokens = CurveTokens(OwnerOf(LatestCoin.mint))])
    /\ UNCHANGED genuine

\* The market has moved to PumpSwap and the curve's token account is closed.
Graduate ==
    /\ genuine /\ LatestCoin.tokens # {}
    /\ NewSlot([LatestCoin EXCEPT !.tokens = {}])
    /\ UNCHANGED genuine

CoinInit ==
    /\ coin = <<[mint |-> {}, curve |-> {}, tokens |-> {}]>>
    /\ checker = [state |-> "idle", shown |-> NoVerdict]
    /\ inspection = NoInspection
    /\ genuine = FALSE

CoinNext ==
    \/ \E plausible \in BOOLEAN : SubmitMint(plausible)
    \/ InspectionUnverified \/ ShowVerdict \/ InspectionLost
    \/ \E slot \in 1 .. Len(coin) : ReadMint(slot) \/ ReadCurve(slot)
    \/ \E program \in TokenPrograms :
          CreatedElsewhere(program) \/ \E layout \in PumpLayouts : PumpCreates(program, layout)
    \/ LamportsToCurve \/ TokensToCurve \/ Graduate

CoinSpec == CoinInit /\ [][CoinNext]_coinVars

-----------------------------------------------------------------------------
(* Properties *)

CoinTypeOK ==
    /\ Len(coin) \in 1 .. MaxCoinSlot
    /\ checker.state \in {"idle", "checking", "complete", "failed"}
    /\ checker.shown # NoVerdict <=> checker.state = "complete"
    /\ {inspection.mintSlot, inspection.curveSlot} \subseteq 0 .. Len(coin)

\* A coin that is shown as a Pump coin is one, and of the token program it is shown
\* with, whatever others put at the addresses Pump would use; and a coin that Pump
\* made is called none only if the second node lagged behind the first.
VerdictIsTrue ==
    /\ checker.shown \in {"PUMP_CLASSIC_SPL_COMPATIBLE", "PUMP_TOKEN_2022_INCOMPATIBLE"} =>
          /\ genuine
          /\ checker.shown = "PUMP_CLASSIC_SPL_COMPATIBLE"
                <=> OwnerOf(LatestCoin.mint) = "CLASSIC_SPL"
    /\ checker.shown = "NOT_A_PUMP_COIN" /\ genuine =>
          inspection.curveSlot < inspection.mintSlot
=============================================================================
