-------------------------------- MODULE Reserve --------------------------------
(***************************************************************************)
(* The reserve of a World as math.ts projects it: coins in escrow, assets  *)
(* in escrow and assets in wallets, moved by captures and releases of      *)
(* several assets at once, and by coins anyone sends into the escrow.  It  *)
(* starts from any snapshot a page may show, balanced or not.              *)
(*                                                                         *)
(* This is the abstract specification of a custody: Devnet says what it is *)
(* on the chain, and the chain under the operator's commands implements it *)
(* (CanaryCustody of CanaryCli).                                           *)
(***************************************************************************)
EXTENDS Integers

CONSTANTS
    BackingPerNft,     \* backingPerNftAtomic
    CaptureEnabled, ReleaseEnabled,     \* rules.capture, rules.release
    MaxReserve,      \* bound: coins that exist
    MaxInventory     \* bound: assets that exist

ASSUME ReserveAssumption ==
    /\ BackingPerNft \in Nat \ {0}
    /\ CaptureEnabled \in BOOLEAN /\ ReleaseEnabled \in BOOLEAN
    /\ MaxReserve \in Nat /\ MaxInventory \in Nat

VARIABLES
    reserve,       \* tokenReserveAtomic
    inventory,     \* nftInventoryCount
    active         \* activeNftCount

reserveVars == <<reserve, inventory, active>>

-----------------------------------------------------------------------------
(* calculateRequiredReserveAtomic, calculateReserveMetrics *)

RequiredReserve == BackingPerNft * active

FullyBacked == reserve >= RequiredReserve

MaxReleasable ==
    LET releasable == reserve \div BackingPerNft
    IN  IF releasable > active THEN active ELSE releasable

-----------------------------------------------------------------------------
(* projectCapture, projectRelease: they throw where these are not enabled. *)

Capturable(count) ==
    /\ CaptureEnabled
    /\ count > 0 /\ count <= inventory

\* Mutant: the backing of one asset is taken for several, or for none.
ProjectCaptureUnbacked(count) ==
    /\ Capturable(count)
    /\ UNCHANGED reserve
    /\ inventory' = inventory - count
    /\ active' = active + count

ProjectCapture(count) ==
    /\ Capturable(count)
    /\ reserve' = reserve + BackingPerNft * count
    /\ inventory' = inventory - count
    /\ active' = active + count

Releasable(count) ==
    /\ ReleaseEnabled
    /\ count > 0 /\ count <= active
    /\ BackingPerNft * count <= reserve

ProjectRelease(count) ==
    /\ Releasable(count)
    /\ reserve' = reserve - BackingPerNft * count
    /\ inventory' = inventory + count
    /\ active' = active - count

\* Coins sent into the escrow with no asset in return: nothing on the chain forbids it.
Donate(amount) ==
    /\ reserve + amount <= MaxReserve
    /\ reserve' = reserve + amount
    /\ UNCHANGED <<inventory, active>>

ReserveInit ==
    /\ reserve \in 0 .. MaxReserve
    /\ inventory \in 0 .. MaxInventory
    /\ active \in 0 .. MaxInventory - inventory

ReserveNext ==
    \/ \E count \in 1 .. inventory : ProjectCapture(count)
    \/ \E count \in 1 .. active : ProjectRelease(count)
    \/ \E amount \in 1 .. MaxReserve : Donate(amount)

ReserveSpec == ReserveInit /\ [][ReserveNext]_reserveVars

-----------------------------------------------------------------------------
(* Properties *)

\* What the reserve holds beyond the backing of the active assets is never spent, and
\* what it lacks never grows, whatever is captured, released and donated and in
\* which order, and no asset appears or disappears: a World that was fully backed
\* once can always release every asset (calculateReserveMetrics, projectCapture,
\* projectRelease).
SurplusNeverSpent ==
    [][/\ reserve' - BackingPerNft * active' >= reserve - RequiredReserve
       /\ inventory' + active' = inventory + active]_reserveVars

\* The number of assets a page calls releasable is exactly what projectRelease
\* would accept, and a fully backed World can release every active one.
ReleasableIsHonest ==
    /\ \A count \in 1 .. active + 1 :
          Releasable(count) <=> ReleaseEnabled /\ count <= MaxReleasable
    /\ FullyBacked <=> MaxReleasable = active
=============================================================================
