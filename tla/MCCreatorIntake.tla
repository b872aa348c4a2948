--------------------------- MODULE MCCreatorIntake ---------------------------
(* Small instances of CreatorIntake for TLC. *)
EXTENDS CreatorIntake, TLC

CONSTANTS m1, m2, w  \* two mints, a wallet

\* The collection of two NFTs fits only the supply of m2.
Supplies == (m1 :> 1) @@ (m2 :> 2)

\* Every submission is made with the same wallet.
OneWallet == [a \in Attempt |-> w]
=============================================================================
