----------------------------- MODULE MCWalletLab -----------------------------
(* Small instances of WalletLab for TLC. *)
EXTENDS WalletLab, TLC

\* Signatures, tabs and recovery calls are interchangeable.
Symmetric == Permutations(Sig) \cup Permutations(Tab) \cup Permutations(Recovery)
=============================================================================
