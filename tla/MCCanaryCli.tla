----------------------------- MODULE MCCanaryCli -----------------------------
(* Small instances of CanaryCli for TLC. *)
EXTENDS CanaryCli, TLC

\* Signatures, testers and terminals are interchangeable: no definition of
\* CanaryCli tells one from another.
Symmetric == Permutations(Sig) \cup Permutations(Tester) \cup Permutations(Proc)
=============================================================================
