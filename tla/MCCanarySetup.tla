---------------------------- MODULE MCCanarySetup ----------------------------
(* Small instances of CanarySetup for TLC. *)
EXTENDS CanarySetup, TLC

\* Worlds and keypairs are generated addresses: interchangeable.
Symmetric == Permutations(World) \cup Permutations(Key)
=============================================================================
