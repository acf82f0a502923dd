------------------------------ MODULE MCMemFs ------------------------------
(* Small instances of MemFs for TLC. *)
EXTENDS MemFs, TLC

Symmetry == Permutations(Names) \cup Permutations(Callers)
=============================================================================
