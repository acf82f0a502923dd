----------------------------- MODULE MCDocSync -----------------------------
(* Small instances of DocSync for TLC. *)
EXTENDS DocSync, TLC

Symmetry == Permutations(Docs)
=============================================================================
