---------------------------- MODULE MCHydration ----------------------------
(* Small instances of Hydration for TLC. *)
EXTENDS Hydration

Symmetry == Permutations(Keys) \cup Permutations(Slots)
=============================================================================
