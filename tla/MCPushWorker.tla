---------------------------- MODULE MCPushWorker ----------------------------
(* Small instances of PushWorker for TLC. *)
EXTENDS PushWorker, TLC

Symmetry == Permutations(Paths)
=============================================================================
