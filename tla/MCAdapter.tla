----------------------------- MODULE MCAdapter -----------------------------
(* Adapter with values for TLC. *)
EXTENDS Adapter

CONSTANT i1
=============================================================================
