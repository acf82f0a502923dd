---------------------------- MODULE MCNamespace ----------------------------
(* Namespace with values for TLC: one name, used in every directory, and a  *)
(* document two directories down; the flushes add the others.               *)
EXTENDS Namespace

CONSTANT a

MCDocs == {<<Private, a, a>>}
=============================================================================
