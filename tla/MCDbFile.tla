------------------------------ MODULE MCDbFile ------------------------------
(* Small instances of DbFile for TLC. *)
EXTENDS DbFile
=============================================================================
