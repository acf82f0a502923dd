------------------------------ MODULE MCDaemon ------------------------------
(* A small instance of Daemon for TLC: the name of one tag holds a "--".   *)
EXTENDS Daemon, TLC

MCNames == Tags \cup {"b__"}
MCDelim == [t \in Tags |-> IF t = "b--" THEN "b__" ELSE t]
=============================================================================
