----------------------------- MODULE WriteBack -----------------------------
(***************************************************************************)
(* What a coalescing write-back queue promises about each path, whatever   *)
(* its table looks like: an edit is kept until it has been acknowledged by *)
(* the server or until a newer edit of the same path replaces it; nothing  *)
(* else (a failure, a crash, a restart) may drop one.                      *)
(***************************************************************************)
EXTENDS Naturals

CONSTANTS Paths, MaxEdits

VARIABLES
  latest,   (* the number of the newest edit of each path, 0 for none *)
  kept,     (* the edits that the queue still holds                   *)
  acked     (* the edits that the server has acknowledged             *)

vars == <<latest, kept, acked>>

Init ==
  /\ latest = [p \in Paths |-> 0]
  /\ kept = [p \in Paths |-> {}]
  /\ acked = [p \in Paths |-> {}]

(* A new edit is kept; it may replace older ones. *)
Edit(p) ==
  /\ latest[p] < MaxEdits
  /\ latest' = [latest EXCEPT ![p] = latest[p] + 1]
  /\ \E older \in SUBSET kept[p] :
       kept' = [kept EXCEPT ![p] = older \cup {latest[p] + 1}]
  /\ UNCHANGED acked

Acknowledge(p) ==
  \E e \in kept[p] :
    /\ kept' = [kept EXCEPT ![p] = kept[p] \ {e}]
    /\ acked' = [acked EXCEPT ![p] = acked[p] \cup {e}]
    /\ UNCHANGED latest

Next == \E p \in Paths : Edit(p) \/ Acknowledge(p)

Spec == Init /\ [][Next]_vars
=============================================================================
