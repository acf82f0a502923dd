----------------------------- MODULE AtLeastOnce -----------------------------
(***************************************************************************)
(* What a caller may rely on when a client sends its requests and repeats  *)
(* them: each try is carried out at most once, an answer "ok" means that   *)
(* one has been, any other answer means nothing, and a try may still be    *)
(* carried out after the answer.                                           *)
(***************************************************************************)
CONSTANTS Reqs, Tries

VARIABLES
  call,     (* where each call is: not made, made, or its answer            *)
  done      (* the tries of each request that were carried out              *)

vars == <<call, done>>

Init == call = [r \in Reqs |-> "none"] /\ done = [r \in Reqs |-> {}]

Make(r) == call[r] = "none" /\ call' = [call EXCEPT ![r] = "made"] /\ UNCHANGED done

CarryOut(r) ==
  /\ call[r] # "none"
  /\ \E n \in Tries \ done[r] : done' = [done EXCEPT ![r] = @ \cup {n}]
  /\ UNCHANGED call

Answer(r) ==
  /\ call[r] = "made"
  /\ \/ done[r] # {} /\ call' = [call EXCEPT ![r] = "ok"]
     \/ call' = [call EXCEPT ![r] = "error"]
  /\ UNCHANGED done

Next == \E r \in Reqs : Make(r) \/ CarryOut(r) \/ Answer(r)

Spec == Init /\ [][Next]_vars
=============================================================================
