----------------------------- MODULE ApiClient -----------------------------
(***************************************************************************)
(* The HTTP client of the brain (api/mod.rs): every request is sent by     *)
(* send_with_retry, which repeats it after a network error, a 429 or a 5xx *)
(* with a delay that doubles, and gives the first other answer, or the     *)
(* last error, to its caller.  A try the client has given up may still be  *)
(* on its way and be carried out later, and one that was carried out may   *)
(* be repeated.  One document; the server is external.                     *)
(***************************************************************************)
EXTENDS Naturals, FiniteSets

CONSTANTS
  Reqs,         (* the requests of a behaviour                              *)
  MaxRetries    (* MAX_RETRIES, the tries of a request                      *)

ASSUME ApiClientAssumption == MaxRetries \in Nat \ {0}

VARIABLES
  pc,       (* where the call is                                            *)
  kind,     (* the method of each request                                   *)
  attempt,  (* the number of its try                                        *)
  result,   (* what the call returned                                       *)
  wire,     (* the tries the server may still get                           *)
  reply,    (* the answer to the present try                                *)
  exists,   (* whether the server has the document                          *)
  done,     (* the tries of each request that the server carried out        *)
  gone,     (* history: requests one of whose tries left no document        *)
  lost,     (* history: requests with a try that brought no clear answer    *)
  after     (* history: the requests that had been answered at the call     *)

server == <<wire, exists, done, gone>>
vars == <<pc, kind, attempt, result, wire, reply, exists, done, gone, lost, after>>

Tries == 0..(MaxRetries - 1)
Kinds == {"get", "put", "delete"}
Refusals == {"refused", "notFound"}     (* 401, 403, 409, 422 ...; 404      *)
Repeatable == {"busy", "failed"}        (* 429; 5xx                         *)
Replies == {"ok"} \cup Refusals \cup Repeatable

Init ==
  /\ pc = [r \in Reqs |-> "idle"] /\ kind = [r \in Reqs |-> "get"]
  /\ attempt = [r \in Reqs |-> 0] /\ result = [r \in Reqs |-> "none"]
  /\ wire = [r \in Reqs |-> {}] /\ reply = [r \in Reqs |-> "none"]
  /\ exists \in BOOLEAN /\ done = [r \in Reqs |-> {}]
  /\ gone = {} /\ lost = {} /\ after = [r \in Reqs |-> {}]

-----------------------------------------------------------------------------
(* The client *)

(* Mutant of Send: the transport repeats the request by itself. *)
SendTwice(r, n) ==
  /\ pc' = [pc EXCEPT ![r] = "sent"]
  /\ attempt' = [attempt EXCEPT ![r] = n]
  /\ wire' = [wire EXCEPT ![r] = @ \cup ({n, n + 1} \cap Tries)]
  /\ reply' = [reply EXCEPT ![r] = "none"]

Send(r, n) ==
  /\ pc' = [pc EXCEPT ![r] = "sent"]
  /\ attempt' = [attempt EXCEPT ![r] = n]
  /\ wire' = [wire EXCEPT ![r] = @ \cup {n}]
  /\ reply' = [reply EXCEPT ![r] = "none"]

Call(r) ==
  /\ pc[r] = "idle"
  /\ \E k \in Kinds : kind' = [kind EXCEPT ![r] = k]
  /\ after' = [after EXCEPT ![r] = {q \in Reqs : pc[q] = "done"}]
  /\ Send(r, 0)
  /\ UNCHANGED <<result, exists, done, gone, lost>>

Return(r, x) ==
  /\ pc' = [pc EXCEPT ![r] = "done"]
  /\ result' = [result EXCEPT ![r] = x]

(* After an error that may pass: sleep, or give the error of the last try. *)
Retry(r, x) ==
  IF attempt[r] < MaxRetries - 1
  THEN pc' = [pc EXCEPT ![r] = "asleep"] /\ UNCHANGED result
  ELSE Return(r, x)

Wake(r) ==
  /\ pc[r] = "asleep"
  /\ Send(r, attempt[r] + 1)
  /\ UNCHANGED <<kind, result, exists, done, gone, lost, after>>

(* Mutant of Judge: after the last try any answer is a success. *)
GiveAsOk(r) ==
  CASE reply[r] \in Refusals -> Return(r, reply[r])
    [] reply[r] \in Repeatable -> IF attempt[r] < MaxRetries - 1 THEN Retry(r, reply[r])
                                  ELSE Return(r, "ok")
    [] reply[r] = "ok" -> Return(r, "ok") \/ Return(r, "network")

(* Mutant of Judge: an answer whose body cannot be read is retried. *)
RepeatOk(r) ==
  CASE reply[r] \in Refusals -> Return(r, reply[r])
    [] reply[r] \in Repeatable -> Retry(r, reply[r])
    [] reply[r] = "ok" -> Return(r, "ok") \/ Retry(r, "network")

(* Mutant of Judge: every 4xx is taken for a 404. *)
HideRefusal(r) ==
  CASE reply[r] \in Refusals -> Return(r, "notFound")
    [] reply[r] \in Repeatable -> Retry(r, reply[r])
    [] reply[r] = "ok" -> Return(r, "ok") \/ Return(r, "network")

(* The status of the answer; a body that cannot be read is a network error. *)
Judge(r) ==
  CASE reply[r] \in Refusals -> Return(r, reply[r])
    [] reply[r] \in Repeatable -> Retry(r, reply[r])
    [] reply[r] = "ok" -> Return(r, "ok") \/ Return(r, "network")

Receive(r) ==
  /\ pc[r] = "sent" /\ reply[r] # "none"
  /\ Judge(r)
  /\ lost' = IF reply[r] = "failed" THEN lost \cup {r} ELSE lost
  /\ UNCHANGED <<kind, attempt, reply, server, after>>

(* Mutant of Lose: no timeout while the request is on its way. *)
LoseRefused(r) ==
  /\ pc[r] = "sent" /\ attempt[r] \notin wire[r]
  /\ Retry(r, "network")
  /\ lost' = lost \cup {r}
  /\ UNCHANGED <<kind, attempt, reply, server, after>>

(* A broken connection, or 30 seconds without an answer.  The server may   *)
(* not have seen the try, may have carried it out, or may do so later.     *)
Lose(r) ==
  /\ pc[r] = "sent"
  /\ Retry(r, "network")
  /\ lost' = lost \cup {r}
  /\ UNCHANGED <<kind, attempt, reply, server, after>>

-----------------------------------------------------------------------------
(* The server (external) *)

(* The answer reaches the client if it still waits for that try. *)
Deliver(r, n, x) ==
  reply' = IF pc[r] = "sent" /\ attempt[r] = n THEN [reply EXCEPT ![r] = x] ELSE reply

CarryOut(r, n) ==
  /\ kind[r] \in {"get", "delete"} => exists
  /\ exists' = (kind[r] # "delete")
  /\ done' = [done EXCEPT ![r] = @ \cup {n}]
  /\ gone' = IF kind[r] = "delete" THEN gone \cup {r} ELSE gone
  /\ Deliver(r, n, "ok") \/ Deliver(r, n, "failed")

Decline(r, n) ==
  /\ \/ /\ kind[r] \in {"get", "delete"} /\ ~ exists
        /\ Deliver(r, n, "notFound") /\ gone' = gone \cup {r}
     \/ \E x \in {"refused"} \cup Repeatable : Deliver(r, n, x) /\ UNCHANGED gone
  /\ UNCHANGED <<exists, done>>

Serve(r) ==
  /\ \E n \in wire[r] :
       /\ wire' = [wire EXCEPT ![r] = @ \ {n}]
       /\ CarryOut(r, n) \/ Decline(r, n)
  /\ UNCHANGED <<pc, kind, attempt, result, lost, after>>

-----------------------------------------------------------------------------
Client(r) == Wake(r) \/ Receive(r) \/ Lose(r)

Next == \E r \in Reqs : Call(r) \/ Client(r) \/ Serve(r)

Spec == Init /\ [][Next]_vars

(* A sleep ends, an answer is read, and the timeout of the client fires.   *)
FairSpec == Spec /\ \A r \in Reqs : WF_vars(Client(r))

-----------------------------------------------------------------------------
(* Properties *)

(* The values the variables take; no try is numbered beyond MAX_RETRIES,   *)
(* so the loop never falls through to its unreachable!.                    *)
TypeOK ==
  /\ pc \in [Reqs -> {"idle", "sent", "asleep", "done"}]
  /\ kind \in [Reqs -> Kinds]
  /\ attempt \in [Reqs -> Tries]
  /\ result \in [Reqs -> {"none", "network"} \cup Replies]
  /\ wire \in [Reqs -> SUBSET Tries]
  /\ reply \in [Reqs -> {"none"} \cup Replies]
  /\ exists \in BOOLEAN
  /\ done \in [Reqs -> SUBSET Tries]
  /\ gone \subseteq Reqs /\ lost \subseteq Reqs
  /\ after \in [Reqs -> SUBSET Reqs]

(* To a caller the client is one that carries a request out at least once: *)
(* Ok only after the server has done it, however the tries, the answers    *)
(* and the timeouts interleave.                                            *)
Promise == INSTANCE AtLeastOnce WITH
  call <- [r \in Reqs |-> CASE pc[r] = "idle" -> "none"
                            [] pc[r] \in {"sent", "asleep"} -> "made"
                            [] pc[r] = "done" -> IF result[r] = "ok" THEN "ok" ELSE "error"]

ImplementsPromise == Promise!Spec

(* execute_push takes Ok and NotFound of a delete for success: with either *)
(* the document was gone at some moment of the call, although NotFound may *)
(* be the answer to a repetition of a delete that had been carried out.    *)
DeleteSettles ==
  \A r \in Reqs :
    kind[r] = "delete" /\ result[r] \in {"ok", "notFound"} => r \in gone

(* A request is carried out twice only after a network error or a 5xx.     *)
OnceUnlessLost ==
  \A r \in Reqs : Cardinality(done[r]) > 1 => r \in lost

(* A write is carried out behind the back of a caller that has its answer, *)
(* and over what a later call wrote, only if one of its tries was given up *)
(* by the client: order on a path is otherwise the order of the calls.     *)
NoLateWrite ==
  [][\A r \in Reqs :
       done'[r] # done[r] /\ (\E q \in Reqs : r \in after[q] /\ done[q] # {})
         => r \in lost]_vars

(* Every call returns, whatever the server does.                           *)
Answered == \A r \in Reqs : pc[r] # "idle" ~> pc[r] = "done"
=============================================================================
