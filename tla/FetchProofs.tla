----------------------------- MODULE FetchProofs -----------------------------
(***************************************************************************)
(* Proofs about the two components that fetch: ApiClient, the requests,    *)
(* for every set of them and every MAX_RETRIES, and Hydration, the         *)
(* scheduler of what is fetched ahead, for every set of keys and every     *)
(* number of permits and calls.  They share no state and nothing proved    *)
(* of the one rests on the other: what Hydration keeps and promises is     *)
(* HydrationBooks, extended beside ApiClient, and its steps are H's, with  *)
(* the worker's pc in worker.  What is proved of it has its                *)
(* assumption, which an instance does not bring along, as premise.         *)
(***************************************************************************)
EXTENDS ApiClient, HydrationBooks, FiniteSetTheorems, TLAPS

CONSTANT MaxEnqueues
VARIABLES worker, shutdown, calls

H == INSTANCE Hydration WITH pc <- worker

-----------------------------------------------------------------------------
(* The requests.                                                           *)
(* What has been sent and carried out is numbered by the tries so far, and *)
(* a request that sleeps has a try left.                                   *)
TriesInOrder ==
  \A r \in Reqs :
    /\ \A n \in wire[r] \cup done[r] : pc[r] # "idle" /\ n <= attempt[r]
    /\ wire[r] \cap done[r] = {}
    /\ pc[r] = "asleep" => attempt[r] < MaxRetries - 1
    /\ result[r] # "none" <=> pc[r] = "done"
    /\ pc[r] = "idle" => reply[r] = "none"

(* What an answer says has happened.                                       *)
AnswersTrue ==
  \A r \in Reqs :
    /\ "ok" \in {reply[r], result[r]} => done[r] # {}
    /\ kind[r] = "delete" /\ ({"ok", "notFound"} \cap {reply[r], result[r]}) # {}
         => r \in gone

(* Without a loss nothing stays on the way: the present try is all there   *)
(* is, and it is carried out at most once.                                 *)
NothingPending ==
  \A r \in Reqs :
    /\ r \notin lost /\ pc[r] # "sent" => wire[r] = {}
    /\ r \notin lost /\ reply[r] # "none" => wire[r] = {}
    /\ r \notin lost => wire[r] \cup done[r] \subseteq {attempt[r]}
    /\ r \notin lost /\ pc[r] = "asleep" => done[r] = {}
    /\ r \notin lost /\ pc[r] = "sent" /\ reply[r] \in {"none", "busy"} => done[r] = {}

AnsweredBefore == \A q \in Reqs : \A r \in after[q] : r \in Reqs /\ pc[r] = "done"

IInv == TypeOK /\ TriesInOrder /\ AnswersTrue /\ NothingPending /\ AnsweredBefore

USE DEF Refusals, Repeatable, Replies, Kinds, Tries

LEMMA InitHolds == Init => IInv
BY ApiClientAssumption
   DEF Init, IInv, TypeOK, TriesInOrder, AnswersTrue, NothingPending, AnsweredBefore

LEMMA CallHolds ==
  ASSUME IInv, NEW r \in Reqs, Call(r) PROVE IInv'
<1>1. 0 \in Tries
  BY ApiClientAssumption
<1>2. TypeOK'
  BY <1>1 DEF IInv, TypeOK, Call, Send
<1>3. wire[r] = {} /\ done[r] = {} /\ result[r] = "none"
  BY DEF IInv, TypeOK, TriesInOrder, Call
<1>4. TriesInOrder'
  BY <1>1, <1>3 DEF IInv, TypeOK, TriesInOrder, Call, Send
<1>5. AnswersTrue'
  BY <1>3 DEF IInv, TypeOK, AnswersTrue, Call, Send
<1>6. NothingPending'
  BY <1>3 DEF IInv, TypeOK, NothingPending, Call, Send
<1>7. AnsweredBefore'
  BY DEF IInv, TypeOK, AnsweredBefore, Call, Send
<1>8. QED
  BY <1>2, <1>4, <1>5, <1>6, <1>7 DEF IInv

LEMMA WakeHolds ==
  ASSUME IInv, NEW r \in Reqs, Wake(r) PROVE IInv'
<1>1. attempt[r] + 1 \in Tries /\ attempt[r] \in Nat
  BY ApiClientAssumption DEF IInv, TypeOK, TriesInOrder, Wake
<1>2. TypeOK'
  BY <1>1 DEF IInv, TypeOK, Wake, Send
<1>3. TriesInOrder'
  BY <1>1 DEF IInv, TypeOK, TriesInOrder, Wake, Send
<1>4. AnswersTrue'
  BY DEF IInv, TypeOK, AnswersTrue, Wake, Send
<1>5. NothingPending'
  BY <1>1 DEF IInv, TypeOK, NothingPending, Wake, Send
<1>6. AnsweredBefore'
  BY DEF IInv, TypeOK, AnsweredBefore, Wake, Send
<1>7. QED
  BY <1>2, <1>3, <1>4, <1>5, <1>6 DEF IInv

(* What the client makes of an answer: a sleep, if it may be repeated, or  *)
(* a result, which is Ok or NotFound only if the answer is.                *)
LEMMA Judgement ==
  ASSUME IInv, NEW r \in Reqs, Receive(r)
  PROVE  \/ /\ attempt[r] < MaxRetries - 1 /\ reply[r] \in Repeatable
            /\ pc' = [pc EXCEPT ![r] = "asleep"] /\ result' = result
         \/ \E x \in Replies \cup {"network"} :
              Return(r, x) /\ (x \in {"ok", "notFound"} => reply[r] = x)
<1>1. reply[r] \in Replies /\ Judge(r)
  BY DEF IInv, TypeOK, Receive
<1>2. CASE reply[r] \in Refusals
  <2>1. Return(r, reply[r])
    BY <1>1, <1>2 DEF Judge
  <2>2. QED
    BY <1>1, <2>1
<1>3. CASE reply[r] \in Repeatable
  <2>1. Retry(r, reply[r])
    BY <1>1, <1>3 DEF Judge
  <2>2. CASE attempt[r] < MaxRetries - 1
    BY <1>3, <2>1, <2>2 DEF Retry
  <2>3. CASE ~ (attempt[r] < MaxRetries - 1)
    <3>1. Return(r, reply[r])
      BY <2>1, <2>3 DEF Retry
    <3>2. QED
      BY <1>1, <3>1
  <2>4. QED
    BY <2>2, <2>3
<1>4. CASE reply[r] = "ok"
  <2>1. Return(r, "ok") \/ Return(r, "network")
    BY <1>1, <1>4 DEF Judge
  <2>2. QED
    BY <1>4, <2>1
<1>5. QED
  BY <1>1, <1>2, <1>3, <1>4

LEMMA ReceiveHolds ==
  ASSUME IInv, NEW r \in Reqs, Receive(r) PROVE IInv'
<1>1. /\ UNCHANGED <<kind, attempt, reply, server, after>>
      /\ lost' = IF reply[r] = "failed" THEN lost \cup {r} ELSE lost
      /\ pc[r] = "sent" /\ reply[r] # "none"
  BY DEF Receive
<1>2. CASE /\ attempt[r] < MaxRetries - 1 /\ reply[r] \in Repeatable
           /\ pc' = [pc EXCEPT ![r] = "asleep"] /\ result' = result
  <2>1. TypeOK' /\ TriesInOrder' /\ AnswersTrue'
    BY <1>1, <1>2 DEF IInv, TypeOK, TriesInOrder, AnswersTrue, server
  <2>2. NothingPending' /\ AnsweredBefore'
    BY <1>1, <1>2 DEF IInv, TypeOK, NothingPending, AnsweredBefore, server
  <2>3. QED
    BY <2>1, <2>2 DEF IInv
<1>3. CASE \E x \in Replies \cup {"network"} :
             Return(r, x) /\ (x \in {"ok", "notFound"} => reply[r] = x)
  <2>1. PICK x \in Replies \cup {"network"} :
          Return(r, x) /\ (x \in {"ok", "notFound"} => reply[r] = x)
    BY <1>3
  <2>2. TypeOK' /\ TriesInOrder'
    BY <1>1, <2>1 DEF IInv, TypeOK, TriesInOrder, Return, server
  <2>3. AnswersTrue'
    BY <1>1, <2>1 DEF IInv, TypeOK, AnswersTrue, Return, server
  <2>4. NothingPending' /\ AnsweredBefore'
    BY <1>1, <2>1 DEF IInv, TypeOK, NothingPending, AnsweredBefore, Return, server
  <2>5. QED
    BY <2>2, <2>3, <2>4 DEF IInv
<1>4. QED
  BY <1>2, <1>3, Judgement

LEMMA LoseHolds ==
  ASSUME IInv, NEW r \in Reqs, Lose(r) PROVE IInv'
<1>1. TypeOK'
  BY DEF IInv, TypeOK, Lose, Retry, Return, server
<1>2. TriesInOrder'
  BY ApiClientAssumption DEF IInv, TypeOK, TriesInOrder, Lose, Retry, Return, server
<1>3. AnswersTrue'
  BY DEF IInv, TypeOK, AnswersTrue, Lose, Retry, Return, server
<1>4. NothingPending'
  BY DEF IInv, TypeOK, NothingPending, Lose, Retry, Return, server
<1>5. AnsweredBefore'
  BY DEF IInv, TypeOK, AnsweredBefore, Lose, Retry, Return, server
<1>6. QED
  BY <1>1, <1>2, <1>3, <1>4, <1>5 DEF IInv

LEMMA ServeHolds ==
  ASSUME IInv, NEW r \in Reqs, Serve(r) PROVE IInv'
<1>1. PICK n \in wire[r] :
        /\ wire' = [wire EXCEPT ![r] = @ \ {n}]
        /\ CarryOut(r, n) \/ Decline(r, n)
  BY DEF Serve
<1>2. n \in Tries /\ n <= attempt[r] /\ n \notin done[r]
  BY <1>1 DEF IInv, TypeOK, TriesInOrder
<1>3. UNCHANGED <<pc, kind, attempt, result, lost, after>>
  BY DEF Serve
<1>4. CASE CarryOut(r, n)
  <2>1. TypeOK'
    BY <1>1, <1>2, <1>3, <1>4 DEF IInv, TypeOK, CarryOut, Deliver
  <2>2. TriesInOrder'
    BY <1>1, <1>2, <1>3, <1>4 DEF IInv, TypeOK, TriesInOrder, CarryOut, Deliver
  <2>3. AnswersTrue'
    BY <1>1, <1>2, <1>3, <1>4 DEF IInv, TypeOK, AnswersTrue, TriesInOrder, CarryOut, Deliver
  <2>4. NothingPending'
    BY <1>1, <1>2, <1>3, <1>4 DEF IInv, TypeOK, NothingPending, TriesInOrder, CarryOut, Deliver
  <2>5. AnsweredBefore'
    BY <1>3 DEF IInv, AnsweredBefore
  <2>6. QED
    BY <2>1, <2>2, <2>3, <2>4, <2>5 DEF IInv
<1>5. CASE Decline(r, n)
  <2>1. TypeOK'
    BY <1>1, <1>2, <1>3, <1>5 DEF IInv, TypeOK, Decline, Deliver
  <2>2. TriesInOrder'
    BY <1>1, <1>2, <1>3, <1>5 DEF IInv, TypeOK, TriesInOrder, Decline, Deliver
  <2>3. AnswersTrue'
    BY <1>1, <1>2, <1>3, <1>5 DEF IInv, TypeOK, AnswersTrue, TriesInOrder, Decline, Deliver
  <2>4. NothingPending'
    BY <1>1, <1>2, <1>3, <1>5 DEF IInv, TypeOK, NothingPending, TriesInOrder, Decline, Deliver
  <2>5. AnsweredBefore'
    BY <1>3 DEF IInv, AnsweredBefore
  <2>6. QED
    BY <2>1, <2>2, <2>3, <2>4, <2>5 DEF IInv
<1>6. QED
  BY <1>1, <1>4, <1>5

LEMMA StepHolds == IInv /\ [Next]_vars => IInv'
<1> SUFFICES ASSUME IInv, [Next]_vars PROVE IInv'
  OBVIOUS
<1>1. CASE UNCHANGED vars
  BY <1>1 DEF IInv, TypeOK, TriesInOrder, AnswersTrue, NothingPending, AnsweredBefore, vars
<1>2. CASE Next
  BY <1>2, CallHolds, WakeHolds, ReceiveHolds, LoseHolds, ServeHolds DEF Next, Client
<1>3. QED
  BY <1>1, <1>2

(* The invariant the others follow from. *)
THEOREM Invariance == Spec => []IInv
<1>1. QED
  BY InitHolds, StepHolds, PTL DEF Spec

(* The values of the variables; the loop never runs out of tries.          *)
THEOREM TypesHold == Spec => []TypeOK
<1>1. IInv => TypeOK
  BY DEF IInv
<1>2. QED
  BY <1>1, Invariance, PTL

(* A delete that ends in Ok or NotFound left no document at some moment.   *)
THEOREM DeletesSettle == Spec => []DeleteSettles
<1>1. IInv => DeleteSettles
  BY DEF IInv, AnswersTrue, DeleteSettles
<1>2. QED
  BY <1>1, Invariance, PTL

(* A request is carried out twice only after a loss.                       *)
THEOREM OnceUnlessALoss == Spec => []OnceUnlessLost
<1>1. IInv => OnceUnlessLost
  <2> SUFFICES ASSUME IInv, NEW r \in Reqs, r \notin lost
               PROVE ~ (Cardinality(done[r]) > 1)
    BY DEF OnceUnlessLost
  <2>1. done[r] = {} \/ done[r] = {attempt[r]}
    BY DEF IInv, NothingPending
  <2>2. Cardinality({}) = 0 /\ Cardinality({attempt[r]}) = 1
    BY FS_EmptySet, FS_Singleton
  <2>3. QED
    BY <2>1, <2>2
<1>2. QED
  BY <1>1, Invariance, PTL

(* A write is carried out after a later one only if it was given up.       *)
THEOREM NoLateWrites == Spec => NoLateWrite
<1>1. IInv /\ [Next]_vars =>
        [\A r \in Reqs :
           done'[r] # done[r] /\ (\E q \in Reqs : r \in after[q] /\ done[q] # {})
             => r \in lost]_vars
  <2> SUFFICES ASSUME IInv, Next, NEW r \in Reqs, done'[r] # done[r],
                      NEW q \in Reqs, r \in after[q]
               PROVE r \in lost
    OBVIOUS
  <2>1. \A p \in Reqs : Call(p) \/ Client(p) => done' = done
    BY DEF Call, Client, Wake, Receive, Lose, server
  <2>2. PICK p \in Reqs : Serve(p)
    BY <2>1 DEF Next
  <2>3. \A o \in Reqs : o # p => done'[o] = done[o]
    BY <2>2 DEF IInv, TypeOK, Serve, CarryOut, Decline
  <2>4. wire[r] # {}
    BY <2>2, <2>3 DEF Serve
  <2>5. pc[r] = "done"
    BY DEF IInv, AnsweredBefore
  <2>6. QED
    BY <2>4, <2>5 DEF IInv, NothingPending
<1>2. QED
  BY <1>1, Invariance, PTL DEF Spec, NoLateWrite

(* Every step is a step of the promise or changes nothing it speaks of.    *)
THEOREM Implements == Spec => ImplementsPromise
<1> DEFINE mapped(r) == CASE pc[r] = "idle" -> "none"
                          [] pc[r] \in {"sent", "asleep"} -> "made"
                          [] pc[r] = "done" -> IF result[r] = "ok" THEN "ok" ELSE "error"
           call == [r \in Reqs |-> mapped(r)]
<1>1. Init => Promise!Init
  BY DEF Init, Promise!Init
<1>2. IInv /\ [Next]_vars => [Promise!Next]_(Promise!vars)
  <2> SUFFICES ASSUME IInv, [Next]_vars PROVE [Promise!Next]_(Promise!vars)
    OBVIOUS
  <2>1. CASE UNCHANGED vars
    BY <2>1 DEF vars, Promise!vars
  <2>2. ASSUME NEW r \in Reqs, Call(r) PROVE Promise!Make(r)
    BY <2>2 DEF IInv, TypeOK, Call, Send, Promise!Make
  <2>3. ASSUME NEW r \in Reqs, Wake(r) PROVE UNCHANGED Promise!vars
    BY <2>3 DEF IInv, TypeOK, Wake, Send, Promise!vars
  <2>4. ASSUME NEW r \in Reqs, Receive(r) \/ Lose(r)
        PROVE Promise!Answer(r) \/ UNCHANGED Promise!vars
    <3>1. done' = done /\ result[r] = "none" /\ pc[r] = "sent"
      BY <2>4 DEF IInv, TypeOK, TriesInOrder, Receive, Lose, server
    <3>2. \/ pc' = [pc EXCEPT ![r] = "asleep"] /\ result' = result
          \/ \E x \in Replies \cup {"network"} :
               Return(r, x) /\ (x = "ok" => done[r] # {})
      <4>1. CASE Receive(r)
        BY <4>1, Judgement DEF IInv, AnswersTrue
      <4>2. CASE Lose(r)
        BY <4>2 DEF Lose, Retry
      <4>3. QED
        BY <2>4, <4>1, <4>2
    <3>3. CASE pc' = [pc EXCEPT ![r] = "asleep"] /\ result' = result
      BY <3>1, <3>3 DEF IInv, TypeOK, Promise!vars
    <3>4. CASE \E x \in Replies \cup {"network"} :
                 Return(r, x) /\ (x = "ok" => done[r] # {})
      <4>1. PICK x \in Replies \cup {"network"} :
              Return(r, x) /\ (x = "ok" => done[r] # {})
        BY <3>4
      <4>2. call' = [call EXCEPT ![r] = IF x = "ok" THEN "ok" ELSE "error"]
        BY <3>1, <4>1 DEF IInv, TypeOK, Return
      <4>3. QED
        BY <3>1, <4>1, <4>2 DEF Promise!Answer
    <3>5. QED
      BY <3>2, <3>3, <3>4
  <2>5. ASSUME NEW r \in Reqs, Serve(r)
        PROVE Promise!CarryOut(r) \/ UNCHANGED Promise!vars
    <3>1. PICK n \in wire[r] : CarryOut(r, n) \/ Decline(r, n)
      BY <2>5 DEF Serve
    <3>2. call' = call /\ call[r] # "none"
      BY <2>5, <3>1 DEF IInv, TypeOK, TriesInOrder, Serve
    <3>3. n \in Tries \ done[r]
      BY <3>1 DEF IInv, TypeOK, TriesInOrder
    <3>4. QED
      BY <3>1, <3>2, <3>3 DEF CarryOut, Decline, Promise!CarryOut, Promise!vars
  <2>6. QED
    BY <2>1, <2>2, <2>3, <2>4, <2>5 DEF Next, Client, Promise!Next
<1>3. QED
  BY <1>1, <1>2, Invariance, PTL DEF Spec, ImplementsPromise, Promise!Spec

-----------------------------------------------------------------------------
(* The scheduler and its worker.                                           *)
(* Every task that works has a key, which nobody is owed once it is        *)
(* fetched.                                                                *)
TasksHaveKeys ==
  \A s \in Working :
    /\ task[s] \in Keys
    /\ phase[s] = "fetched" => task[s] \notin owed

(* Nothing is fetched once the worker has returned. *)
NoneLeftBehind == worker = "off" => inflight = {} /\ Working = {}

(* The invariants of the runs are inductive together with this one. *)
HInv ==
  /\ H!TypeOK
  /\ BooksBalance
  /\ NoDoubleFetch
  /\ NothingForgotten
  /\ NoneLeftBehind
  /\ TasksHaveKeys

(* push_back adds its key to what is queued, and keeps the rest unique. *)
LEMMA AppendFacts ==
  ASSUME NEW q \in Seq(Keys), NEW k \in Keys
  PROVE  /\ Append(q, k) \in Seq(Keys)
         /\ ToSet(Append(q, k)) = ToSet(q) \cup {k}
         /\ IsInjective(q) /\ k \notin ToSet(q) => IsInjective(Append(q, k))
<1>1. /\ DOMAIN q = 1..Len(q) /\ Len(q) \in Nat
      /\ Append(q, k) \in Seq(Keys)
      /\ DOMAIN Append(q, k) = 1..(Len(q) + 1)
      /\ \A i \in 1..Len(q) : Append(q, k)[i] = q[i]
      /\ Append(q, k)[Len(q) + 1] = k
  OBVIOUS
<1>2. 1..(Len(q) + 1) = 1..Len(q) \cup {Len(q) + 1}
  BY <1>1
<1>3. ToSet(Append(q, k)) = ToSet(q) \cup {k}
  BY <1>1, <1>2 DEF ToSet
<1>4. IsInjective(q) /\ k \notin ToSet(q) => IsInjective(Append(q, k))
  BY <1>1, <1>2 DEF ToSet, IsInjective
<1>. QED BY <1>1, <1>3, <1>4

(* pop_front of a queue without duplicates takes its key out of it. *)
LEMMA TailFacts ==
  ASSUME NEW q \in Seq(Keys), q # <<>>, IsInjective(q)
  PROVE  /\ Head(q) \in ToSet(q) /\ Head(q) \in Keys
         /\ Tail(q) \in Seq(Keys)
         /\ ToSet(Tail(q)) = ToSet(q) \ {Head(q)}
         /\ IsInjective(Tail(q))
<1>1. /\ Len(q) \in Nat \ {0} /\ DOMAIN q = 1..Len(q)
      /\ Tail(q) \in Seq(Keys) /\ Len(Tail(q)) = Len(q) - 1
      /\ DOMAIN Tail(q) = 1..(Len(q) - 1)
      /\ \A i \in 1..(Len(q) - 1) : Tail(q)[i] = q[i + 1]
      /\ Head(q) = q[1] /\ q[1] \in Keys
  OBVIOUS
<1>2. ToSet(Tail(q)) \subseteq ToSet(q) \ {Head(q)}
  BY <1>1 DEF ToSet, IsInjective
<1>3. ToSet(q) \ {Head(q)} \subseteq ToSet(Tail(q))
  <2>. SUFFICES ASSUME NEW i \in 1..Len(q), q[i] # Head(q)
                PROVE  q[i] \in ToSet(Tail(q))
    BY <1>1 DEF ToSet
  <2>1. i - 1 \in 1..(Len(q) - 1) /\ Tail(q)[i - 1] = q[i]
    BY <1>1
  <2>. QED BY <1>1, <2>1 DEF ToSet
<1>4. IsInjective(Tail(q))
  BY <1>1 DEF IsInjective
<1>5. Head(q) \in ToSet(q)
  BY <1>1 DEF ToSet
<1>. QED BY <1>1, <1>2, <1>3, <1>4, <1>5

(* An accepted key is new to the queue and to the tasks. *)
LEMMA EnqueueStep ==
  ASSUME H!HydrationAssumption, HInv, NEW k \in Keys, H!Enqueue(k)
  PROVE  HInv'
<1>. USE DEF HInv
<1>1. /\ UNCHANGED <<inflight, recent, worker, task, phase, shutdown>>
      /\ calls' \in 0..MaxEnqueues
      /\ Working' = Working
  BY DEF H!HydrationAssumption, H!Enqueue, H!TypeOK, Working
<1>2. CASE k \in recent \cup pending \cup inflight
  <2>1. UNCHANGED <<queue, pending, owed>>
    BY <1>2 DEF H!Enqueue
  <2>. QED
    BY <1>1, <2>1
       DEF H!TypeOK, BooksBalance, NoDoubleFetch, NothingForgotten,
           NoneLeftBehind, TasksHaveKeys
<1>3. CASE k \notin recent \cup pending \cup inflight
  <2>1. /\ queue' = Append(queue, k)
        /\ pending' = pending \cup {k}
        /\ owed' = owed \cup {k}
    BY <1>3 DEF H!Enqueue
  <2>2. /\ queue' \in Seq(Keys) /\ pending' = ToSet(queue')
        /\ IsInjective(queue')
    BY <1>3, <2>1, AppendFacts DEF H!TypeOK, BooksBalance
  <2>3. H!TypeOK'
    BY <1>1, <2>1, <2>2 DEF H!TypeOK
  <2>4. BooksBalance'
    BY <1>1, <2>2 DEF BooksBalance
  <2>5. NoDoubleFetch'
    BY <1>1, <1>3, <2>1 DEF NoDoubleFetch
  <2>6. NothingForgotten' /\ NoneLeftBehind'
    BY <1>1, <2>1 DEF NothingForgotten, NoneLeftBehind
  <2>7. TasksHaveKeys'
    BY <1>1, <1>3, <2>1 DEF TasksHaveKeys, BooksBalance
  <2>. QED BY <2>3, <2>4, <2>5, <2>6, <2>7
<1>. QED BY <1>2, <1>3

(* A spawned task takes the oldest key from the queue to the in-flight set. *)
LEMMA SpawnStep ==
  ASSUME HInv, NEW s \in Slots, H!Spawn(s)
  PROVE  HInv'
<1>. DEFINE k == Head(queue)
<1>. USE DEF HInv
<1>1. /\ phase[s] = "free" /\ worker' = "spawn"
      /\ queue' = Tail(queue) /\ pending' = pending \ {k}
      /\ inflight' = inflight \cup {k}
      /\ task' = [task EXCEPT ![s] = k]
      /\ phase' = [phase EXCEPT ![s] = "fetch"]
      /\ UNCHANGED <<recent, shutdown, calls, owed>>
  BY DEF H!Spawn
<1>2. /\ k \in pending /\ k \in Keys
      /\ queue' \in Seq(Keys) /\ pending' = ToSet(queue')
      /\ IsInjective(queue')
  BY <1>1, TailFacts DEF H!Spawn, H!TypeOK, BooksBalance
<1>3. /\ s \notin Working
      /\ Working' = Working \cup {s}
      /\ task'[s] = k
      /\ \A t \in Working : task'[t] = task[t]
  BY <1>1 DEF Working, H!TypeOK
<1>4. H!TypeOK'
  BY <1>1, <1>2 DEF H!TypeOK
<1>5. BooksBalance'
  <2>1. inflight' = {task'[t] : t \in Working'}
    BY <1>1, <1>3 DEF BooksBalance
  <2>. QED BY <1>2, <2>1 DEF BooksBalance
<1>6. NoDoubleFetch'
  <2>1. \A t \in Working : task[t] # k
    BY <1>2 DEF BooksBalance, NoDoubleFetch
  <2>. QED BY <1>1, <1>2, <1>3, <2>1 DEF NoDoubleFetch
<1>7. NothingForgotten' /\ NoneLeftBehind' /\ TasksHaveKeys'
  BY <1>1, <1>2, <1>3 DEF NothingForgotten, NoneLeftBehind, TasksHaveKeys,
                          H!TypeOK, Working, H!Spawn
<1>. QED BY <1>4, <1>5, <1>6, <1>7

(* A fetch that returns leaves its key with its task. *)
LEMMA FetchedStep ==
  ASSUME HInv, NEW s \in Slots, H!Fetched(s)
  PROVE  HInv'
<1>. USE DEF HInv
<1>1. /\ phase[s] = "fetch" /\ phase' = [phase EXCEPT ![s] = "fetched"]
      /\ owed' = owed \ {task[s]}
      /\ UNCHANGED <<H!scheduler, worker, task, shutdown, calls>>
  BY DEF H!Fetched
<1>2. Working' = Working
  BY <1>1 DEF Working, H!TypeOK
<1>3. H!TypeOK'
  BY <1>1 DEF H!TypeOK, H!scheduler
<1>4. TasksHaveKeys'
  BY <1>1, <1>2 DEF TasksHaveKeys, H!TypeOK, Working
<1>. QED
  BY <1>1, <1>2, <1>3, <1>4
     DEF BooksBalance, NoDoubleFetch, NothingForgotten, NoneLeftBehind,
         H!scheduler

(* A task that completes has fetched its key, so nobody is owed it.        *)
LEMMA CompleteStep ==
  ASSUME HInv, NEW s \in Slots, H!Complete(s)
  PROVE  HInv'
<1>. USE DEF HInv
<1>1. /\ phase[s] = "fetched" /\ phase' = [phase EXCEPT ![s] = "completed"]
      /\ inflight' = inflight \ {task[s]}
      /\ recent' = recent \cup {task[s]}
      /\ UNCHANGED <<queue, pending, worker, task, shutdown, calls, owed>>
  BY DEF H!Complete
<1>2. s \in Working /\ Working' = Working \ {s}
  BY <1>1 DEF Working, H!TypeOK
<1>3. /\ task[s] \in Keys /\ task[s] \in inflight
      /\ task[s] \notin pending /\ task[s] \notin owed
  BY <1>1, <1>2 DEF TasksHaveKeys, BooksBalance, NoDoubleFetch
<1>4. H!TypeOK'
  BY <1>1, <1>3 DEF H!TypeOK
<1>5. BooksBalance'
  BY <1>1, <1>2 DEF BooksBalance, NoDoubleFetch
<1>6. NoDoubleFetch'
  BY <1>1, <1>2, <1>3 DEF NoDoubleFetch
<1>7. NothingForgotten'
  BY <1>1, <1>3 DEF NothingForgotten
<1>8. NoneLeftBehind' /\ TasksHaveKeys'
  BY <1>1, <1>2 DEF NoneLeftBehind, TasksHaveKeys, H!TypeOK
<1>. QED BY <1>4, <1>5, <1>6, <1>7, <1>8

(* A task that ends gives its slot back. *)
LEMMA ReleaseStep ==
  ASSUME HInv, NEW s \in Slots, H!Release(s)
  PROVE  HInv'
<1>. USE DEF HInv
<1>1. /\ phase[s] = "completed" /\ phase' = [phase EXCEPT ![s] = "free"]
      /\ task' = [task EXCEPT ![s] = NoKey]
      /\ UNCHANGED <<H!scheduler, worker, shutdown, calls, owed>>
  BY DEF H!Release
<1>2. /\ s \notin Working /\ Working' = Working
      /\ \A t \in Working : task'[t] = task[t] /\ phase'[t] = phase[t]
  BY <1>1 DEF Working, H!TypeOK
<1>3. H!TypeOK'
  BY <1>1 DEF H!TypeOK, H!scheduler
<1>4. BooksBalance' /\ NoDoubleFetch'
  BY <1>1, <1>2 DEF BooksBalance, NoDoubleFetch, H!scheduler
<1>5. NothingForgotten' /\ NoneLeftBehind' /\ TasksHaveKeys'
  BY <1>1, <1>2 DEF NothingForgotten, NoneLeftBehind, TasksHaveKeys, H!scheduler
<1>. QED BY <1>3, <1>4, <1>5

(* The steps of the worker alone: only Joined ends it, with no task left.  *)
LEMMA ControlStep ==
  ASSUME HInv,
         \/ H!Wake \/ H!GoOn \/ H!SpawnDone \/ H!Joined \/ H!Leave \/ H!Shutdown
         \/ UNCHANGED H!vars
  PROVE  HInv'
<1>. USE DEF HInv
<1>1. UNCHANGED <<H!scheduler, task, phase, calls, owed>>
  BY DEF H!Wake, H!GoOn, H!SpawnDone, H!Joined, H!Leave, H!Shutdown, H!vars
<1>2. Working' = Working
  BY <1>1 DEF Working
<1>3. H!TypeOK'
  BY <1>1
     DEF H!TypeOK, H!scheduler, H!Wake, H!GoOn, H!SpawnDone, H!Joined, H!Leave, H!Shutdown,
         H!vars
<1>4. NoneLeftBehind'
  <2>1. CASE H!Joined
    <3>1. Working = {}
      BY <2>1 DEF H!Joined, Working
    <3>. QED BY <1>1, <1>2, <3>1 DEF BooksBalance, NoneLeftBehind, H!scheduler
  <2>2. CASE ~ H!Joined
    BY <1>1, <1>2, <2>2
       DEF NoneLeftBehind, H!scheduler, H!Wake, H!GoOn, H!SpawnDone, H!Leave, H!Shutdown,
           H!vars
  <2>. QED BY <2>1, <2>2
<1>. QED
  BY <1>1, <1>2, <1>3, <1>4
     DEF BooksBalance, NoDoubleFetch, NothingForgotten, TasksHaveKeys,
         H!scheduler

(* A key whose time to live has passed is forgotten. *)
LEMMA ExpireStep ==
  ASSUME HInv, NEW k \in Keys, H!Expire(k)
  PROVE  HInv'
<1>. USE DEF HInv
<1>1. /\ recent' = recent \ {k}
      /\ UNCHANGED <<queue, pending, inflight, worker, task, phase, shutdown,
                     calls, owed>>
  BY DEF H!Expire
<1>2. Working' = Working
  BY <1>1 DEF Working
<1>. QED
  BY <1>1, <1>2
     DEF H!TypeOK, BooksBalance, NoDoubleFetch, NothingForgotten, NoneLeftBehind,
         TasksHaveKeys

LEMMA HydrationStep ==
  ASSUME H!HydrationAssumption, HInv, [H!Next]_(H!vars)
  PROVE  HInv'
BY EnqueueStep, SpawnStep, FetchedStep, CompleteStep, ReleaseStep,
   ControlStep, ExpireStep
   DEF H!Next, H!WorkerStep, H!TaskStep

LEMMA HydrationInit ==
  ASSUME H!HydrationAssumption, H!Init
  PROVE  HInv
<1>1. Working = {}
  BY DEF H!Init, Working
<1>2. ToSet(queue) = {} /\ IsInjective(queue)
  BY DEF H!Init, ToSet, IsInjective
<1>3. H!TypeOK
  <2>1. queue \in Seq(Keys) /\ calls \in 0..MaxEnqueues
    BY DEF H!HydrationAssumption, H!Init
  <2>2. /\ task \in [Slots -> Keys \cup {NoKey}]
        /\ phase \in [Slots -> {"free", "fetch", "fetched", "completed"}]
    BY DEF H!Init
  <2>. QED BY <2>1, <2>2 DEF H!Init, H!TypeOK
<1>. QED
  BY <1>1, <1>2, <1>3
     DEF H!Init, HInv, BooksBalance, NoDoubleFetch, NothingForgotten,
         NoneLeftBehind, TasksHaveKeys

(* The inductive invariant of Hydration holds in every reachable state.    *)
THEOREM HydrationInvariance ==
  ASSUME H!HydrationAssumption
  PROVE  H!Spec => []HInv
<1>1. H!Init => HInv
  BY HydrationInit
<1>2. HInv /\ [H!Next]_(H!vars) => HInv'
  BY HydrationStep
<1>. QED BY <1>1, <1>2, PTL DEF H!Spec

(* The queue, the pending and the in-flight keys and the tasks agree after *)
(* every critical section of enqueue, claim_next and complete.             *)
THEOREM BooksAlwaysBalance ==
  ASSUME H!HydrationAssumption
  PROVE  H!Spec => []BooksBalance
<1>1. HInv => BooksBalance
  BY DEF HInv
<1>2. H!Spec => []HInv
  BY HydrationInvariance
<1>. QED BY <1>1, <1>2, PTL

(* No key is fetched by two tasks, nor queued while it is fetched.         *)
THEOREM Deduplication ==
  ASSUME H!HydrationAssumption
  PROVE  H!Spec => []NoDoubleFetch
<1>1. HInv => NoDoubleFetch
  BY DEF HInv
<1>2. H!Spec => []HInv
  BY HydrationInvariance
<1>. QED BY <1>1, <1>2, PTL

(* What enqueue accepted is queued or with a task until it is fetched.     *)
THEOREM NoLostRequest ==
  ASSUME H!HydrationAssumption
  PROVE  H!Spec => []NothingForgotten
<1>1. HInv => NothingForgotten
  BY DEF HInv
<1>2. H!Spec => []HInv
  BY HydrationInvariance
<1>. QED BY <1>1, <1>2, PTL

(* run_hydration_worker returns only when all its fetches have ended.      *)
THEOREM CleanExit ==
  ASSUME H!HydrationAssumption
  PROVE  H!Spec => []H!OffMeansIdle
<1>1. HInv => H!OffMeansIdle
  BY DEF HInv, NoneLeftBehind, H!OffMeansIdle, H!Working, Working
<1>2. H!Spec => []HInv
  BY HydrationInvariance
<1>. QED BY <1>1, <1>2, PTL
=============================================================================
