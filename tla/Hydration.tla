----------------------------- MODULE Hydration -----------------------------
(***************************************************************************)
(* The read-side hydration queue of cache/hydration.rs: a scheduler that   *)
(* drops duplicates, and a worker that runs at most HYDRATION_CONCURRENCY  *)
(* fetches at a time.  Every critical section of the scheduler's mutex is  *)
(* one step.  What they keep, and what has to agree in it, is module       *)
(* HydrationBooks.                                                         *)
(***************************************************************************)
EXTENDS HydrationBooks, Naturals

CONSTANT MaxEnqueues  (* bound: calls of enqueue *)

ASSUME HydrationAssumption == MaxEnqueues \in Nat

VARIABLES
  pc,       (* the worker *)
  shutdown,
  calls

scheduler == <<queue, pending, inflight, recent>>
vars == <<scheduler, pc, task, phase, shutdown, calls, owed>>

Init ==
  /\ queue = <<>> /\ pending = {} /\ inflight = {} /\ recent = {}
  /\ pc = "select"
  /\ task = [s \in Slots |-> NoKey]
  /\ phase = [s \in Slots |-> "free"]
  /\ shutdown = FALSE
  /\ calls = 0
  /\ owed = {}
-----------------------------------------------------------------------------
(* Mutant of Enqueue: a key that is being fetched is queued again. *)
EnqueueInFlight(k) ==
  /\ calls < MaxEnqueues /\ calls' = calls + 1
  /\ IF k \in recent \cup pending
     THEN UNCHANGED <<queue, pending, owed>>
     ELSE /\ queue' = Append(queue, k)
          /\ pending' = pending \cup {k}
          /\ owed' = owed \cup {k}
  /\ UNCHANGED <<inflight, recent, pc, task, phase, shutdown>>

(* enqueue: a key that was just completed, waits or is being fetched is    *)
(* dropped.                                                                *)
Enqueue(k) ==
  /\ calls < MaxEnqueues /\ calls' = calls + 1
  /\ IF k \in recent \cup pending \cup inflight
     THEN UNCHANGED <<queue, pending, owed>>
     ELSE /\ queue' = Append(queue, k)
          /\ pending' = pending \cup {k}
          /\ owed' = owed \cup {k}
  /\ UNCHANGED <<inflight, recent, pc, task, phase, shutdown>>

(* NEGATIVE_TTL has passed since k completed: the next enqueue forgets it. *)
Expire(k) ==
  /\ k \in recent
  /\ recent' = recent \ {k}
  /\ UNCHANGED <<queue, pending, inflight, pc, task, phase, shutdown, calls,
                 owed>>

Shutdown ==
  /\ ~ shutdown
  /\ shutdown' = TRUE
  /\ UNCHANGED <<scheduler, pc, task, phase, calls, owed>>
-----------------------------------------------------------------------------
(* run_hydration_worker: a notification or the 500 ms timer ...            *)
Wake ==
  /\ pc = "select"
  /\ pc' = "spawn"
  /\ UNCHANGED <<scheduler, task, phase, shutdown, calls, owed>>

(* ... or the shutdown signal, which the inner loop checks as well ...     *)
Leave ==
  /\ pc \in {"select", "spawn"}
  /\ shutdown
  /\ pc' = "join"
  /\ UNCHANGED <<scheduler, task, phase, shutdown, calls, owed>>

(* ... before each key, some time before it claims it.                     *)
GoOn ==
  /\ pc = "spawn" /\ ~ shutdown
  /\ pc' = "claim"
  /\ UNCHANGED <<scheduler, task, phase, shutdown, calls, owed>>

(* A permit and claim_next: spawn the fetch of the oldest key.             *)
Spawn(s) ==
  /\ pc = "claim" /\ pc' = "spawn"
  /\ phase[s] = "free"
  /\ queue # <<>>
  /\ queue' = Tail(queue)
  /\ pending' = pending \ {Head(queue)}
  /\ inflight' = inflight \cup {Head(queue)}
  /\ task' = [task EXCEPT ![s] = Head(queue)]
  /\ phase' = [phase EXCEPT ![s] = "fetch"]
  /\ UNCHANGED <<recent, shutdown, calls, owed>>

(* Mutant of SpawnDone: the key is claimed before the permit is tried. *)
ClaimBeforePermit ==
  /\ pc = "claim"
  /\ queue = <<>> \/ \A s \in Slots : phase[s] # "free"
  /\ pc' = "select"
  /\ IF queue = <<>> THEN UNCHANGED <<queue, pending>>
     ELSE queue' = Tail(queue) /\ pending' = pending \ {Head(queue)}
  /\ UNCHANGED <<inflight, recent, task, phase, shutdown, calls, owed>>

(* No permit or no key: back to the select.                                *)
SpawnDone ==
  /\ pc = "claim"
  /\ queue = <<>> \/ \A s \in Slots : phase[s] # "free"
  /\ pc' = "select"
  /\ UNCHANGED <<scheduler, task, phase, shutdown, calls, owed>>

(* hydrate_path returns, one way or the other.                             *)
Fetched(s) ==
  /\ phase[s] = "fetch"
  /\ phase' = [phase EXCEPT ![s] = "fetched"]
  /\ owed' = owed \ {task[s]}
  /\ UNCHANGED <<scheduler, pc, task, shutdown, calls>>

Complete(s) ==
  /\ phase[s] = "fetched"
  /\ inflight' = inflight \ {task[s]}
  /\ recent' = recent \cup {task[s]}
  /\ phase' = [phase EXCEPT ![s] = "completed"]
  /\ UNCHANGED <<queue, pending, pc, task, shutdown, calls, owed>>

(* The task ends and drops its permit.                                     *)
Release(s) ==
  /\ phase[s] = "completed"
  /\ phase' = [phase EXCEPT ![s] = "free"]
  /\ task' = [task EXCEPT ![s] = NoKey]
  /\ UNCHANGED <<scheduler, pc, shutdown, calls, owed>>

(* Mutant of Joined: the queue has to be empty. *)
JoinedDrained ==
  /\ pc = "join" /\ queue = <<>>
  /\ \A s \in Slots : phase[s] = "free"
  /\ pc' = "off"
  /\ UNCHANGED <<scheduler, task, phase, shutdown, calls, owed>>

(* The worker joins its tasks before it returns.                           *)
Joined ==
  /\ pc = "join"
  /\ \A s \in Slots : phase[s] = "free"
  /\ pc' = "off"
  /\ UNCHANGED <<scheduler, task, phase, shutdown, calls, owed>>
-----------------------------------------------------------------------------
WorkerStep == Wake \/ GoOn \/ SpawnDone \/ Joined \/ \E s \in Slots : Spawn(s)

TaskStep(s) == Fetched(s) \/ Complete(s) \/ Release(s)

Next ==
  \/ WorkerStep
  \/ Leave
  \/ Shutdown
  \/ \E s \in Slots : TaskStep(s)
  \/ \E k \in Keys : Enqueue(k) \/ Expire(k)

Spec == Init /\ [][Next]_vars

(* The runtime runs the worker and its tasks, requests end; select! does   *)
(* not overlook the shutdown signal for ever.                              *)
FairSpec ==
  /\ Spec
  /\ WF_vars(WorkerStep)
  /\ SF_vars(Leave)
  /\ \A s \in Slots : WF_vars(TaskStep(s))
-----------------------------------------------------------------------------
(* The types: the sets hold keys and a task that has one completes it. *)
TypeOK ==
  /\ queue \in Seq(Keys)
  /\ pending \subseteq Keys
  /\ inflight \subseteq Keys
  /\ recent \subseteq Keys
  /\ pc \in {"select", "spawn", "claim", "join", "off"}
  /\ task \in [Slots -> Keys \cup {NoKey}]
  /\ phase \in [Slots -> {"free", "fetch", "fetched", "completed"}]
  /\ shutdown \in BOOLEAN
  /\ calls \in 0..MaxEnqueues
  /\ owed \subseteq Keys

(* The worker returns only after every fetch it started has ended.         *)
OffMeansIdle == pc = "off" => inflight = {} /\ Working = {}

(* Unless the daemon shuts down, an accepted key is fetched ...            *)
EveryKeyFetched == \A k \in Keys : k \in owed ~> (k \notin owed \/ shutdown)

(* ... and if it does, the worker ends.                                    *)
ShutdownEnds == shutdown ~> pc = "off"
=============================================================================
