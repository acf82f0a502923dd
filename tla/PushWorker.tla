----------------------------- MODULE PushWorker -----------------------------
(***************************************************************************)
(* The push worker of sync/push.rs on the push_queue table: filesystem     *)
(* operations enqueue edits, run_push_worker claims, executes and          *)
(* finalizes them, drain_remaining runs once the mount has ended, the      *)
(* process may be killed between any two steps and started again on the    *)
(* same database.                                                          *)
(*                                                                         *)
(* Every lock of the database connection is one step; so is the wait for   *)
(* the server.  An entry is the number of the edit that enqueued it: edits *)
(* of a path are numbered from 1.  latest, acked, server and retried are    *)
(* history: no guard but the bound on edits reads them.                    *)
(***************************************************************************)
EXTENDS Naturals, FiniteSets

CONSTANTS
  Paths, NoRow, NoJob, MaxAttempts,
  MaxEdits,     (* bound: edits of one path                              *)
  MaxStarts,    (* bound: times the process is started; it is not killed
                   in its last life                                      *)
  Outcomes,     (* what a push may come to, see Execute                  *)
  Stops         (* how the process may end: "unmount", "crash"           *)

NoEntry == 0
Entries == 1..MaxEdits

INSTANCE PushQueue

Job == [path: Paths, entry: Entries, attempt: 0..MaxAttempts]

ASSUME WorkerAssumption ==
  /\ NoRow \notin Row
  /\ NoJob \notin Job
  /\ MaxAttempts \in Nat \ {0}
  /\ MaxEdits \in Nat
  /\ MaxStarts \in Nat
  /\ Outcomes # {}
  /\ Outcomes \subseteq {"ok", "transient", "fatal"}
  /\ Stops \subseteq {"unmount", "crash"}

VARIABLES
  queue,      (* the push_queue table                                    *)
  pc,         (* where the worker is: "off" when there is no process     *)
  job,        (* the PushJob that drain_available has claimed            *)
  shutdown,   (* the shutdown watch channel                              *)
  flushing,   (* drain_available was called by drain_remaining           *)
  starts,     (* how often the process was started                       *)
  latest,     (* the newest edit of each path, 0 for none                *)
  acked,      (* the edits finalized as successful                       *)
  server,     (* the edit of each path that the server applied last      *)
  retried     (* the paths of which a push was put off to a retry        *)

process == <<shutdown, flushing, starts>>
history == <<latest, acked, server, retried>>
vars == <<queue, pc, job, process, history>>

(* The worker holds a claimed job. *)
Busy == {"claimed", "ok", "transient", "fatal"}

Init ==
  /\ queue = [p \in Paths |-> NoRow]
  /\ pc = "off"
  /\ job = NoJob
  /\ shutdown = FALSE
  /\ flushing = FALSE
  /\ starts = 0
  /\ latest = [p \in Paths |-> 0]
  /\ acked = [p \in Paths |-> {}]
  /\ server = [p \in Paths |-> 0]
  /\ retried = {}
-----------------------------------------------------------------------------
(* The filesystem's side: flush, unlink and rename end in                  *)
(* push_queue_upsert.  The mount is served from the start of the process   *)
(* until the shutdown signal, which is sent after the mount has ended.     *)
Edit(p) ==
  /\ pc # "off"
  /\ ~ shutdown
  /\ latest[p] < MaxEdits
  /\ latest' = [latest EXCEPT ![p] = latest[p] + 1]
  /\ queue' = [queue EXCEPT ![p] = Upserted(queue[p], latest[p] + 1)]
  /\ UNCHANGED <<pc, job, process, acked, server, retried>>

Unmount ==
  /\ "unmount" \in Stops
  /\ pc # "off"
  /\ ~ shutdown
  /\ shutdown' = TRUE
  /\ UNCHANGED <<queue, pc, job, flushing, starts, history>>

(* updated_at of a row that waits for its backoff passes. *)
BackoffElapses(p) ==
  /\ queue[p] # NoRow
  /\ ~ queue[p].due
  /\ queue' = [queue EXCEPT ![p] = [queue[p] EXCEPT !.due = TRUE]]
  /\ UNCHANGED <<pc, job, process, history>>
-----------------------------------------------------------------------------
(* The select! of run_push_worker: a notification or the 5 s timer... *)
Wake ==
  /\ pc = "select"
  /\ pc' = "drain"
  /\ UNCHANGED <<queue, job, process, history>>

(* ... or the shutdown signal: go to drain_remaining for good. *)
SeeShutdown ==
  /\ pc = "select"
  /\ shutdown
  /\ pc' = "flush"
  /\ flushing' = TRUE
  /\ UNCHANGED <<queue, job, shutdown, starts, history>>

(* drain_available: claim the next job ... *)
ClaimNext(p) ==
  /\ pc = "drain"
  /\ Claimable(queue[p])
  /\ queue' = [queue EXCEPT ![p] = Claimed(queue[p])]
  /\ job' = [path |-> p, entry |-> queue[p].op, attempt |-> queue[p].attempt]
  /\ pc' = "claimed"
  /\ UNCHANGED <<process, history>>

(* ... or return to the caller when there is none. *)
DrainDone ==
  /\ pc = "drain"
  /\ \A p \in Paths : ~ Claimable(queue[p])
  /\ pc' = IF flushing THEN "flush" ELSE "select"
  /\ UNCHANGED <<queue, job, process, history>>

(* A job that was tried MAX_ATTEMPTS times is poisoned without a try. *)
GiveUp ==
  /\ pc = "claimed"
  /\ job.attempt >= MaxAttempts
  /\ queue' = [queue EXCEPT ![job.path] = Poisoned(queue[job.path])]
  /\ job' = NoJob
  /\ pc' = "drain"
  /\ UNCHANGED <<process, history>>

(* Mutant of Execute: a job is tried once more than MAX_ATTEMPTS. *)
ExecuteOneMore ==
  /\ pc = "claimed"
  /\ job.attempt <= MaxAttempts
  /\ \E outcome \in Outcomes : pc' = outcome
  /\ UNCHANGED <<queue, job, process, history>>

(* execute_push: "ok" was applied; "transient" (429, 5xx, no connection)   *)
(* may have been applied with its answer lost; "fatal" (401, 403, 422, an  *)
(* unknown status) was refused, but the client has tried up to five times  *)
(* and an earlier try may have been applied (module ApiClient).            *)
Execute ==
  /\ pc = "claimed"
  /\ job.attempt < MaxAttempts
  /\ \E outcome \in Outcomes, applied \in BOOLEAN :
       /\ outcome = "ok" => applied
       /\ pc' = outcome
       /\ server' = IF applied THEN [server EXCEPT ![job.path] = job.entry]
                    ELSE server
  /\ UNCHANGED <<queue, job, process, latest, acked, retried>>

FinalizeSuccess ==
  /\ pc = "ok"
  /\ queue' = [queue EXCEPT ![job.path] = Succeeded(queue[job.path])]
  /\ acked' = [acked EXCEPT ![job.path] = acked[job.path] \cup {job.entry}]
  /\ job' = NoJob
  /\ pc' = "drain"
  /\ UNCHANGED <<process, latest, server, retried>>

FinalizeFailure ==
  /\ pc = "transient"
  /\ \E row \in Failed(queue[job.path]) :
       queue' = [queue EXCEPT ![job.path] = row]
  /\ retried' = retried \cup {job.path}
  /\ job' = NoJob
  /\ pc' = "drain"
  /\ UNCHANGED <<process, latest, acked, server>>

Poison ==
  /\ pc = "fatal"
  /\ queue' = [queue EXCEPT ![job.path] = Poisoned(queue[job.path])]
  /\ job' = NoJob
  /\ pc' = "drain"
  /\ UNCHANGED <<process, history>>
-----------------------------------------------------------------------------
(* Mutant of FlushTimeout: drain_remaining waits for the table to empty. *)
FlushWaits ==
  /\ pc = "flush"
  /\ \A p \in Paths : queue[p] = NoRow
  /\ pc' = "off"
  /\ UNCHANGED <<queue, job, process, history>>

(* drain_remaining gives up after 30 s or when the table is empty ... *)
FlushTimeout ==
  /\ pc = "flush"
  /\ pc' = "off"
  /\ UNCHANGED <<queue, job, process, history>>

FlushEmpty ==
  /\ pc = "flush"
  /\ \A p \in Paths : queue[p] = NoRow
  /\ pc' = "off"
  /\ UNCHANGED <<queue, job, process, history>>

(* ... and otherwise claims a row, forgets the job and calls               *)
(* drain_available.  With nothing to claim it sleeps and looks again.      *)
FlushClaim(p) ==
  /\ pc = "flush"
  /\ Claimable(queue[p])
  /\ queue' = [queue EXCEPT ![p] = Claimed(queue[p])]
  /\ pc' = "drain"
  /\ UNCHANGED <<job, process, history>>
-----------------------------------------------------------------------------
(* The process ends while the worker runs.  A request that was under way   *)
(* may have reached the server.                                            *)
Halt ==
  /\ pc' = "off"
  /\ job' = NoJob
  /\ \/ UNCHANGED server
     \/ /\ pc = "claimed"
        /\ job.attempt < MaxAttempts
        /\ server' = [server EXCEPT ![job.path] = job.entry]
  /\ UNCHANGED <<queue, process, latest, acked, retried>>

Crash ==
  /\ "crash" \in Stops
  /\ starts < MaxStarts
  /\ pc # "off"
  /\ Halt

(* run_daemon waits 30 s for its tasks to end, then drops them: a push     *)
(* that is waiting for the server is abandoned.                            *)
Abandon ==
  /\ shutdown
  /\ pc = "claimed"
  /\ job.attempt < MaxAttempts
  /\ Halt

(* Db::open leaves push_queue as it finds it. *)
Start ==
  /\ pc = "off"
  /\ starts < MaxStarts
  /\ starts' = starts + 1
  /\ shutdown' = FALSE
  /\ flushing' = FALSE
  /\ pc' = "select"
  /\ UNCHANGED <<queue, job, history>>
-----------------------------------------------------------------------------
WorkerStep ==
  \/ Wake
  \/ DrainDone
  \/ GiveUp
  \/ Execute
  \/ FinalizeSuccess
  \/ FinalizeFailure
  \/ Poison
  \/ FlushTimeout
  \/ FlushEmpty
  \/ \E p \in Paths : ClaimNext(p) \/ FlushClaim(p)

Next ==
  \/ WorkerStep
  \/ SeeShutdown
  \/ Unmount
  \/ Crash
  \/ Abandon
  \/ Start
  \/ \E p \in Paths : Edit(p) \/ BackoffElapses(p)

Spec == Init /\ [][Next]_vars

(* The runtime schedules the worker, requests and timers end, a daemon is  *)
(* started at least once; select! picks a ready branch at random, so it    *)
(* does not overlook the shutdown signal for ever.  Nobody has to edit,    *)
(* unmount or kill.                                                        *)
Fairness ==
  /\ WF_vars(WorkerStep)
  /\ SF_vars(SeeShutdown)
  /\ WF_vars(Start)
  /\ \A p \in Paths : WF_vars(BackoffElapses(p))

FairSpec == Spec /\ Fairness
-----------------------------------------------------------------------------
Entry0 == Entries \cup {NoEntry}

(* The types: a row's attempt count never exceeds MAX_ATTEMPTS. *)
TypeOK ==
  /\ queue \in [Paths -> Row \cup {NoRow}]
  /\ pc \in {"off", "select", "drain", "flush"} \cup Busy
  /\ job \in Job \cup {NoJob}
  /\ shutdown \in BOOLEAN
  /\ flushing \in BOOLEAN
  /\ starts \in 0..MaxStarts
  /\ latest \in [Paths -> Entry0]
  /\ acked \in [Paths -> SUBSET Entries]
  /\ server \in [Paths -> Entry0]
  /\ retried \subseteq Paths

(* While a push runs, its row stays in the table, marked in flight, with   *)
(* the very entry that is being pushed: whatever the filesystem enqueues   *)
(* meanwhile, finalize_success, finalize_failure and poison (which find    *)
(* the row by path alone) finalize the entry that was executed.            *)
JobOwnsRow ==
  pc \in Busy =>
    /\ job # NoJob
    /\ queue[job.path] # NoRow
    /\ queue[job.path].inflight
    /\ queue[job.path].op = job.entry

(* The newest edit of a path is never lost: until the server has           *)
(* acknowledged it, the row of the path holds it as its op or as its       *)
(* pending entry, through coalescing, failures, poisoning and crashes.     *)
LatestRetained ==
  \A p \in Paths :
    \/ latest[p] = 0
    \/ latest[p] \in acked[p]
    \/ latest[p] \in Held(queue[p])

(* A poisoned row is at rest: it is not in flight, and so is never sent.   *)
PoisonedAtRest ==
  \A p \in Paths :
    queue[p] # NoRow /\ queue[p].poisoned => ~ queue[p].inflight

(* What makes the three an induction: a row holds two different edits,     *)
(* none newer than the newest; the claimed job has the attempt count of    *)
(* its row, and was executed only below the maximum.                       *)
RowsConsistent ==
  \A p \in Paths :
    /\ Held(queue[p]) \subseteq 1..latest[p]
    /\ queue[p] # NoRow => queue[p].op # queue[p].pending

JobCounted ==
  pc \in Busy =>
    /\ job # NoJob
    /\ queue[job.path].attempt = job.attempt
    /\ pc # "claimed" => job.attempt < MaxAttempts

IInv ==
  /\ TypeOK
  /\ JobOwnsRow
  /\ LatestRetained
  /\ PoisonedAtRest
  /\ RowsConsistent
  /\ JobCounted

(* A push that is not put off never reorders: a path that has drained      *)
(* without a retry has its newest edit on the server, though edits arrive  *)
(* while pushes run, are abandoned or are cut off by a crash.              *)
DrainedInOrder ==
  \A p \in Paths \ retried : queue[p] = NoRow => server[p] = latest[p]

(* Latest wins: when a path has no row left, what the server applied last  *)
(* is the newest edit.                                                     *)
DrainedIsLatest ==
  \A p \in Paths : queue[p] = NoRow => server[p] = latest[p]

(* The table of sync/push.rs implements the write-back promise.            *)
Kept == [p \in Paths |-> Held(queue[p])]

WB == INSTANCE WriteBack WITH kept <- Kept

Implements == WB!Spec

(* drain_remaining hands every row over to drain_available: whenever it is *)
(* back at the top of its loop no row is in flight.                        *)
FlushLeavesNoneInFlight ==
  pc = "flush" =>
    \A p \in Paths : queue[p] # NoRow => ~ queue[p].inflight

(* An edit leaves the row of its path where the push loop will take it:    *)
(* claimable now, or in flight with the edit pending.                      *)
EditIsPushable ==
  [][\A p \in Paths :
       latest'[p] # latest[p] =>
         Claimable(queue'[p]) \/ queue'[p].inflight]_vars

(* A row that is marked in flight and that nobody is pushing: an earlier   *)
(* process was killed, or drain_remaining forgot its job.                  *)
Stranded(p) ==
  /\ queue[p] # NoRow /\ queue[p].inflight
  /\ ~ (pc \in Busy /\ job.path = p)

(* Every path comes to rest: its newest edit acknowledged, or its row      *)
(* poisoned, if the process is neither killed nor unmounted before, and    *)
(* unless the row was stranded by the process before.                      *)
EveryEditSettles ==
  \A p \in Paths :
    latest[p] # 0 /\ ~ Stranded(p) ~>
      \/ latest[p] \in acked[p]
      \/ queue[p] # NoRow /\ queue[p].poisoned
      \/ shutdown
      \/ pc = "off"

(* Once the mount has ended the worker ends, too.                          *)
ShutdownEnds == shutdown ~> pc = "off"

(* The queue is persistent: a row that is not poisoned does not stay       *)
(* for ever, whatever became of the process that enqueued it.              *)
RowsResume ==
  \A p \in Paths :
    queue[p] # NoRow ~> (queue[p] = NoRow \/ queue[p].poisoned)
=============================================================================
