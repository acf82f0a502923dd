-------------------------- MODULE PushWorkerProofs --------------------------
(***************************************************************************)
(* Proofs about PushWorker: its safety invariants, and that it implements  *)
(* WriteBack, for every set of paths, every bound and every way the server *)
(* answers and the process ends.                                           *)
(***************************************************************************)
EXTENDS PushWorker, TLAPS

(* The assumptions on the constants, in the form the proofs use. *)
LEMMA ConstantFacts ==
  /\ NoRow \notin Row
  /\ NoJob \notin Job
  /\ NoEntry \notin Entries
  /\ MaxAttempts \in Nat
  /\ 0 \in 0..MaxAttempts
BY WorkerAssumption DEF Entries, NoEntry

(* Facts about the row operators of PushQueue. *)

(* push_queue_upsert yields a row that holds the new entry, and no entry   *)
(* that the old row did not hold.                                          *)
LEMMA UpsertedFacts ==
  ASSUME NEW row \in Row \cup {NoRow}, NEW e \in Entries
  PROVE  /\ Upserted(row, e) \in Row
         /\ e \in Held(Upserted(row, e))
         /\ Held(Upserted(row, e)) \subseteq Held(row) \cup {e}
<1>. DEFINE new == Upserted(row, e)
<1>1. CASE row = NoRow
  <2>1. new = Fresh(e)
    BY <1>1 DEF Upserted
  <2>2. /\ Fresh(e) \in Row
        /\ Fresh(e).op = e
        /\ Fresh(e).pending = NoEntry
    BY ConstantFacts DEF Fresh, Row
  <2>. QED BY <2>1, <2>2, ConstantFacts DEF Held
<1>2. CASE row # NoRow /\ row.inflight
  <2>1. new = [row EXCEPT !.pending = e, !.due = TRUE]
    BY <1>2 DEF Upserted
  <2>2. new \in Row /\ new.op = row.op /\ new.pending = e
    BY <1>2, <2>1 DEF Row
  <2>. QED BY <1>2, <2>2, ConstantFacts DEF Held
<1>3. CASE row # NoRow /\ ~ row.inflight
  <2>1. new = [row EXCEPT !.op = e, !.attempt = 0, !.due = TRUE]
    BY <1>3 DEF Upserted
  <2>2. new \in Row /\ new.op = e /\ new.pending = row.pending
    BY <1>3, <2>1, ConstantFacts DEF Row
  <2>. QED BY <1>3, <2>2, ConstantFacts DEF Held
<1>. QED BY <1>1, <1>2, <1>3

(* Claiming, poisoning and the passing of a backoff keep what a row holds. *)
LEMMA RestFacts ==
  ASSUME NEW row \in Row
  PROVE  /\ Claimed(row) \in Row /\ Held(Claimed(row)) = Held(row)
         /\ Poisoned(row) \in Row /\ Held(Poisoned(row)) = Held(row)
         /\ [row EXCEPT !.due = TRUE] \in Row
         /\ Held([row EXCEPT !.due = TRUE]) = Held(row)
<1>1. /\ Claimed(row) \in Row
      /\ Claimed(row).op = row.op /\ Claimed(row).pending = row.pending
  BY DEF Claimed, Row
<1>2. /\ Poisoned(row) \in Row
      /\ Poisoned(row).op = row.op /\ Poisoned(row).pending = row.pending
  BY DEF Poisoned, Row
<1>3. LET due == [row EXCEPT !.due = TRUE]
      IN  due \in Row /\ due.op = row.op /\ due.pending = row.pending
  BY DEF Row
<1>. QED BY <1>1, <1>2, <1>3, ConstantFacts DEF Held

(* A failed push keeps what its row holds. *)
LEMMA FailedFacts ==
  ASSUME NEW row \in Row, row.attempt < MaxAttempts, NEW r \in Failed(row)
  PROVE  /\ r \in Row
         /\ Held(r) = Held(row)
         /\ ~ r.inflight
         /\ r.op = row.op /\ r.pending = row.pending
         /\ r.poisoned = row.poisoned
<1>1. PICK d \in BOOLEAN :
        r = [row EXCEPT !.inflight = FALSE, !.attempt = row.attempt + 1,
                        !.due = d]
  BY DEF Failed
<1>2. row.attempt + 1 \in 0..MaxAttempts
  BY ConstantFacts DEF Row
<1>3. /\ r \in Row /\ r.op = row.op /\ r.pending = row.pending
      /\ r.poisoned = row.poisoned /\ r.inflight = FALSE
  BY <1>1, <1>2 DEF Row
<1>. QED BY <1>3, ConstantFacts DEF Held

(* finalize_success drops exactly the entry that was pushed. *)
LEMMA SucceededFacts ==
  ASSUME NEW row \in Row, row.op # row.pending
  PROVE  /\ Succeeded(row) \in Row \cup {NoRow}
         /\ Held(Succeeded(row)) = Held(row) \ {row.op}
         /\ Succeeded(row) # NoRow =>
              /\ ~ Succeeded(row).inflight
              /\ Succeeded(row).poisoned = row.poisoned
              /\ Succeeded(row).pending = NoEntry
              /\ Succeeded(row).op = row.pending
              /\ row.pending # NoEntry
<1>1. CASE row.pending = NoEntry
  BY <1>1, ConstantFacts DEF Succeeded, Held
<1>2. CASE row.pending # NoEntry
  <2>1. Succeeded(row) = [row EXCEPT !.op = row.pending, !.pending = NoEntry,
                            !.inflight = FALSE, !.attempt = 0, !.due = TRUE]
    BY <1>2 DEF Succeeded
  <2>2. /\ Succeeded(row) \in Row
        /\ Succeeded(row).op = row.pending
        /\ Succeeded(row).pending = NoEntry
        /\ Succeeded(row).inflight = FALSE
        /\ Succeeded(row).poisoned = row.poisoned
    BY <1>2, <2>1, ConstantFacts DEF Row
  <2>3. row.op \in Entries
    BY DEF Row
  <2>. QED BY <1>2, <2>2, <2>3, ConstantFacts DEF Held
<1>. QED BY <1>1, <1>2
-----------------------------------------------------------------------------
(* The inductive step, one lemma per group of actions. *)

(* An edit touches one row; in flight, only its pending entry. *)
LEMMA EditStep ==
  ASSUME IInv, NEW p \in Paths, Edit(p)
  PROVE  IInv'
<1>. DEFINE e == latest[p] + 1
            row == queue[p]
            new == Upserted(queue[p], latest[p] + 1)
<1>. USE DEF IInv
<1>1. /\ e \in Entries /\ row \in Row \cup {NoRow} /\ latest[p] \in Nat
      /\ queue \in [Paths -> Row \cup {NoRow}]
      /\ latest \in [Paths -> Entry0]
  BY WorkerAssumption DEF Edit, TypeOK, Entry0, Entries, NoEntry
<1>2. /\ new \in Row
      /\ e \in Held(new)
      /\ Held(new) \subseteq Held(row) \cup {e}
  BY <1>1, UpsertedFacts
<1>3. /\ queue' = [queue EXCEPT ![p] = new]
      /\ latest' = [latest EXCEPT ![p] = e]
      /\ UNCHANGED <<pc, job, process, acked, server, retried>>
  BY DEF Edit
<1>4. row # NoRow /\ row.inflight =>
        new.op = row.op /\ new.inflight /\ new.attempt = row.attempt
  BY <1>1 DEF Upserted, Row
<1>5. row # NoRow => new.inflight = row.inflight /\ new.poisoned = row.poisoned
  BY <1>1 DEF Upserted, Row
<1>6. row = NoRow => new.inflight = FALSE /\ new.poisoned = FALSE
  BY DEF Upserted, Fresh
<1>7. TypeOK'
  <2>1. queue' \in [Paths -> Row \cup {NoRow}]
    BY <1>1, <1>2, <1>3
  <2>2. latest' \in [Paths -> Entry0]
    BY <1>1, <1>3 DEF Entry0
  <2>. QED BY <1>3, <2>1, <2>2 DEF TypeOK, process
<1>8. JobOwnsRow'
  BY <1>1, <1>2, <1>3, <1>4, ConstantFacts DEF JobOwnsRow, TypeOK, Busy, Job
<1>9. JobCounted'
  BY <1>1, <1>3, <1>4 DEF JobCounted, JobOwnsRow, TypeOK, Busy, Job
<1>10. LatestRetained'
  BY <1>1, <1>2, <1>3 DEF LatestRetained
<1>11. PoisonedAtRest'
  BY <1>1, <1>3, <1>5, <1>6 DEF PoisonedAtRest
<1>12. RowsConsistent'
  <2>1. Held(new) \subseteq 1..e
    BY <1>1, <1>2 DEF RowsConsistent
  <2>2. new.op # new.pending
    <3>1. CASE row = NoRow
      BY <3>1, <1>1, ConstantFacts DEF Upserted, Fresh
    <3>2. CASE row # NoRow /\ row.inflight
      <4>1. new.op = row.op /\ new.pending = e
        BY <1>1, <3>2 DEF Upserted, Row
      <4>2. row.op \in 1..latest[p]
        BY <1>1, <3>2, ConstantFacts DEF RowsConsistent, Held, Row
      <4>. QED BY <1>1, <4>1, <4>2
    <3>3. CASE row # NoRow /\ ~ row.inflight
      <4>1. new.op = e /\ new.pending = row.pending
        BY <1>1, <3>3 DEF Upserted, Row
      <4>2. row.pending = NoEntry \/ row.pending \in 1..latest[p]
        BY <1>1, <3>3 DEF RowsConsistent, Held
      <4>. QED BY <1>1, <4>1, <4>2, ConstantFacts
    <3>. QED BY <3>1, <3>2, <3>3
  <2>. QED BY <1>1, <1>3, <2>1, <2>2 DEF RowsConsistent
<1>. QED BY <1>7, <1>8, <1>9, <1>10, <1>11, <1>12

(* A claim marks a row that is at rest and not poisoned. *)
LEMMA ClaimStep ==
  ASSUME IInv, NEW p \in Paths, ClaimNext(p) \/ FlushClaim(p)
  PROVE  IInv'
<1>. DEFINE row == queue[p]
            new == Claimed(queue[p])
<1>. USE DEF IInv
<1>1. /\ row \in Row
      /\ queue \in [Paths -> Row \cup {NoRow}]
      /\ row # NoRow /\ ~ row.inflight /\ ~ row.poisoned
      /\ queue' = [queue EXCEPT ![p] = new]
      /\ UNCHANGED <<process, latest, acked, server, retried>>
      /\ pc \in {"drain", "flush"}
  BY DEF ClaimNext, FlushClaim, Claimable, TypeOK, history
<1>2. /\ new \in Row /\ Held(new) = Held(row)
      /\ new.op = row.op /\ new.pending = row.pending /\ new.inflight
      /\ new.attempt = row.attempt /\ new.poisoned = FALSE
  BY <1>1, RestFacts DEF Claimed, Row
<1>3. \/ /\ pc' = "claimed"
         /\ job' = [path |-> p, entry |-> row.op, attempt |-> row.attempt]
      \/ pc' = "drain" /\ job' = job
  BY DEF ClaimNext, FlushClaim
<1>4. [path |-> p, entry |-> row.op, attempt |-> row.attempt] \in Job
  BY <1>1 DEF Job, Row
<1>5. TypeOK'
  BY <1>1, <1>2, <1>3, <1>4 DEF TypeOK, process, Busy
<1>6. JobOwnsRow' /\ JobCounted'
  BY <1>1, <1>2, <1>3, <1>4, ConstantFacts DEF JobOwnsRow, JobCounted, Busy
<1>7. LatestRetained'
  BY <1>1, <1>2 DEF LatestRetained
<1>8. PoisonedAtRest'
  BY <1>1, <1>2 DEF PoisonedAtRest
<1>9. RowsConsistent'
  BY <1>1, <1>2 DEF RowsConsistent
<1>. QED BY <1>5, <1>6, <1>7, <1>8, <1>9

(* What the three finalizing steps know of the row they finalize. *)
LEMMA BusyFacts ==
  ASSUME IInv, pc \in Busy
  PROVE  /\ job \in Job /\ job.path \in Paths
         /\ queue[job.path] \in Row
         /\ queue[job.path].op = job.entry
         /\ queue[job.path].op # queue[job.path].pending
         /\ ~ queue[job.path].poisoned
         /\ pc # "claimed" => queue[job.path].attempt < MaxAttempts
<1>1. job \in Job /\ job.path \in Paths
  BY DEF IInv, TypeOK, JobOwnsRow, Job
<1>. QED
  BY <1>1, ConstantFacts
     DEF IInv, TypeOK, JobOwnsRow, PoisonedAtRest, RowsConsistent, JobCounted

(* Poisoning, after a fatal answer or the last attempt. *)
LEMMA PoisonStep ==
  ASSUME IInv, GiveUp \/ Poison
  PROVE  IInv'
<1>. DEFINE p == job.path
            row == queue[job.path]
            new == Poisoned(queue[job.path])
<1>. USE DEF IInv
<1>1. /\ pc \in Busy /\ pc' = "drain" /\ job' = NoJob
      /\ queue' = [queue EXCEPT ![p] = new]
      /\ UNCHANGED <<process, latest, acked, server, retried>>
  BY DEF GiveUp, Poison, Busy, history
<1>2. p \in Paths /\ row \in Row /\ queue \in [Paths -> Row \cup {NoRow}]
  BY <1>1, BusyFacts DEF TypeOK
<1>3. /\ new \in Row /\ Held(new) = Held(row)
      /\ new.op = row.op /\ new.pending = row.pending /\ ~ new.inflight
  BY <1>2, RestFacts DEF Poisoned, Row
<1>4. TypeOK'
  BY <1>1, <1>2, <1>3 DEF TypeOK, process
<1>5. JobOwnsRow' /\ JobCounted'
  BY <1>1 DEF JobOwnsRow, JobCounted, Busy
<1>6. LatestRetained'
  BY <1>1, <1>2, <1>3 DEF LatestRetained
<1>7. PoisonedAtRest'
  BY <1>1, <1>2, <1>3 DEF PoisonedAtRest
<1>8. RowsConsistent'
  BY <1>1, <1>2, <1>3, ConstantFacts, BusyFacts DEF RowsConsistent
<1>. QED BY <1>4, <1>5, <1>6, <1>7, <1>8

(* A failure returns the row to the queue with everything it holds. *)
LEMMA FailureStep ==
  ASSUME IInv, FinalizeFailure
  PROVE  IInv'
<1>. DEFINE p == job.path
            row == queue[job.path]
<1>. USE DEF IInv
<1>1. PICK new \in Failed(row) : queue' = [queue EXCEPT ![p] = new]
  BY DEF FinalizeFailure
<1>2. /\ pc = "transient" /\ pc' = "drain" /\ job' = NoJob
      /\ UNCHANGED <<process, latest, acked, server>>
      /\ retried' = retried \cup {p}
  BY DEF FinalizeFailure
<1>3. /\ p \in Paths /\ row \in Row /\ row.attempt < MaxAttempts
      /\ row.op # row.pending
      /\ queue \in [Paths -> Row \cup {NoRow}]
  BY <1>2, BusyFacts DEF TypeOK, Busy
<1>4. /\ new \in Row /\ Held(new) = Held(row) /\ ~ new.inflight
      /\ new.op = row.op /\ new.pending = row.pending
  BY <1>1, <1>3, FailedFacts
<1>5. TypeOK'
  BY <1>1, <1>2, <1>3, <1>4 DEF TypeOK, process
<1>6. JobOwnsRow' /\ JobCounted'
  BY <1>2 DEF JobOwnsRow, JobCounted, Busy
<1>7. LatestRetained'
  BY <1>1, <1>2, <1>3, <1>4 DEF LatestRetained
<1>8. PoisonedAtRest'
  BY <1>1, <1>3, <1>4 DEF PoisonedAtRest
<1>9. RowsConsistent'
  BY <1>1, <1>2, <1>3, <1>4 DEF RowsConsistent
<1>. QED BY <1>5, <1>6, <1>7, <1>8, <1>9

(* A success drops the entry it acknowledges and nothing else. *)
LEMMA SuccessStep ==
  ASSUME IInv, FinalizeSuccess
  PROVE  IInv'
<1>. DEFINE p == job.path
            row == queue[job.path]
            new == Succeeded(queue[job.path])
<1>. USE DEF IInv
<1>1. /\ pc = "ok" /\ pc' = "drain" /\ job' = NoJob
      /\ queue' = [queue EXCEPT ![p] = new]
      /\ acked' = [acked EXCEPT ![p] = acked[p] \cup {job.entry}]
      /\ UNCHANGED <<process, latest, server, retried>>
  BY DEF FinalizeSuccess
<1>2. /\ p \in Paths /\ row \in Row /\ row.op = job.entry
      /\ row.op # row.pending /\ ~ row.poisoned
      /\ queue \in [Paths -> Row \cup {NoRow}]
      /\ acked \in [Paths -> SUBSET Entries]
  BY <1>1, BusyFacts DEF TypeOK, Busy
<1>3. /\ new \in Row \cup {NoRow}
      /\ Held(new) = Held(row) \ {job.entry}
      /\ new # NoRow => /\ ~ new.poisoned
                        /\ new.op = row.pending /\ new.pending = NoEntry
                        /\ row.pending # NoEntry
  BY <1>2, SucceededFacts
<1>4. TypeOK'
  <2>1. job.entry \in Entries
    BY <1>2 DEF Row
  <2>. QED BY <1>1, <1>2, <1>3, <2>1 DEF TypeOK, process
<1>5. JobOwnsRow' /\ JobCounted'
  BY <1>1 DEF JobOwnsRow, JobCounted, Busy
<1>6. LatestRetained'
  BY <1>1, <1>2, <1>3 DEF LatestRetained
<1>7. PoisonedAtRest'
  BY <1>1, <1>2, <1>3 DEF PoisonedAtRest
<1>8. RowsConsistent'
  BY <1>1, <1>2, <1>3 DEF RowsConsistent
<1>. QED BY <1>4, <1>5, <1>6, <1>7, <1>8

(* A backoff that ends makes its row due and changes nothing else. *)
LEMMA BackoffStep ==
  ASSUME IInv, NEW p \in Paths, BackoffElapses(p)
  PROVE  IInv'
<1>. DEFINE row == queue[p]
            new == [queue[p] EXCEPT !.due = TRUE]
<1>. USE DEF IInv
<1>1. /\ row \in Row
      /\ queue \in [Paths -> Row \cup {NoRow}]
      /\ queue' = [queue EXCEPT ![p] = new]
      /\ UNCHANGED <<pc, job, process, latest, acked, server, retried>>
  BY DEF BackoffElapses, TypeOK, history
<1>2. /\ new \in Row /\ Held(new) = Held(row)
      /\ new.op = row.op /\ new.pending = row.pending
      /\ new.inflight = row.inflight /\ new.poisoned = row.poisoned
      /\ new.attempt = row.attempt
  BY <1>1, RestFacts DEF Row
<1>3. TypeOK'
  BY <1>1, <1>2 DEF TypeOK, process
<1>4. JobOwnsRow' /\ JobCounted'
  BY <1>1, <1>2, ConstantFacts DEF JobOwnsRow, JobCounted, TypeOK, Job, Busy
<1>5. LatestRetained'
  BY <1>1, <1>2 DEF LatestRetained
<1>6. PoisonedAtRest'
  BY <1>1, <1>2, ConstantFacts DEF PoisonedAtRest
<1>7. RowsConsistent'
  BY <1>1, <1>2, ConstantFacts DEF RowsConsistent
<1>. QED BY <1>3, <1>4, <1>5, <1>6, <1>7

(* The steps that leave the table and the history of edits alone. *)
LEMMA ControlStep ==
  ASSUME IInv,
         \/ Wake \/ SeeShutdown \/ DrainDone \/ Execute \/ FlushTimeout
         \/ FlushEmpty \/ Unmount \/ Crash \/ Abandon \/ Start
         \/ UNCHANGED vars
  PROVE  IInv'
<1>. USE DEF IInv
<1>1. UNCHANGED <<queue, latest, acked, retried>>
  BY DEF Wake, SeeShutdown, DrainDone, Execute, FlushTimeout, FlushEmpty,
         Unmount, Crash, Abandon, Halt, Start, vars, history
<1>2. LatestRetained' /\ PoisonedAtRest' /\ RowsConsistent'
  BY <1>1 DEF LatestRetained, PoisonedAtRest, RowsConsistent
<1>3. \/ pc' \notin Busy /\ job' \in {job, NoJob}
      \/ UNCHANGED <<pc, job>>
      \/ Execute
  BY DEF Wake, SeeShutdown, DrainDone, FlushTimeout, FlushEmpty,
         Unmount, Crash, Abandon, Halt, Start, vars, history, Busy
<1>4. JobOwnsRow' /\ JobCounted'
  <2>1. CASE pc' \notin Busy \/ UNCHANGED <<pc, job>>
    BY <1>1, <2>1 DEF JobOwnsRow, JobCounted
  <2>2. CASE Execute
    BY <1>1, <2>2 DEF Execute, JobOwnsRow, JobCounted, Busy
  <2>. QED BY <1>3, <2>1, <2>2
<1>5. pc' \in {"off", "select", "drain", "flush"} \cup Busy
  BY WorkerAssumption
     DEF TypeOK, Wake, SeeShutdown, DrainDone, Execute, FlushTimeout,
         FlushEmpty, Unmount, Crash, Abandon, Halt, Start, vars, history, Busy
<1>6. job' \in Job \cup {NoJob}
  BY <1>3 DEF TypeOK, Execute
<1>7. /\ shutdown' \in BOOLEAN /\ flushing' \in BOOLEAN
      /\ starts' \in 0..MaxStarts
  <2>1. CASE Start
    <3>1. MaxStarts \in Nat
      BY WorkerAssumption
    <3>2. starts' \in 0..MaxStarts
      BY <2>1, <3>1 DEF Start, TypeOK
    <3>. QED BY <2>1, <3>2 DEF Start
  <2>2. CASE ~ Start
    <3>1. UNCHANGED starts
      BY <2>2
         DEF Wake, SeeShutdown, DrainDone, Execute, FlushTimeout, FlushEmpty,
             Unmount, Crash, Abandon, Halt, vars, process
    <3>2. shutdown' \in {shutdown, TRUE} /\ flushing' \in {flushing, TRUE}
      BY <2>2
         DEF Wake, SeeShutdown, DrainDone, Execute, FlushTimeout, FlushEmpty,
             Unmount, Crash, Abandon, Halt, vars, process
    <3>. QED BY <3>1, <3>2 DEF TypeOK
  <2>. QED BY <2>1, <2>2
<1>8. server' \in [Paths -> Entry0]
  <2>1. CASE UNCHANGED server
    BY <2>1 DEF TypeOK
  <2>2. CASE /\ pc = "claimed"
             /\ server' = [server EXCEPT ![job.path] = job.entry]
    <3>1. job.entry \in Entry0
      BY <2>2, BusyFacts DEF Busy, Job, Entry0
    <3>. QED BY <2>2, <3>1 DEF TypeOK
  <2>. QED
    BY <2>1, <2>2
       DEF Wake, SeeShutdown, DrainDone, Execute, FlushTimeout, FlushEmpty,
           Unmount, Crash, Abandon, Halt, Start, vars, history
<1>9. TypeOK'
  BY <1>1, <1>5, <1>6, <1>7, <1>8 DEF TypeOK
<1>. QED BY <1>2, <1>4, <1>9

LEMMA InvStep == IInv /\ [Next]_vars => IInv'
BY EditStep, ClaimStep, PoisonStep, FailureStep, SuccessStep, BackoffStep,
   ControlStep
   DEF Next, WorkerStep

LEMMA InvInit == Init => IInv
<1>. SUFFICES ASSUME Init PROVE IInv
  OBVIOUS
<1>1. TypeOK
  <2>1. /\ queue \in [Paths -> Row \cup {NoRow}]
        /\ latest \in [Paths -> Entry0]
        /\ acked \in [Paths -> SUBSET Entries]
        /\ server \in [Paths -> Entry0]
    BY DEF Init, Entry0, NoEntry
  <2>2. starts \in 0..MaxStarts
    BY WorkerAssumption DEF Init
  <2>. QED BY <2>1, <2>2 DEF Init, TypeOK
<1>2. JobOwnsRow /\ JobCounted
  BY DEF Init, JobOwnsRow, JobCounted, Busy
<1>3. LatestRetained /\ PoisonedAtRest
  BY DEF Init, LatestRetained, PoisonedAtRest
<1>4. RowsConsistent
  BY DEF Init, RowsConsistent, Held
<1>. QED BY <1>1, <1>2, <1>3, <1>4 DEF IInv

(* The inductive invariant of PushWorker holds in every reachable state.   *)
THEOREM Invariance == Spec => []IInv
BY InvInit, InvStep, PTL DEF Spec

(* Every variable keeps its type; attempt counts never pass MAX_ATTEMPTS.  *)
THEOREM TypeCorrect == Spec => []TypeOK
<1>1. IInv => TypeOK
  BY DEF IInv
<1>. QED BY <1>1, Invariance, PTL

(* finalize_success, finalize_failure and poison, which name only a path,  *)
(* always meet the entry that was executed.                                *)
THEOREM FinalizeMeetsJob == Spec => []JobOwnsRow
<1>1. IInv => JobOwnsRow
  BY DEF IInv
<1>. QED BY <1>1, Invariance, PTL

(* The newest edit of a path is in its row until it is acknowledged.       *)
THEOREM NoLostEdit == Spec => []LatestRetained
<1>1. IInv => LatestRetained
  BY DEF IInv
<1>. QED BY <1>1, Invariance, PTL

(* A poisoned row is never in flight.                                      *)
THEOREM PoisonIsFinal == Spec => []PoisonedAtRest
<1>1. IInv => PoisonedAtRest
  BY DEF IInv
<1>. QED BY <1>1, Invariance, PTL
-----------------------------------------------------------------------------
(* Ordering.  The row of a path that was never put off to a retry has its  *)
(* newest edit where it will be pushed last: as its op if nothing is       *)
(* pending, and otherwise as the pending entry of a row in flight.         *)
NewestLast ==
  \A p \in Paths \ retried :
    queue[p] # NoRow /\ ~ queue[p].poisoned =>
      \/ queue[p].pending = NoEntry /\ queue[p].op = latest[p]
      \/ queue[p].inflight /\ queue[p].pending = latest[p]

(* What was executed is on the server until it is finalized.               *)
ExecutedApplied == pc = "ok" => server[job.path] = job.entry

OInv == DrainedInOrder /\ NewestLast /\ ExecutedApplied

LEMMA EditOrder ==
  ASSUME IInv, OInv, NEW p \in Paths, Edit(p)
  PROVE  OInv'
<1>. DEFINE e == latest[p] + 1
            row == queue[p]
            new == Upserted(queue[p], latest[p] + 1)
<1>1. /\ queue \in [Paths -> Row \cup {NoRow}] /\ row \in Row \cup {NoRow}
      /\ latest \in [Paths -> Entry0] /\ e \in Entries
      /\ queue' = [queue EXCEPT ![p] = new]
      /\ latest' = [latest EXCEPT ![p] = e]
      /\ UNCHANGED <<pc, job, server, retried>>
  BY WorkerAssumption DEF IInv, Edit, TypeOK, Entry0, Entries, NoEntry
<1>2. new # NoRow
  BY <1>1, UpsertedFacts, ConstantFacts
<1>3. DrainedInOrder'
  BY <1>1, <1>2 DEF OInv, DrainedInOrder
<1>4. p \notin retried /\ ~ new.poisoned =>
        \/ new.pending = NoEntry /\ new.op = e
        \/ new.inflight /\ new.pending = e
  <2>1. CASE row = NoRow
    BY <2>1 DEF Upserted, Fresh
  <2>2. CASE row # NoRow /\ row.inflight
    BY <1>1, <2>2 DEF Upserted, Row
  <2>3. CASE row # NoRow /\ ~ row.inflight
    <3>1. /\ new.op = e /\ new.pending = row.pending
          /\ new.poisoned = row.poisoned
      BY <1>1, <2>3 DEF Upserted, Row
    <3>. QED BY <2>3, <3>1 DEF OInv, NewestLast
  <2>. QED BY <2>1, <2>2, <2>3
<1>5. NewestLast'
  BY <1>1, <1>4 DEF OInv, NewestLast
<1>6. ExecutedApplied'
  BY <1>1 DEF OInv, ExecutedApplied
<1>. QED BY <1>3, <1>5, <1>6 DEF OInv

(* A success ends a push of the newest edit, or has a newer one to promote. *)
LEMMA SuccessOrder ==
  ASSUME IInv, OInv, FinalizeSuccess
  PROVE  OInv'
<1>. DEFINE p == job.path
            row == queue[job.path]
            new == Succeeded(queue[job.path])
<1>1. /\ pc = "ok" /\ pc' = "drain"
      /\ queue' = [queue EXCEPT ![p] = new]
      /\ UNCHANGED <<latest, server, retried>>
  BY DEF FinalizeSuccess
<1>2. /\ p \in Paths /\ row \in Row /\ row.op = job.entry
      /\ row.op # row.pending /\ ~ row.poisoned
      /\ queue \in [Paths -> Row \cup {NoRow}]
  BY <1>1, BusyFacts DEF IInv, TypeOK, Busy
<1>3. server[p] = row.op
  BY <1>1, <1>2 DEF OInv, ExecutedApplied
<1>4. row # NoRow
  BY <1>2, ConstantFacts
<1>5. CASE row.pending = NoEntry
  <2>1. new = NoRow
    BY <1>5 DEF Succeeded
  <2>2. p \notin retried => row.op = latest[p]
    <3>1. p \notin retried => row.op = latest[p] \/ latest[p] = NoEntry
      BY <1>2, <1>4, <1>5 DEF OInv, NewestLast
    <3>2. row.op \in Nat \ {0} /\ row.op \in Held(row)
      BY <1>2, <1>4, WorkerAssumption DEF Row, Entries, NoEntry, Held
    <3>3. latest[p] \in Nat /\ row.op \in 1..latest[p]
      BY <1>2, <3>2, WorkerAssumption
         DEF IInv, RowsConsistent, TypeOK, Entry0, Entries, NoEntry
    <3>. QED BY <3>1, <3>3 DEF NoEntry
  <2>3. DrainedInOrder'
    BY <1>1, <1>2, <1>3, <2>1, <2>2 DEF OInv, DrainedInOrder
  <2>4. NewestLast'
    BY <1>1, <1>2, <2>1 DEF OInv, NewestLast
  <2>. QED BY <1>1, <2>3, <2>4 DEF OInv, ExecutedApplied
<1>6. CASE row.pending # NoEntry
  <2>1. new # NoRow /\ new.op = row.pending /\ new.pending = NoEntry
    BY <1>2, <1>6, ConstantFacts DEF Succeeded, Row
  <2>2. p \notin retried => row.pending = latest[p]
    BY <1>2, <1>4, <1>6 DEF OInv, NewestLast
  <2>3. DrainedInOrder'
    BY <1>1, <1>2, <2>1 DEF OInv, DrainedInOrder
  <2>4. NewestLast'
    BY <1>1, <1>2, <2>1, <2>2 DEF OInv, NewestLast
  <2>. QED BY <1>1, <2>3, <2>4 DEF OInv, ExecutedApplied
<1>. QED BY <1>5, <1>6

(* A failure puts its path off to a retry and promises nothing for it.     *)
LEMMA FailureOrder ==
  ASSUME IInv, OInv, FinalizeFailure
  PROVE  OInv'
<1>1. PICK row \in Failed(queue[job.path]) :
        queue' = [queue EXCEPT ![job.path] = row]
  BY DEF FinalizeFailure
<1>2. /\ pc' = "drain" /\ UNCHANGED <<latest, server>>
      /\ retried' = retried \cup {job.path}
  BY DEF FinalizeFailure
<1>3. \A p \in Paths \ retried' : p \in Paths \ retried /\ queue'[p] = queue[p]
  BY <1>1, <1>2 DEF IInv, TypeOK
<1>. QED BY <1>2, <1>3 DEF OInv, DrainedInOrder, NewestLast, ExecutedApplied

(* Claims, poisoning and backoffs change no entry of a row.                *)
LEMMA RestOrder ==
  ASSUME IInv, OInv, NEW p \in Paths, NEW new \in Row,
         queue[p] \in Row,
         queue' = [queue EXCEPT ![p] = new],
         new.op = queue[p].op, new.pending = queue[p].pending,
         queue[p].poisoned => new.poisoned,
         queue[p].inflight => new.inflight \/ new.poisoned,
         UNCHANGED <<latest, server, retried>>,
         pc' # "ok" \/ UNCHANGED <<pc, job>>
  PROVE  OInv'
<1>1. queue[p] # NoRow /\ new # NoRow /\ queue \in [Paths -> Row \cup {NoRow}]
  BY ConstantFacts DEF IInv, TypeOK
<1>2. DrainedInOrder'
  BY <1>1 DEF OInv, DrainedInOrder
<1>3. p \notin retried /\ ~ new.poisoned =>
        \/ new.pending = NoEntry /\ new.op = latest[p]
        \/ new.inflight /\ new.pending = latest[p]
  BY <1>1 DEF OInv, NewestLast
<1>4. NewestLast'
  BY <1>1, <1>3 DEF OInv, NewestLast
<1>5. ExecutedApplied'
  BY DEF OInv, ExecutedApplied
<1>. QED BY <1>2, <1>4, <1>5 DEF OInv

LEMMA ClaimOrder ==
  ASSUME IInv, OInv, NEW p \in Paths, ClaimNext(p) \/ FlushClaim(p)
  PROVE  OInv'
<1>1. /\ queue[p] \in Row
      /\ queue' = [queue EXCEPT ![p] = Claimed(queue[p])]
      /\ pc' # "ok" /\ UNCHANGED <<latest, server, retried>>
  BY DEF ClaimNext, FlushClaim, Claimable, IInv, TypeOK, history
<1>2. /\ Claimed(queue[p]) \in Row
      /\ Claimed(queue[p]).op = queue[p].op
      /\ Claimed(queue[p]).pending = queue[p].pending
      /\ Claimed(queue[p]).poisoned = queue[p].poisoned
      /\ Claimed(queue[p]).inflight
  BY <1>1 DEF Claimed, Row
<1>. QED BY <1>1, <1>2, RestOrder

LEMMA PoisonOrder ==
  ASSUME IInv, OInv, GiveUp \/ Poison
  PROVE  OInv'
<1>1. /\ job.path \in Paths /\ queue[job.path] \in Row
      /\ queue' = [queue EXCEPT ![job.path] = Poisoned(queue[job.path])]
      /\ pc' # "ok" /\ UNCHANGED <<latest, server, retried>>
  BY BusyFacts DEF GiveUp, Poison, Busy, history
<1>2. /\ Poisoned(queue[job.path]) \in Row
      /\ Poisoned(queue[job.path]).op = queue[job.path].op
      /\ Poisoned(queue[job.path]).pending = queue[job.path].pending
      /\ Poisoned(queue[job.path]).poisoned
  BY <1>1 DEF Poisoned, Row
<1>. QED BY <1>1, <1>2, RestOrder

LEMMA BackoffOrder ==
  ASSUME IInv, OInv, NEW p \in Paths, BackoffElapses(p)
  PROVE  OInv'
<1>. DEFINE new == [queue[p] EXCEPT !.due = TRUE]
<1>1. /\ queue[p] \in Row
      /\ queue' = [queue EXCEPT ![p] = new]
      /\ UNCHANGED <<pc, job, latest, server, retried>>
  BY DEF BackoffElapses, IInv, TypeOK, history
<1>2. /\ new \in Row
      /\ new.op = queue[p].op /\ new.pending = queue[p].pending
      /\ new.poisoned = queue[p].poisoned /\ new.inflight = queue[p].inflight
  BY <1>1 DEF Row
<1>. QED BY <1>1, <1>2, RestOrder

(* The server changes only under a push of a row in flight, so never for a *)
(* path without a row.                                                     *)
LEMMA ServerOrder ==
  ASSUME IInv, OInv, Execute \/ Crash \/ Abandon
  PROVE  OInv'
<1>1. UNCHANGED <<queue, latest, retried>>
  BY DEF Execute, Crash, Abandon, Halt
<1>2. \/ UNCHANGED server
      \/ pc = "claimed" /\ server' = [server EXCEPT ![job.path] = job.entry]
  BY DEF Execute, Crash, Abandon, Halt
<1>3. DrainedInOrder'
  <2>1. pc = "claimed" => job.path \in Paths /\ queue[job.path] # NoRow
    BY BusyFacts, ConstantFacts DEF Busy
  <2>. QED BY <1>1, <1>2, <2>1 DEF OInv, DrainedInOrder, IInv, TypeOK
<1>4. NewestLast'
  BY <1>1 DEF OInv, NewestLast
<1>5. ExecutedApplied'
  <2>1. CASE Execute
    <3>1. job.path \in Paths /\ server \in [Paths -> Entry0]
      BY <2>1, BusyFacts DEF Execute, Busy, IInv, TypeOK
    <3>. QED BY <2>1, <3>1 DEF Execute, ExecutedApplied
  <2>2. CASE Crash \/ Abandon
    BY <2>2 DEF Crash, Abandon, Halt, ExecutedApplied
  <2>. QED BY <2>1, <2>2
<1>. QED BY <1>3, <1>4, <1>5 DEF OInv

LEMMA ControlOrder ==
  ASSUME IInv, OInv,
         \/ Wake \/ SeeShutdown \/ DrainDone \/ FlushTimeout
         \/ FlushEmpty \/ Unmount \/ Start \/ UNCHANGED vars
  PROVE  OInv'
<1>1. /\ UNCHANGED <<queue, latest, server, retried>>
      /\ pc' # "ok" \/ UNCHANGED <<pc, job>>
  BY DEF Wake, SeeShutdown, DrainDone, FlushTimeout, FlushEmpty, Unmount,
         Start, vars, history
<1>. QED BY <1>1 DEF OInv, DrainedInOrder, NewestLast, ExecutedApplied

LEMMA OrderStep == IInv /\ OInv /\ [Next]_vars => OInv'
BY EditOrder, ClaimOrder, PoisonOrder, FailureOrder, SuccessOrder,
   BackoffOrder, ServerOrder, ControlOrder
   DEF Next, WorkerStep

(* A path that has drained without a retry has its newest edit on the      *)
(* server: what finalize_success promotes was enqueued last.               *)
THEOREM InOrder == Spec => []DrainedInOrder
<1>1. Init => OInv
  BY DEF Init, OInv, DrainedInOrder, NewestLast, ExecutedApplied
<1>2. OInv => DrainedInOrder
  BY DEF OInv
<1>. QED BY <1>1, <1>2, OrderStep, Invariance, PTL DEF Spec
-----------------------------------------------------------------------------
(* Refinement: a step of PushWorker is a step of WriteBack or changes none *)
(* of its variables.                                                       *)

(* A step that touches one row and keeps what it holds is invisible. *)
LEMMA KeptUnchanged ==
  ASSUME IInv, NEW p \in Paths, NEW new,
         queue' = [queue EXCEPT ![p] = new], Held(new) = Held(queue[p])
  PROVE  Kept' = Kept
BY DEF IInv, TypeOK, Kept

(* An upsert is an Edit: what the row no longer holds was older. *)
LEMMA EditRefines ==
  ASSUME IInv, NEW p \in Paths, Edit(p)
  PROVE  WB!Edit(p)
<1>. DEFINE e == latest[p] + 1
            new == Upserted(queue[p], latest[p] + 1)
            older == Held(new) \ {e}
<1>1. /\ e \in Entries /\ queue[p] \in Row \cup {NoRow}
      /\ queue \in [Paths -> Row \cup {NoRow}]
  BY WorkerAssumption DEF IInv, Edit, TypeOK, Entry0, Entries, NoEntry
<1>2. e \in Held(new) /\ Held(new) \subseteq Held(queue[p]) \cup {e}
  BY <1>1, UpsertedFacts
<1>3. older \in SUBSET Kept[p] /\ Held(new) = older \cup {e}
  BY <1>2 DEF Kept
<1>4. queue' = [queue EXCEPT ![p] = new]
  BY DEF Edit
<1>5. Kept' = [Kept EXCEPT ![p] = older \cup {e}]
  BY <1>1, <1>3, <1>4 DEF Kept
<1>. QED BY <1>3, <1>5 DEF WB!Edit, Edit

(* A success is an Acknowledge of the entry that was executed. *)
LEMMA SuccessRefines ==
  ASSUME IInv, FinalizeSuccess
  PROVE  job.path \in Paths /\ WB!Acknowledge(job.path)
<1>. DEFINE p == job.path
            row == queue[job.path]
            new == Succeeded(queue[job.path])
<1>1. /\ p \in Paths /\ row \in Row /\ row.op = job.entry
      /\ row.op # row.pending
      /\ queue \in [Paths -> Row \cup {NoRow}]
  BY BusyFacts DEF FinalizeSuccess, Busy, IInv, TypeOK
<1>2. Held(new) = Held(row) \ {job.entry}
  BY <1>1, SucceededFacts
<1>3. job.entry \in Kept[p]
  BY <1>1, ConstantFacts DEF Kept, Held, Row
<1>4. Kept' = [Kept EXCEPT ![p] = Kept[p] \ {job.entry}]
  BY <1>1, <1>2 DEF Kept, FinalizeSuccess
<1>5. /\ acked' = [acked EXCEPT ![p] = acked[p] \cup {job.entry}]
      /\ UNCHANGED latest
  BY DEF FinalizeSuccess
<1>. QED BY <1>1, <1>3, <1>4, <1>5 DEF WB!Acknowledge

LEMMA StepRefines ==
  IInv /\ [Next]_vars => [WB!Next]_(WB!vars)
<1>. SUFFICES ASSUME IInv, [Next]_vars
              PROVE  [WB!Next]_(WB!vars)
  OBVIOUS
<1>1. CASE \E p \in Paths : Edit(p)
  BY <1>1, EditRefines DEF WB!Next
<1>2. CASE FinalizeSuccess
  BY <1>2, SuccessRefines DEF WB!Next
<1>3. ASSUME NEW p \in Paths, ClaimNext(p) \/ FlushClaim(p)
      PROVE  UNCHANGED WB!vars
  <2>1. queue[p] \in Row
    BY <1>3 DEF ClaimNext, FlushClaim, Claimable, IInv, TypeOK
  <2>2. Held(Claimed(queue[p])) = Held(queue[p])
    BY <2>1, RestFacts
  <2>3. Kept' = Kept
    BY <1>3, <2>2, KeptUnchanged DEF ClaimNext, FlushClaim
  <2>. QED BY <1>3, <2>3 DEF WB!vars, ClaimNext, FlushClaim, history
<1>4. CASE GiveUp \/ Poison
  <2>1. job.path \in Paths /\ queue[job.path] \in Row
    BY <1>4, BusyFacts DEF GiveUp, Poison, Busy
  <2>2. Held(Poisoned(queue[job.path])) = Held(queue[job.path])
    BY <2>1, RestFacts
  <2>3. Kept' = Kept
    BY <1>4, <2>1, <2>2, KeptUnchanged DEF GiveUp, Poison
  <2>. QED BY <1>4, <2>3 DEF WB!vars, GiveUp, Poison, history
<1>5. CASE FinalizeFailure
  <2>1. /\ job.path \in Paths /\ queue[job.path] \in Row
        /\ queue[job.path].attempt < MaxAttempts
    BY <1>5, BusyFacts DEF FinalizeFailure, Busy
  <2>2. PICK new \in Failed(queue[job.path]) :
          queue' = [queue EXCEPT ![job.path] = new]
    BY <1>5 DEF FinalizeFailure
  <2>3. Held(new) = Held(queue[job.path])
    BY <2>1, FailedFacts
  <2>4. Kept' = Kept
    BY <2>1, <2>2, <2>3, KeptUnchanged
  <2>. QED BY <1>5, <2>4 DEF WB!vars, FinalizeFailure
<1>6. ASSUME NEW p \in Paths, BackoffElapses(p)
      PROVE  UNCHANGED WB!vars
  <2>1. queue[p] \in Row
    BY <1>6 DEF BackoffElapses, IInv, TypeOK
  <2>2. Held([queue[p] EXCEPT !.due = TRUE]) = Held(queue[p])
    BY <2>1, RestFacts
  <2>3. Kept' = Kept
    BY <1>6, <2>2, KeptUnchanged DEF BackoffElapses
  <2>. QED BY <1>6, <2>3 DEF WB!vars, BackoffElapses, history
<1>7. CASE \/ Wake \/ SeeShutdown \/ DrainDone \/ Execute \/ FlushTimeout
           \/ FlushEmpty \/ Unmount \/ Crash \/ Abandon \/ Start
           \/ UNCHANGED vars
  BY <1>7
     DEF WB!vars, Kept, Wake, SeeShutdown, DrainDone, Execute, FlushTimeout,
         FlushEmpty, Unmount, Crash, Abandon, Halt, Start, vars, history
<1>. QED
  BY <1>1, <1>2, <1>3, <1>4, <1>5, <1>6, <1>7 DEF Next, WorkerStep

(* The push queue implements the promise of a write-back queue.            *)
THEOREM Refinement == Spec => Implements
<1>1. Init => WB!Init
  BY DEF Init, WB!Init, Kept, Held
<1>. QED BY <1>1, StepRefines, Invariance, PTL
   DEF Spec, Implements, WB!Spec
=============================================================================
