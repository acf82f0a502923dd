----------------------------- MODULE PushQueue -----------------------------
(***************************************************************************)
(* One row of the push_queue table (cache/schema.sql) and what the five    *)
(* statements of cache/db.rs do to it.  The table has at most one row per  *)
(* brain path, so it is a function from paths to rows; a statement is an   *)
(* operator from a row to a row.  What an entry is (which operation, on    *)
(* which inode) makes no difference to the table: entries are opaque.      *)
(*                                                                         *)
(* Time is abstracted to one bit per row: due says updated_at <= now, the  *)
(* only way the code looks at updated_at apart from the order in which two *)
(* due rows are claimed, which is left open.                               *)
(***************************************************************************)
EXTENDS Naturals

CONSTANTS
  Paths,        (* brain paths that is_noise_path accepts                *)
  Entries,      (* what may be queued: (op, content_ino, rename_to)      *)
  NoEntry,      (* NULL in the pending_* columns                         *)
  NoRow,        (* the path has no row                                   *)
  MaxAttempts   (* MAX_ATTEMPTS of sync/push.rs                          *)

Row == [op: Entries, pending: Entries \cup {NoEntry}, inflight: BOOLEAN,
        attempt: 0..MaxAttempts, poisoned: BOOLEAN, due: BOOLEAN]

(* INSERT of push_queue_upsert. *)
Fresh(e) ==
  [op |-> e, pending |-> NoEntry, inflight |-> FALSE, attempt |-> 0,
   poisoned |-> FALSE, due |-> TRUE]

(* Mutant of Upserted: a row in flight is overwritten. *)
UpsertedInFlight(row, e) ==
  IF row = NoRow THEN Fresh(e)
  ELSE [row EXCEPT !.op = e, !.attempt = 0, !.due = TRUE]

(* push_queue_upsert: a row in flight keeps its op and remembers e as      *)
(* pending; a row at rest gets e as its op and keeps pending_* and         *)
(* poisoned as they were.                                                  *)
Upserted(row, e) ==
  IF row = NoRow THEN Fresh(e)
  ELSE IF row.inflight THEN [row EXCEPT !.pending = e, !.due = TRUE]
  ELSE [row EXCEPT !.op = e, !.attempt = 0, !.due = TRUE]

(* The WHERE clause of push_queue_claim_next. *)
Claimable(row) ==
  /\ row # NoRow
  /\ ~ row.inflight
  /\ ~ row.poisoned
  /\ row.due

Claimed(row) == [row EXCEPT !.inflight = TRUE]

(* Mutants of Succeeded: the pending entry is dropped; the promoted row    *)
(* stays in flight.                                                        *)
SucceededDeletes(row) == NoRow

SucceededInFlight(row) ==
  IF row.pending = NoEntry THEN NoRow
  ELSE [row EXCEPT !.op = row.pending, !.pending = NoEntry, !.attempt = 0,
                   !.due = TRUE]

(* push_queue_finalize_success: promote the pending entry, or delete. *)
Succeeded(row) ==
  IF row.pending = NoEntry THEN NoRow
  ELSE [row EXCEPT !.op = row.pending, !.pending = NoEntry,
                   !.inflight = FALSE, !.attempt = 0, !.due = TRUE]

(* Mutant of Failed: the retry forgets what was enqueued meanwhile. *)
FailedForgets(row) ==
  {[row EXCEPT !.pending = NoEntry, !.inflight = FALSE,
               !.attempt = row.attempt + 1, !.due = d] : d \in BOOLEAN}

(* push_queue_finalize_failure: updated_at is the time of the claim plus   *)
(* the backoff, which may already be past when a slow request fails.       *)
Failed(row) ==
  {[row EXCEPT !.inflight = FALSE, !.attempt = row.attempt + 1, !.due = d] :
     d \in BOOLEAN}

(* push_queue_poison *)
Poisoned(row) ==
  [row EXCEPT !.poisoned = TRUE, !.inflight = FALSE, !.due = TRUE]

(* The entries a row still holds. *)
Held(row) ==
  IF row = NoRow THEN {} ELSE {row.op, row.pending} \ {NoEntry}
=============================================================================
