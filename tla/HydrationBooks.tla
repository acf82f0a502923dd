--------------------------- MODULE HydrationBooks ---------------------------
(***************************************************************************)
(* What the scheduler and the tasks of cache/hydration.rs keep about the   *)
(* keys that are to be fetched, and what has to agree in it after every    *)
(* critical section of the mutex.  The steps are module Hydration.         *)
(*                                                                         *)
(* A slot stands for a permit of the semaphore together with the task that *)
(* owns it; a task gives its permit back after complete().  A key is       *)
(* opaque.                                                                 *)
(***************************************************************************)
EXTENDS SequencesExt

CONSTANTS
  Keys,       (* HydrationKey: Exact or Prefix with its path             *)
  Slots,      (* one for each permit                                     *)
  NoKey

ASSUME BooksAssumption == NoKey \notin Keys /\ Slots # {}

VARIABLES
  queue, pending, inflight,   (* Inner: the FIFO, and its two key sets   *)
  recent,                     (* Inner: keys completed within the TTL    *)
  task, phase,                (* per slot: its key, what it is doing     *)
  owed                        (* history: keys that enqueue accepted and
                                 that were not fetched since             *)

Working == {s \in Slots : phase[s] \in {"fetch", "fetched"}}

(* The mutex guards three collections that mirror each other and the       *)
(* tasks: pending is the queue as a set, a key waits once, inflight are    *)
(* the keys of the tasks that have not called complete().                  *)
BooksBalance ==
  /\ pending = ToSet(queue)
  /\ IsInjective(queue)
  /\ inflight = {task[s] : s \in Working}

(* A key is never fetched twice at the same time, nor queued again while   *)
(* it is being fetched or for the time to live after it.                   *)
NoDoubleFetch ==
  /\ \A s, t \in Working : task[s] = task[t] => s = t
  /\ pending \cap inflight = {}
  /\ pending \cap recent = {}

(* What enqueue accepted is in the queue or with a task until it is        *)
(* fetched: dropping duplicates never drops the last request for a key.    *)
NothingForgotten ==
  owed \subseteq pending \cup inflight
=============================================================================
