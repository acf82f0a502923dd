---------------------------- MODULE DocSyncProofs ----------------------------
(***************************************************************************)
(* Proofs about DocSync: no edit is forgotten, no stamp is stranded and    *)
(* the watermark misses no version, for every set of documents, however    *)
(* coarse the remote times are cut, and whatever pushes come to.           *)
(***************************************************************************)
EXTENDS DocSync, TLAPS

(* No edit is forgotten and no stamp stranded, of any document: these two  *)
(* are as in DocSync, but for the end of a behaviour too.                  *)
AllTracked ==
  \A d \in Docs :
    Unpushed(d) => session[d] # "closed" \/ queue[d] # NoRow

AllJustified ==
  \A d \in Docs :
    dirty[d] # 0 =>
      \/ session[d] # "closed"
      \/ queue[d] # NoRow
      \/ pc = "clean" /\ job = d

(* The worker's job is a document; until it is finalized, its row is in    *)
(* flight, and once its body is read, it may be tried once more.           *)
JobOwned ==
  /\ pc # "idle" => job \in Docs
  /\ pc \in {"claimed", "put", "ok", "transient", "fatal"} =>
       queue[job] # NoRow /\ queue[job].inflight
  /\ pc \in {"put", "ok", "transient", "fatal"} =>
       queue[job].attempt < MaxAttempts

(* The document a pull has at hand is one.                                 *)
AtHand == puller \in {"upsert", "insert", "path", "body"}

CurKnown == AtHand \/ puller = "clear" => cur.doc \in Docs

(* Whatever the server, a pull or a push that ended well has, the server   *)
(* has had.                                                                *)
AllReached ==
  /\ \A d \in Docs : server[d].content \in reached[d]
  /\ \A r \in listing : r.content \in reached[r.doc]
  /\ cur.doc \in Docs => cur.content \in reached[cur.doc]
  /\ pc = "ok" => body \in reached[job]

(* The job's file is closed and nothing was enqueued since its body was    *)
(* read.                                                                   *)
Quiet == session[job] = "closed" /\ queue[job].pending = NoEntry

(* Then the body is what the cache holds, unless a pull has replaced that. *)
BodyCurrent ==
  pc \in {"put", "ok"} /\ Quiet =>
    local[job] = body \/ local[job] \in reached[job]

(* Then, too, the stamp that is about to be cleared is older than what the *)
(* push put on the server, and than what came after it.                    *)
StampOlder ==
  /\ pc = "ok" /\ Quiet => dirty[job] < server[job].at
  /\ pc = "clean" /\ session[job] = "closed" /\ queue[job] = NoRow =>
       dirty[job] < server[job].at

(* What the server has of d, as a listing gives it.                        *)
Record(d) == [doc |-> d, content |-> server[d].content, at |-> server[d].at]

(* The server has a version of d that is newer than all a pull has seen.   *)
Ahead(d) ==
  /\ server[d].at > lastSeen /\ server[d].at > newest
  /\ server[d].at > cur.at
  /\ \A r \in listing : server[d].at > r.at

InHand(d) == AtHand /\ cur = Record(d)

(* The cache has the server's version of d, or one that will be pushed     *)
(* over it; a row about to be finalized does not count.                    *)
Kept(d) ==
  \/ local[d] = server[d].content
  \/ session[d] # "closed"
  \/ queue[d] # NoRow /\ ~ (pc = "ok" /\ job = d /\ queue[d].pending = NoEntry)

(* A version that was listed is still the server's, or the server has a    *)
(* newer one than any listed.                                              *)
ListedOrAhead ==
  /\ \A r \in listing : r = Record(r.doc) \/ Ahead(r.doc)
  /\ AtHand => cur = Record(cur.doc) \/ Ahead(cur.doc)

Exempt == dropped \cup masked

(* What is at or below the watermark is held.                              *)
SeenHeld ==
  \A d \in Docs \ Exempt :
    0 < server[d].at /\ server[d].at <= lastSeen => Kept(d)

(* During a pull every version is still to come, at hand, or held, or too  *)
(* new for it.                                                             *)
Accounted ==
  puller \notin {"idle", "list"} =>
    \A d \in Docs \ Exempt :
      0 < server[d].at =>
        Ahead(d) \/ Record(d) \in listing \/ InHand(d) \/ Kept(d)

(* The strengthening of the three invariants, without and with the pull.   *)
PushInv ==
  /\ TypeOK /\ JobOwned /\ CurKnown /\ AllReached /\ BodyCurrent
  /\ AllTracked /\ AllJustified /\ StampOlder

PullInv == ListedOrAhead /\ SeenHeld /\ Accounted

IInv == PushInv /\ PullInv
-----------------------------------------------------------------------------
(* The assumptions on the constants, in the form the proofs use. *)
LEMMA ConstantFacts ==
  /\ NoRow \notin Row
  /\ NoDoc \notin Docs
  /\ "write" \in Entries /\ NoEntry \notin Entries
  /\ MaxAttempts \in Nat /\ 0 \in 0..MaxAttempts /\ 0 < MaxAttempts
  /\ MaxEvents \in Nat
  /\ Outcomes \subseteq {"ok", "transient", "fatal"}
BY SyncAssumption DEF Entries, NoEntry

(* Each statement on a row yields a row; what it does to the columns that  *)
(* the proofs look at.                                                     *)
LEMMA UpsertedFacts ==
  ASSUME NEW row \in Row \cup {NoRow}
  PROVE  /\ Upserted(row, "write") \in Row
         /\ row # NoRow /\ row.inflight =>
              /\ Upserted(row, "write").pending = "write"
              /\ Upserted(row, "write").inflight
              /\ Upserted(row, "write").attempt = row.attempt
<1>1. CASE row = NoRow
  BY <1>1, ConstantFacts DEF Upserted, Fresh, Row
<1>2. CASE row # NoRow
  BY <1>2, ConstantFacts DEF Upserted, Row
<1>. QED BY <1>1, <1>2

LEMMA RestFacts ==
  ASSUME NEW row \in Row
  PROVE  /\ Claimed(row) \in Row
         /\ Claimed(row).inflight /\ Claimed(row).attempt = row.attempt
         /\ Claimed(row).pending = row.pending
         /\ Poisoned(row) \in Row
         /\ [row EXCEPT !.due = TRUE] \in Row
         /\ [row EXCEPT !.due = TRUE].inflight = row.inflight
         /\ [row EXCEPT !.due = TRUE].attempt = row.attempt
         /\ [row EXCEPT !.due = TRUE].pending = row.pending
BY DEF Claimed, Poisoned, Row

LEMMA FailedFacts ==
  ASSUME NEW row \in Row, row.attempt < MaxAttempts, NEW r \in Failed(row)
  PROVE  r \in Row
<1>1. PICK d \in BOOLEAN :
        r = [row EXCEPT !.inflight = FALSE, !.attempt = row.attempt + 1,
                        !.due = d]
  BY DEF Failed
<1>2. row.attempt + 1 \in 0..MaxAttempts
  BY ConstantFacts DEF Row
<1>. QED BY <1>1, <1>2 DEF Row

LEMMA SucceededFacts ==
  ASSUME NEW row \in Row
  PROVE  /\ Succeeded(row) \in Row \cup {NoRow}
         /\ Succeeded(row) = NoRow <=> row.pending = NoEntry
<1>1. CASE row.pending = NoEntry
  BY <1>1 DEF Succeeded
<1>2. CASE row.pending # NoEntry
  <2>1. Succeeded(row) \in Row
    BY <1>2, ConstantFacts DEF Succeeded, Row
  <2>. QED BY <1>2, <2>1, ConstantFacts
<1>. QED BY <1>1, <1>2

(* When the clock ticks, what was typed by the old time is typed by the    *)
(* new one, and the new time is later than any other.                      *)
LEMMA Widened ==
  ASSUME TypeOK
  PROVE  /\ now \in Nat /\ now \in 0..now /\ clock < now
         /\ local \in [Docs -> 0..now] /\ dirty \in [Docs -> 0..now]
         /\ body \in 0..now
         /\ server \in [Docs -> [content: 0..now, at: 0..now]]
         /\ listing \subseteq [doc: Docs, content: 0..now, at: 0..now]
         /\ cur \in [doc: Docs \cup {NoDoc}, content: 0..now, at: 0..now]
         /\ lastSeen \in 0..now /\ newest \in 0..now
         /\ edits \in [Docs -> SUBSET (0..now)]
         /\ reached \in [Docs -> SUBSET (0..now)]
<1>1. clock \in Nat /\ 0..clock \subseteq 0..now /\ now \in Nat /\ clock < now
      /\ now \in 0..now
  BY DEF TypeOK, now
<1>2. /\ local \in [Docs -> 0..now] /\ dirty \in [Docs -> 0..now]
      /\ edits \in [Docs -> SUBSET (0..now)]
      /\ reached \in [Docs -> SUBSET (0..now)]
  BY <1>1 DEF TypeOK
<1>3. /\ server \in [Docs -> [content: 0..now, at: 0..now]]
      /\ cur \in [doc: Docs \cup {NoDoc}, content: 0..now, at: 0..now]
  BY <1>1 DEF TypeOK
<1>4. listing \subseteq [doc: Docs, content: 0..now, at: 0..now]
  BY <1>1 DEF TypeOK
<1>. QED BY <1>1, <1>2, <1>3, <1>4 DEF TypeOK
-----------------------------------------------------------------------------
(* What the pull knows is disturbed by a step of the editor or of the      *)
(* worker only if that step lets go of a document.                         *)
LEMMA PullInvKept ==
  ASSUME PullInv, UNCHANGED <<server, pulling>>,
         \A d \in Docs : Kept(d) => Kept(d)'
  PROVE  PullInv'
<1>1. /\ UNCHANGED <<server, puller, listing, cur, lastSeen, newest>>
      /\ Exempt' = Exempt
      /\ \A d \in Docs : /\ Record(d)' = Record(d)
                         /\ Ahead(d)' <=> Ahead(d)
                         /\ InHand(d)' <=> InHand(d)
  BY DEF pulling, Exempt, Record, Ahead, InHand, AtHand
<1>2. ListedOrAhead'
  BY DEF PullInv, ListedOrAhead, pulling, Record, Ahead, AtHand
<1>3. SeenHeld'
  BY <1>1 DEF PullInv, SeenHeld
<1>4. Accounted'
  BY <1>1 DEF PullInv, Accounted
<1>. QED BY <1>2, <1>3, <1>4 DEF PullInv

(* A version that the server takes now is ahead of all a pull has seen; on *)
(* its document nothing else matters.                                      *)
LEMMA PullInvServer ==
  ASSUME PullInv, TypeOK, CurKnown, UNCHANGED pulling, NEW d \in Docs,
         server'[d].at = now,
         \A x \in Docs \ {d} :
           server'[x] = server[x] /\ (Kept(x) => Kept(x)')
  PROVE  PullInv'
<1>1. /\ UNCHANGED <<puller, listing, cur, lastSeen, newest>>
      /\ Exempt' = Exempt
  BY DEF pulling, Exempt
<1>2. Ahead(d)'
  <2>1. \A r \in listing : r.at \in 0..clock
    BY DEF TypeOK
  <2>. QED BY <1>1, <2>1 DEF Ahead, TypeOK, now
<1>3. \A x \in Docs \ {d} : /\ Record(x)' = Record(x)
                            /\ Ahead(x)' <=> Ahead(x)
                            /\ InHand(x)' <=> InHand(x)
  BY <1>1 DEF Record, Ahead, InHand, AtHand
<1>4. ListedOrAhead'
  <2>1. ASSUME NEW r \in listing'
        PROVE  (r = Record(r.doc) \/ Ahead(r.doc))'
    <3>1. r \in listing /\ r.doc \in Docs
      BY <1>1 DEF TypeOK
    <3>. QED BY <1>2, <1>3, <3>1 DEF PullInv, ListedOrAhead, AtHand
  <2>2. ASSUME (AtHand)'
        PROVE  (cur = Record(cur.doc) \/ Ahead(cur.doc))'
    <3>1. AtHand /\ cur.doc \in Docs /\ cur' = cur
      BY <1>1, <2>2 DEF CurKnown, AtHand
    <3>. QED BY <1>2, <1>3, <3>1 DEF PullInv, ListedOrAhead, AtHand
  <2>. QED BY <2>1, <2>2 DEF ListedOrAhead, AtHand
<1>5. SeenHeld'
  <2>1. ~ (server'[d].at <= lastSeen')
    BY <1>1 DEF TypeOK, now
  <2>. QED BY <1>1, <2>1 DEF PullInv, SeenHeld
<1>6. Accounted'
  BY <1>1, <1>2, <1>3 DEF PullInv, Accounted
<1>. QED BY <1>4, <1>5, <1>6 DEF PullInv
-----------------------------------------------------------------------------
(* The inductive step, one lemma per group of actions.                     *)

(* What the editor does to d up to the stamp of its close leaves d open,   *)
(* and the other documents alone.                                          *)
LEMMA EditorStep ==
  ASSUME IInv, NEW d \in Docs,
         \/ Create(d) \/ CreateInsert(d) \/ Write(d) \/ Reopen(d)
         \/ StampWrite(d) \/ FlushPath(d) \/ FlushStamp(d)
  PROVE  IInv'
<1>. USE DEF IInv, PushInv
<1>1. /\ UNCHANGED <<queue, pc, job, body, server, reached>>
      /\ UNCHANGED <<puller, listing, cur, lastSeen, newest, dropped, masked>>
  BY DEF Create, CreateInsert, Write, Reopen, StampWrite, FlushPath,
         FlushStamp, pusher, pulling, remote
<1>2. /\ session'[d] # "closed"
      /\ \A x \in Docs \ {d} :
           /\ session'[x] = session[x] /\ local'[x] = local[x]
           /\ dirty'[x] = dirty[x] /\ edits'[x] = edits[x]
  BY DEF Create, CreateInsert, Write, Reopen, StampWrite, FlushPath,
         FlushStamp, cache, Set, Note, TypeOK
<1>3. TypeOK'
  <2>1. /\ session' \in [Docs -> {"closed", "creating", "written", "open",
                                  "flushing", "stamped"}]
        /\ entry' \in [Docs -> {"absent", "local", "remote"}]
        /\ replaced' \subseteq Docs
    BY DEF Create, CreateInsert, Write, Reopen, StampWrite, FlushPath,
           FlushStamp, cache, Set, TypeOK
  <2>2. CASE CreateInsert(d) \/ StampWrite(d) \/ FlushPath(d) \/ FlushStamp(d)
    <3>1. /\ UNCHANGED <<clock, events, local, edits>>
          /\ dirty' = [dirty EXCEPT ![d] = clock] \/ dirty' = dirty
      BY <2>2 DEF CreateInsert, StampWrite, FlushPath, FlushStamp, Set
    <3>2. dirty' \in [Docs -> 0..clock]
      BY <3>1 DEF TypeOK
    <3>. QED BY <1>1, <2>1, <3>1, <3>2 DEF TypeOK
  <2>3. CASE Create(d) \/ Write(d) \/ Reopen(d)
    <3>1. clock' = now /\ events' \in 0..MaxEvents /\ dirty' = dirty
      BY <2>3, ConstantFacts DEF Create, Write, Reopen, Tick, Event, cache,
         TypeOK
    <3>2. local' \in [Docs -> 0..now] /\ edits' \in [Docs -> SUBSET (0..now)]
      <4>1. CASE Write(d)
        <5>1. /\ local' = [local EXCEPT ![d] = now]
              /\ edits' = [edits EXCEPT ![d] = edits[d] \cup {now}]
          BY <4>1 DEF Write, Set, Note
        <5>. QED BY <5>1, Widened
      <4>2. CASE Create(d) \/ Reopen(d)
        BY <4>2, Widened DEF Create, Reopen, cache
      <4>. QED BY <2>3, <4>1, <4>2
    <3>. QED BY <1>1, <2>1, <3>1, <3>2, Widened DEF TypeOK
  <2>. QED BY <2>2, <2>3
<1>4. JobOwned' /\ CurKnown' /\ AllReached'
  BY <1>1 DEF JobOwned, CurKnown, AllReached, AtHand
<1>5. Quiet' /\ pc # "idle" => Quiet /\ job # d
  BY <1>1, <1>2 DEF Quiet, JobOwned
<1>6. BodyCurrent'
  BY <1>1, <1>2, <1>5 DEF BodyCurrent, JobOwned
<1>7. AllTracked' /\ AllJustified'
  BY <1>1, <1>2 DEF AllTracked, Unpushed, AllJustified
<1>8. StampOlder'
  BY <1>1, <1>2, <1>5 DEF StampOlder, JobOwned
<1>9. PullInv'
  <2>1. \A x \in Docs : Kept(x) => Kept(x)'
    BY <1>1, <1>2 DEF Kept
  <2>. QED BY <1>1, <2>1, PullInvKept DEF pulling
<1>. QED BY <1>3, <1>4, <1>6, <1>7, <1>8, <1>9

(* A close ends with a row; one in flight gets a pending entry.            *)
LEMMA FlushEnqueueStep ==
  ASSUME IInv, NEW d \in Docs, FlushEnqueue(d)
  PROVE  IInv'
<1>. USE DEF IInv, PushInv
<1>1. /\ UNCHANGED <<clock, events, local, dirty, entry, replaced, edits>>
      /\ UNCHANGED <<pc, job, body, server, reached>>
      /\ UNCHANGED <<puller, listing, cur, lastSeen, newest, dropped, masked>>
      /\ session[d] = "stamped"
      /\ session' = [session EXCEPT ![d] = "closed"]
      /\ queue' = [queue EXCEPT ![d] = Upserted(queue[d], "write")]
  BY DEF FlushEnqueue, cache, pusher, pulling, remote, Set
<1>2. /\ queue'[d] \in Row /\ queue'[d] # NoRow
      /\ queue[d] # NoRow /\ queue[d].inflight =>
           /\ queue'[d].pending = "write" /\ queue'[d].inflight
           /\ queue'[d].attempt = queue[d].attempt
  <2>1. queue[d] \in Row \cup {NoRow} /\ queue'[d] = Upserted(queue[d], "write")
    BY <1>1 DEF TypeOK
  <2>2. /\ Upserted(queue[d], "write") \in Row
        /\ queue[d] # NoRow /\ queue[d].inflight =>
             /\ Upserted(queue[d], "write").pending = "write"
             /\ Upserted(queue[d], "write").inflight
             /\ Upserted(queue[d], "write").attempt = queue[d].attempt
    BY <2>1, UpsertedFacts
  <2>. QED BY <2>1, <2>2, ConstantFacts
<1>3. \A x \in Docs \ {d} : queue'[x] = queue[x] /\ session'[x] = session[x]
  BY <1>1 DEF TypeOK
<1>4. TypeOK'
  BY <1>1, <1>2 DEF TypeOK
<1>5. JobOwned'
  BY <1>1, <1>2, <1>3 DEF JobOwned
<1>6. CurKnown' /\ AllReached'
  BY <1>1 DEF CurKnown, AllReached, AtHand
<1>7. pc \in {"put", "ok"} /\ Quiet' => Quiet /\ job # d
  <2>1. pc \in {"put", "ok"} /\ job = d => queue'[d].pending # NoEntry
    BY <1>2, ConstantFacts DEF JobOwned, NoEntry
  <2>. QED BY <1>1, <1>3, <2>1 DEF Quiet, JobOwned
<1>8. BodyCurrent'
  BY <1>1, <1>7 DEF BodyCurrent
<1>9. AllTracked' /\ AllJustified'
  BY <1>1, <1>2, <1>3 DEF AllTracked, Unpushed, AllJustified
<1>10. StampOlder'
  BY <1>1, <1>2, <1>3, <1>7 DEF StampOlder, JobOwned
<1>11. PullInv'
  <2>1. pc = "ok" /\ job = d => queue'[d].pending # NoEntry
    BY <1>2, ConstantFacts DEF JobOwned, NoEntry
  <2>2. \A x \in Docs : Kept(x) => Kept(x)'
    BY <1>1, <1>2, <1>3, <2>1 DEF Kept
  <2>. QED BY <1>1, <2>2, PullInvKept DEF pulling
<1>. QED BY <1>4, <1>5, <1>6, <1>8, <1>9, <1>10, <1>11

(* The end of a backoff makes a row due.                                   *)
LEMMA BackoffStep ==
  ASSUME IInv, NEW d \in Docs, BackoffElapses(d)
  PROVE  IInv'
<1>. USE DEF IInv, PushInv
<1>1. /\ UNCHANGED <<clock, events, local, dirty, entry, replaced, edits,
                   session>>
      /\ UNCHANGED <<pc, job, body, server, reached>>
      /\ UNCHANGED <<puller, listing, cur, lastSeen, newest, dropped, masked>>
      /\ queue[d] \in Row /\ queue[d] # NoRow
      /\ queue' = [queue EXCEPT ![d] = [queue[d] EXCEPT !.due = TRUE]]
  BY DEF BackoffElapses, editor, cache, pusher, pulling, remote, Set, TypeOK
<1>2. /\ queue'[d] \in Row /\ queue'[d] # NoRow
      /\ queue'[d].pending = queue[d].pending
      /\ queue'[d].inflight = queue[d].inflight
      /\ queue'[d].attempt = queue[d].attempt
  <2>1. queue'[d] = [queue[d] EXCEPT !.due = TRUE]
    BY <1>1 DEF TypeOK
  <2>. QED BY <1>1, <2>1, RestFacts, ConstantFacts
<1>3. \A x \in Docs \ {d} : queue'[x] = queue[x]
  BY <1>1 DEF TypeOK
<1>4. TypeOK'
  BY <1>1, <1>2 DEF TypeOK
<1>5. JobOwned' /\ CurKnown' /\ AllReached'
  BY <1>1, <1>2, <1>3 DEF JobOwned, CurKnown, AllReached, AtHand
<1>6. pc \in {"put", "ok"} => (Quiet' <=> Quiet)
  BY <1>1, <1>2, <1>3 DEF Quiet, JobOwned
<1>7. BodyCurrent'
  BY <1>1, <1>6 DEF BodyCurrent
<1>8. AllTracked' /\ AllJustified'
  BY <1>1, <1>2, <1>3 DEF AllTracked, Unpushed, AllJustified
<1>9. StampOlder'
  BY <1>1, <1>2, <1>3, <1>6 DEF StampOlder, JobOwned
<1>10. PullInv'
  <2>1. \A x \in Docs : Kept(x) => Kept(x)'
    BY <1>1, <1>2, <1>3 DEF Kept
  <2>. QED BY <1>1, <2>1, PullInvKept DEF pulling
<1>. QED BY <1>4, <1>5, <1>7, <1>8, <1>9, <1>10

(* What another client writes, the server has had, and it is newer than    *)
(* any stamp.                                                              *)
LEMMA RemoteEditStep ==
  ASSUME IInv, NEW d \in Docs, RemoteEdit(d)
  PROVE  IInv'
<1>. USE DEF IInv, PushInv
<1>1. /\ UNCHANGED <<local, dirty, entry, replaced, edits, session, queue>>
      /\ UNCHANGED <<pc, job, body>>
      /\ UNCHANGED <<puller, listing, cur, lastSeen, newest, dropped, masked>>
      /\ clock' = now /\ events' \in 0..MaxEvents
      /\ server' = [server EXCEPT ![d] = [content |-> now, at |-> now]]
      /\ reached' = [reached EXCEPT ![d] = reached[d] \cup {now}]
  BY ConstantFacts DEF RemoteEdit, cache, pusher, pulling, Set, Note, Tick,
     TypeOK
<1>2. /\ server'[d].at = now /\ server'[d].content = now
      /\ \A x \in Docs \ {d} : server'[x] = server[x]
      /\ \A x \in Docs : reached[x] \subseteq reached'[x]
      /\ now \in reached'[d]
  BY <1>1 DEF TypeOK
<1>3. TypeOK'
  <2>1. /\ server' \in [Docs -> [content: 0..now, at: 0..now]]
        /\ reached' \in [Docs -> SUBSET (0..now)]
    BY <1>1, Widened
  <2>. QED BY <1>1, <2>1, Widened DEF TypeOK
<1>4. JobOwned' /\ CurKnown'
  BY <1>1 DEF JobOwned, CurKnown, AtHand
<1>5. AllReached'
  BY <1>1, <1>2 DEF AllReached, TypeOK, JobOwned
<1>6. BodyCurrent'
  BY <1>1, <1>2 DEF BodyCurrent, Quiet, JobOwned
<1>7. AllTracked' /\ AllJustified'
  BY <1>1, <1>2 DEF AllTracked, Unpushed, AllJustified
<1>8. StampOlder'
  <2>1. dirty[d] < now
    BY DEF TypeOK, now
  <2>. QED BY <1>1, <1>2, <2>1 DEF StampOlder, Quiet, JobOwned
<1>9. PullInv'
  <2>1. \A x \in Docs \ {d} : Kept(x) => Kept(x)'
    BY <1>1, <1>2 DEF Kept
  <2>. QED BY <1>1, <1>2, <2>1, PullInvServer DEF pulling
<1>. QED BY <1>3, <1>4, <1>5, <1>6, <1>7, <1>8, <1>9
-----------------------------------------------------------------------------
(* A claim takes a row.                                                    *)
LEMMA ClaimStep ==
  ASSUME IInv, NEW d \in Docs, Claim(d)
  PROVE  IInv'
<1>. USE DEF IInv, PushInv
<1>1. /\ UNCHANGED <<clock, events, local, dirty, entry, replaced, edits,
                   session>>
      /\ UNCHANGED <<body, server, reached>>
      /\ UNCHANGED <<puller, listing, cur, lastSeen, newest, dropped, masked>>
      /\ pc = "idle" /\ queue[d] \in Row /\ queue[d] # NoRow
  BY DEF Claim, Claimable, editor, cache, pulling, remote, TypeOK
<1>2. /\ queue' \in [Docs -> Row \cup {NoRow}]
      /\ queue'[d] # NoRow
      /\ \A x \in Docs \ {d} : queue'[x] = queue[x]
      /\ pc' = "claimed" /\ job' = d
      /\ queue'[d].inflight
  <2>1. /\ queue' = [queue EXCEPT ![d] = Claimed(queue[d])]
        /\ pc' = "claimed" /\ job' = d
    BY <1>1 DEF Claim, Set
  <2>2. /\ Claimed(queue[d]) \in Row /\ Claimed(queue[d]) # NoRow
        /\ Claimed(queue[d]).inflight
    BY <1>1, RestFacts, ConstantFacts
  <2>. QED BY <2>1, <2>2 DEF TypeOK
<1>3. TypeOK'
  BY <1>1, <1>2 DEF TypeOK
<1>4. JobOwned'
  BY <1>1, <1>2 DEF JobOwned
<1>5. CurKnown' /\ AllReached' /\ BodyCurrent' /\ StampOlder'
  BY <1>1, <1>2 DEF CurKnown, AllReached, BodyCurrent, StampOlder, AtHand
<1>6. AllTracked' /\ AllJustified'
  BY <1>1, <1>2 DEF AllTracked, Unpushed, AllJustified
<1>7. PullInv'
  <2>1. \A x \in Docs : Kept(x) => Kept(x)'
    BY <1>1, <1>2 DEF Kept
  <2>. QED BY <1>1, <2>1, PullInvKept DEF pulling
<1>. QED BY <1>3, <1>4, <1>5, <1>6, <1>7

(* The body that is read is what the cache holds.                          *)
LEMMA ReadBodyStep ==
  ASSUME IInv, ReadBody
  PROVE  IInv'
<1>. USE DEF IInv, PushInv
<1>1. /\ UNCHANGED <<clock, events, local, dirty, entry, replaced, edits,
                   session>>
      /\ UNCHANGED <<queue, job, server, reached>>
      /\ UNCHANGED <<puller, listing, cur, lastSeen, newest, dropped, masked>>
      /\ pc = "claimed" /\ pc' = "put" /\ body' = local[job] /\ job \in Docs
      /\ queue[job].attempt < MaxAttempts
  BY DEF ReadBody, editor, cache, pulling, remote, JobOwned
<1>2. TypeOK'
  BY <1>1 DEF TypeOK
<1>3. JobOwned'
  BY <1>1 DEF JobOwned
<1>4. CurKnown' /\ AllReached' /\ BodyCurrent' /\ StampOlder'
  BY <1>1 DEF CurKnown, AllReached, BodyCurrent, StampOlder, AtHand
<1>5. AllTracked' /\ AllJustified'
  BY <1>1 DEF AllTracked, Unpushed, AllJustified
<1>6. PullInv'
  <2>1. \A x \in Docs : Kept(x) => Kept(x)'
    BY <1>1 DEF Kept
  <2>. QED BY <1>1, <2>1, PullInvKept DEF pulling
<1>. QED BY <1>2, <1>3, <1>4, <1>5, <1>6

(* A PUT, whether or not the server applies it and the worker learns of it. *)
LEMMA PutStep ==
  ASSUME IInv, Put
  PROVE  IInv'
<1>. USE DEF IInv, PushInv
<1>1. /\ UNCHANGED <<events, local, dirty, entry, replaced, edits,
                   session>>
      /\ UNCHANGED <<queue, job, body>>
      /\ UNCHANGED <<puller, listing, cur, lastSeen, newest, dropped, masked>>
      /\ pc = "put" /\ pc' \in {"ok", "transient", "fatal"} /\ job \in Docs
      /\ \/ pc' # "ok" /\ UNCHANGED <<clock, server, reached>>
         \/ /\ clock' = now
            /\ server' = [server EXCEPT ![job] = [content |-> body, at |-> now]]
            /\ reached' = [reached EXCEPT ![job] = reached[job] \cup {body}]
  BY ConstantFacts DEF Put, editor, cache, pulling, remote, JobOwned, Set,
     Note, Tick
<1>2. CASE pc' # "ok" /\ UNCHANGED <<clock, server, reached>>
  <2>1. TypeOK'
    BY <1>1, <1>2 DEF TypeOK
  <2>2. JobOwned' /\ CurKnown' /\ AllReached' /\ BodyCurrent' /\ StampOlder'
    BY <1>1, <1>2 DEF JobOwned, CurKnown, AllReached, BodyCurrent, StampOlder, AtHand
  <2>3. AllTracked' /\ AllJustified'
    BY <1>1, <1>2 DEF AllTracked, Unpushed, AllJustified
  <2>4. PullInv'
    <3>1. \A x \in Docs : Kept(x) => Kept(x)'
      BY <1>1, <1>2 DEF Kept
    <3>. QED BY <1>1, <1>2, <3>1, PullInvKept DEF pulling
  <2>. QED BY <2>1, <2>2, <2>3, <2>4
<1>3. CASE /\ clock' = now
           /\ server' = [server EXCEPT ![job] = [content |-> body, at |-> now]]
           /\ reached' = [reached EXCEPT ![job] = reached[job] \cup {body}]
  <2>1. /\ server'[job].at = now /\ server'[job].content = body
        /\ \A x \in Docs \ {job} : server'[x] = server[x]
        /\ \A x \in Docs : reached[x] \subseteq reached'[x]
        /\ body \in reached'[job]
    BY <1>1, <1>3 DEF TypeOK
  <2>2. TypeOK'
    <3>1. /\ server' \in [Docs -> [content: 0..now, at: 0..now]]
          /\ reached' \in [Docs -> SUBSET (0..now)]
      BY <1>1, <1>3, Widened
    <3>. QED BY <1>1, <1>3, <3>1, Widened DEF TypeOK
  <2>3. JobOwned' /\ CurKnown'
    BY <1>1 DEF JobOwned, CurKnown, AtHand
  <2>4. AllReached'
    BY <1>1, <2>1 DEF AllReached, TypeOK
  <2>5. BodyCurrent'
    BY <1>1, <2>1 DEF BodyCurrent, Quiet
  <2>6. AllTracked' /\ AllJustified'
    BY <1>1, <2>1 DEF AllTracked, Unpushed, AllJustified
  <2>7. StampOlder'
    <3>1. dirty[job] < now
      BY <1>1 DEF TypeOK, now
    <3>. QED BY <1>1, <2>1, <3>1 DEF StampOlder
  <2>8. PullInv'
    <3>1. \A x \in Docs \ {job} : Kept(x) => Kept(x)'
      BY <1>1, <2>1 DEF Kept
    <3>. QED BY <1>1, <2>1, <3>1, PullInvServer DEF pulling
  <2>. QED BY <2>2, <2>3, <2>4, <2>5, <2>6, <2>7, <2>8
<1>. QED BY <1>1, <1>2, <1>3

(* A row is deleted only when nothing was enqueued since its body was      *)
(* read: then the server has had what the cache holds.                     *)
LEMMA FinalizeSuccessStep ==
  ASSUME IInv, FinalizeSuccess
  PROVE  IInv'
<1>. USE DEF IInv, PushInv
<1>1. /\ UNCHANGED <<clock, events, local, dirty, entry, replaced, edits,
                   session>>
      /\ UNCHANGED <<job, body, server, reached>>
      /\ UNCHANGED <<puller, listing, cur, lastSeen, newest, dropped, masked>>
      /\ pc = "ok" /\ pc' = "clean" /\ job \in Docs
      /\ queue[job] \in Row /\ queue[job] # NoRow
      /\ queue' = [queue EXCEPT ![job] = Succeeded(queue[job])]
  BY DEF FinalizeSuccess, editor, cache, pulling, remote, JobOwned, Set, TypeOK
<1>2. /\ queue' \in [Docs -> Row \cup {NoRow}]
      /\ queue'[job] = NoRow <=> queue[job].pending = NoEntry
      /\ \A x \in Docs \ {job} : queue'[x] = queue[x]
  <2>1. queue'[job] = Succeeded(queue[job])
    BY <1>1 DEF TypeOK
  <2>. QED BY <1>1, <2>1, SucceededFacts DEF TypeOK
<1>3. TypeOK'
  BY <1>1, <1>2 DEF TypeOK
<1>4. JobOwned' /\ CurKnown' /\ AllReached' /\ BodyCurrent'
  BY <1>1 DEF JobOwned, CurKnown, AllReached, BodyCurrent, AtHand
<1>5. AllTracked'
  <2>1. Quiet => ~ Unpushed(job)
    BY <1>1 DEF BodyCurrent, AllReached, Unpushed
  <2>. QED BY <1>1, <1>2, <2>1 DEF AllTracked, Unpushed, Quiet
<1>6. AllJustified'
  BY <1>1, <1>2 DEF AllJustified
<1>7. StampOlder'
  BY <1>1, <1>2 DEF StampOlder, Quiet
<1>8. PullInv'
  <2>1. \A x \in Docs : Kept(x) => Kept(x)'
    BY <1>1, <1>2 DEF Kept
  <2>. QED BY <1>1, <2>1, PullInvKept DEF pulling
<1>. QED BY <1>3, <1>4, <1>5, <1>6, <1>7, <1>8

(* The stamp of a document that was pushed is cleared.                     *)
LEMMA ClearPushedStep ==
  ASSUME IInv, ClearPushed
  PROVE  IInv'
<1>. USE DEF IInv, PushInv
<1>1. /\ UNCHANGED <<clock, events, local, entry, replaced, edits, session,
                   queue>>
      /\ UNCHANGED <<server, reached>>
      /\ UNCHANGED <<puller, listing, cur, lastSeen, newest, dropped, masked>>
      /\ pc = "clean" /\ pc' = "idle" /\ job' = NoDoc /\ body' = 0
      /\ dirty' = [dirty EXCEPT ![job] = 0] /\ job \in Docs
  BY DEF ClearPushed, editor, pulling, remote, JobOwned, Set
<1>2. TypeOK'
  BY <1>1 DEF TypeOK
<1>3. JobOwned' /\ CurKnown' /\ AllReached' /\ BodyCurrent' /\ StampOlder'
  BY <1>1 DEF JobOwned, CurKnown, AllReached, BodyCurrent, StampOlder, AtHand
<1>4. AllTracked'
  BY <1>1 DEF AllTracked, Unpushed
<1>5. AllJustified'
  BY <1>1 DEF AllJustified, TypeOK
<1>6. PullInv'
  <2>1. \A x \in Docs : Kept(x) => Kept(x)'
    BY <1>1 DEF Kept
  <2>. QED BY <1>1, <2>1, PullInvKept DEF pulling
<1>. QED BY <1>2, <1>3, <1>4, <1>5, <1>6

(* A push that fails, or has no attempts left, keeps its row.              *)
LEMMA FailureStep ==
  ASSUME IInv, FinalizeFailure \/ Poison
  PROVE  IInv'
<1>. USE DEF IInv, PushInv
<1>1. /\ UNCHANGED <<clock, events, local, dirty, entry, replaced, edits,
                   session>>
      /\ UNCHANGED <<server, reached>>
      /\ UNCHANGED <<puller, listing, cur, lastSeen, newest, dropped, masked>>
      /\ pc \in {"claimed", "transient", "fatal"} /\ pc' = "idle"
      /\ job' = NoDoc /\ body' = 0 /\ job \in Docs /\ queue[job] \in Row
      /\ pc = "transient" => queue[job].attempt < MaxAttempts
  BY DEF FinalizeFailure, Poison, editor, cache, pulling, remote, JobOwned,
     TypeOK
<1>2. PICK row \in Row : queue' = [queue EXCEPT ![job] = row]
  <2>1. CASE FinalizeFailure
    <3>1. pc = "transient" /\ queue[job].attempt < MaxAttempts
      BY <1>1, <2>1 DEF FinalizeFailure
    <3>. QED BY <1>1, <2>1, <3>1, FailedFacts DEF FinalizeFailure, Set
  <2>2. CASE Poison
    BY <1>1, <2>2, RestFacts DEF Poison, Set
  <2>. QED BY <2>1, <2>2
<1>3. /\ queue' \in [Docs -> Row \cup {NoRow}]
      /\ queue'[job] # NoRow
      /\ \A x \in Docs \ {job} : queue'[x] = queue[x]
  BY <1>1, <1>2, ConstantFacts DEF TypeOK
<1>4. TypeOK'
  BY <1>1, <1>3 DEF TypeOK
<1>5. JobOwned' /\ CurKnown' /\ AllReached' /\ BodyCurrent' /\ StampOlder'
  BY <1>1 DEF JobOwned, CurKnown, AllReached, BodyCurrent, StampOlder, AtHand
<1>6. AllTracked' /\ AllJustified'
  BY <1>1, <1>3 DEF AllTracked, Unpushed, AllJustified
<1>7. PullInv'
  <2>1. \A x \in Docs : Kept(x) => Kept(x)'
    BY <1>1, <1>3 DEF Kept
  <2>. QED BY <1>1, <2>1, PullInvKept DEF pulling
<1>. QED BY <1>4, <1>5, <1>6, <1>7
-----------------------------------------------------------------------------
(* The steps of a pull that write nothing to the cache do not disturb what *)
(* the push relies on.                                                     *)
LEMMA PushInvKept ==
  ASSUME PushInv, TypeOK', CurKnown',
         UNCHANGED <<local, dirty, edits, session, queue, pc, job, body,
                     server, reached>>,
         \A r \in listing' : r.content \in reached[r.doc],
         cur'.doc \in Docs => cur'.content \in reached[cur'.doc]
  PROVE  PushInv'
<1>. USE DEF PushInv
<1>1. JobOwned' /\ AllReached' /\ BodyCurrent' /\ StampOlder'
  BY DEF JobOwned, AllReached, BodyCurrent, Quiet, StampOlder
<1>2. AllTracked' /\ AllJustified'
  BY DEF AllTracked, Unpushed, AllJustified
<1>. QED BY <1>1, <1>2

(* A pull begins, or ends for want of a list.                              *)
LEMMA AskStep ==
  ASSUME IInv, PullBegins \/ ListFails
  PROVE  IInv'
<1>. USE DEF IInv
<1>1. /\ UNCHANGED <<clock, events, local, dirty, entry, replaced, edits,
                   session>>
      /\ UNCHANGED <<queue, pc, job, body, server, reached>>
      /\ UNCHANGED <<listing, cur, lastSeen, newest, dropped, masked>>
      /\ puller' \in {"idle", "list"}
  BY DEF PullBegins, ListFails, editor, cache, pusher, remote
<1>2. TypeOK'
  BY <1>1 DEF PushInv, TypeOK
<1>3. PushInv'
  BY <1>1, <1>2, PushInvKept DEF PushInv, AllReached, CurKnown, AtHand
<1>4. ListedOrAhead'
  BY <1>1 DEF PullInv, ListedOrAhead, Record, Ahead, AtHand
<1>5. SeenHeld' /\ Accounted'
  BY <1>1 DEF PullInv, SeenHeld, Accounted, Exempt, Kept
<1>. QED BY <1>3, <1>4, <1>5 DEF PullInv

(* A listing is a snapshot of the server.                                  *)
LEMMA ListStep ==
  ASSUME IInv, List
  PROVE  IInv'
<1>. USE DEF IInv
<1>1. /\ UNCHANGED <<clock, events, local, dirty, entry, replaced, edits,
                   session>>
      /\ UNCHANGED <<queue, pc, job, body, server, reached>>
      /\ UNCHANGED <<cur, lastSeen, dropped, masked>>
      /\ newest' = lastSeen /\ puller' = "next"
      /\ listing' = {Record(d) : d \in {x \in Docs : server[x].at # 0}}
  BY DEF List, editor, cache, pusher, remote, Record
<1>2. /\ \A r \in listing' : r.doc \in Docs /\ r = Record(r.doc)
      /\ \A d \in Docs : 0 < server[d].at => Record(d) \in listing'
  BY <1>1 DEF Record, PushInv, TypeOK
<1>3. TypeOK'
  <2>1. listing' \subseteq [doc: Docs, content: 0..clock, at: 0..clock]
    BY <1>1 DEF PushInv, TypeOK, Record
  <2>. QED BY <1>1, <2>1 DEF PushInv, TypeOK
<1>4. PushInv'
  <2>1. \A r \in listing' : r.content \in reached[r.doc]
    BY <1>2 DEF PushInv, AllReached, Record
  <2>2. cur'.doc \in Docs => cur'.content \in reached[cur'.doc]
    BY <1>1 DEF PushInv, AllReached
  <2>3. CurKnown'
    BY <1>1 DEF CurKnown, AtHand
  <2>. QED BY <1>1, <1>3, <2>1, <2>2, <2>3, PushInvKept
<1>5. \A d \in Docs : (Kept(d) <=> Kept(d)') /\ Record(d)' = Record(d)
  BY <1>1 DEF Kept, Record
<1>6. ListedOrAhead'
  BY <1>1, <1>2, <1>5 DEF ListedOrAhead, AtHand
<1>7. SeenHeld'
  BY <1>1, <1>5 DEF PullInv, SeenHeld, Exempt
<1>8. Accounted'
  BY <1>1, <1>2, <1>5 DEF Accounted, Exempt
<1>. QED BY <1>4, <1>6, <1>7, <1>8 DEF PullInv

(* A stamp that is not older than the server's version stands for a        *)
(* version that will be pushed over it.                                    *)
LEMMA StampHeld ==
  ASSUME IInv, NEW d \in Docs, dirty[d] # 0, ~ (dirty[d] < server[d].at)
  PROVE  Kept(d)
BY DEF IInv, PushInv, AllJustified, StampOlder, Quiet, Kept

(* A listed version is passed over when it is held already, when a version *)
(* that will be pushed over it keeps it out, or when it is masked.         *)
LEMMA SkipStep ==
  ASSUME IInv, NEW r \in listing, Skip(r)
  PROVE  IInv'
<1>. USE DEF IInv
<1>1. /\ UNCHANGED <<clock, events, local, dirty, entry, replaced, edits,
                   session>>
      /\ UNCHANGED <<queue, pc, job, body, server, reached>>
      /\ UNCHANGED <<puller, cur, lastSeen, newest, dropped>>
      /\ puller = "next" /\ listing' = listing \ {r} /\ r.doc \in Docs
  BY DEF Skip, editor, cache, pusher, remote, PushInv, TypeOK
<1>2. /\ masked \subseteq masked' /\ masked' \subseteq Docs
      /\ ~ BelowWatermark(r) /\ dirty[r.doc] < r.at => r.doc \in masked'
  BY <1>1 DEF Skip, PushInv, TypeOK
<1>3. TypeOK'
  BY <1>1, <1>2 DEF PushInv, TypeOK
<1>4. PushInv'
  <2>1. CurKnown'
    BY <1>1 DEF PushInv, CurKnown, AtHand
  <2>. QED BY <1>1, <1>3, <2>1, PushInvKept DEF PushInv, AllReached
<1>5. /\ Exempt \subseteq Exempt'
      /\ \A d \in Docs : /\ Kept(d) <=> Kept(d)'
                         /\ Record(d)' = Record(d)
                         /\ Ahead(d) => Ahead(d)'
                         /\ InHand(d) => InHand(d)'
  BY <1>1, <1>2 DEF Kept, Record, Ahead, InHand, Exempt, AtHand
<1>6. r = Record(r.doc) /\ r.doc \notin Exempt' /\ 0 < r.at => Kept(r.doc)
  <2>. SUFFICES ASSUME r = Record(r.doc), r.doc \notin Exempt', 0 < r.at
                PROVE  Kept(r.doc)
    OBVIOUS
  <2>0. r.at = server[r.doc].at
    BY DEF Record
  <2>1. CASE BelowWatermark(r)
    BY <1>1, <1>5, <2>0, <2>1 DEF BelowWatermark, PullInv, SeenHeld
  <2>2. CASE ~ BelowWatermark(r)
    <3>1. dirty[r.doc] # 0 /\ ~ (dirty[r.doc] < server[r.doc].at)
      BY <1>1, <1>2, <2>0, <2>2 DEF Skip, GuardedByDirty, Exempt
    <3>. QED BY <1>1, <3>1, StampHeld
  <2>. QED BY <2>1, <2>2
<1>7. ListedOrAhead'
  <2>1. \A x \in listing : x.doc \in Docs
    BY DEF PushInv, TypeOK
  <2>. QED BY <1>1, <1>5, <2>1 DEF PullInv, ListedOrAhead, AtHand
<1>8. SeenHeld'
  BY <1>1, <1>5 DEF PullInv, SeenHeld
<1>9. Accounted'
  <2>. SUFFICES ASSUME NEW d \in Docs \ Exempt', 0 < server[d].at
                PROVE  Ahead(d)' \/ Record(d) \in listing' \/ Kept(d)
    BY <1>1, <1>5 DEF Accounted
  <2>1. Ahead(d) \/ Record(d) \in listing \/ Kept(d)
    BY <1>1, <1>5 DEF PullInv, Accounted, InHand, AtHand
  <2>2. CASE Record(d) = r
    BY <1>5, <1>6, <2>1, <2>2 DEF Record
  <2>. QED BY <1>1, <1>5, <2>1, <2>2
<1>. QED BY <1>4, <1>7, <1>8, <1>9 DEF PullInv

(* A listed version is taken in hand ...                                   *)
LEMMA TakeStep ==
  ASSUME IInv, NEW r \in listing, Take(r)
  PROVE  IInv'
<1>. USE DEF IInv
<1>1. /\ UNCHANGED <<clock, events, local, dirty, entry, replaced, edits,
                   session>>
      /\ UNCHANGED <<queue, pc, job, body, server, reached>>
      /\ UNCHANGED <<lastSeen, newest, dropped, masked>>
      /\ puller = "next" /\ puller' = "upsert" /\ cur' = r
      /\ listing' = listing \ {r} /\ r.doc \in Docs
  BY DEF Take, editor, cache, pusher, remote, PushInv, TypeOK
<1>2. TypeOK'
  BY <1>1 DEF PushInv, TypeOK
<1>3. PushInv'
  BY <1>1, <1>2, PushInvKept DEF PushInv, AllReached, CurKnown, AtHand
<1>4. /\ Exempt' = Exempt
      /\ \A d \in Docs : /\ Kept(d) <=> Kept(d)'
                         /\ Record(d)' = Record(d)
                         /\ Ahead(d) => Ahead(d)'
                         /\ Record(d) = r => InHand(d)'
                         /\ ~ InHand(d)
  BY <1>1 DEF Kept, Record, Ahead, InHand, Exempt, AtHand
<1>5. ListedOrAhead'
  <2>1. \A x \in listing : x.doc \in Docs
    BY DEF PushInv, TypeOK
  <2>. QED BY <1>1, <1>4, <2>1 DEF PullInv, ListedOrAhead, AtHand
<1>6. SeenHeld'
  BY <1>1, <1>4 DEF PullInv, SeenHeld
<1>7. Accounted'
  BY <1>1, <1>4 DEF PullInv, Accounted
<1>. QED BY <1>3, <1>5, <1>6, <1>7 DEF PullInv

(* ... and its document looked up, made and entered in fs_remote.          *)
LEMMA EnterStep ==
  ASSUME IInv, Enter \/ EnterInsert \/ EnterPath
  PROVE  IInv'
<1>. USE DEF IInv
<1>1. /\ UNCHANGED <<clock, events, local, dirty, edits, session>>
      /\ UNCHANGED <<queue, pc, job, body, server, reached>>
      /\ UNCHANGED <<listing, cur, lastSeen, newest, dropped, masked>>
      /\ puller \in {"upsert", "insert", "path"}
      /\ puller' \in {"insert", "path", "body"} /\ cur.doc \in Docs
      /\ replaced' \subseteq Docs
      /\ entry' \in [Docs -> {"absent", "local", "remote"}]
  BY DEF Enter, EnterInsert, EnterPath, editor, cache, pusher, remote, PushInv,
         TypeOK, CurKnown, AtHand, Set
<1>2. TypeOK'
  BY <1>1 DEF PushInv, TypeOK
<1>3. PushInv'
  BY <1>1, <1>2, PushInvKept DEF PushInv, AllReached, CurKnown, AtHand
<1>4. /\ Exempt' = Exempt
      /\ \A d \in Docs : /\ Kept(d) <=> Kept(d)'
                         /\ Record(d)' = Record(d)
                         /\ Ahead(d) => Ahead(d)'
                         /\ InHand(d) => InHand(d)'
  BY <1>1 DEF Kept, Record, Ahead, InHand, Exempt, AtHand
<1>5. ListedOrAhead'
  <2>1. \A x \in listing : x.doc \in Docs
    BY DEF PushInv, TypeOK
  <2>. QED BY <1>1, <1>4, <2>1 DEF PullInv, ListedOrAhead, AtHand
<1>6. SeenHeld'
  BY <1>1, <1>4 DEF PullInv, SeenHeld
<1>7. Accounted'
  BY <1>1, <1>4 DEF PullInv, Accounted
<1>. QED BY <1>3, <1>5, <1>6, <1>7 DEF PullInv

(* The body of the version in hand replaces what the cache holds: the      *)
(* server's own version, or one that a later version is ahead of.          *)
LEMMA UpsertStep ==
  ASSUME IInv, Upsert
  PROVE  IInv'
<1>. USE DEF IInv
<1>1. /\ UNCHANGED <<clock, events, dirty, entry, replaced, edits,
                   session>>
      /\ UNCHANGED <<queue, pc, job, body, server, reached>>
      /\ UNCHANGED <<listing, cur, lastSeen, newest>>
      /\ puller = "body" /\ puller' = "clear" /\ cur.doc \in Docs
      /\ local' = [local EXCEPT ![cur.doc] = cur.content]
      /\ dropped' = dropped \ {cur.doc} /\ masked' = masked \ {cur.doc}
  BY DEF Upsert, editor, pusher, remote, PushInv, CurKnown, Set, AtHand
<1>2. /\ local'[cur.doc] = cur.content /\ cur.content \in reached[cur.doc]
      /\ \A x \in Docs \ {cur.doc} : local'[x] = local[x]
      /\ local' \in [Docs -> 0..clock]
  BY <1>1 DEF PushInv, TypeOK, AllReached
<1>3. TypeOK'
  BY <1>1, <1>2 DEF PushInv, TypeOK
<1>4. PushInv'
  <2>1. JobOwned' /\ CurKnown' /\ AllReached' /\ StampOlder'
    BY <1>1 DEF PushInv, JobOwned, CurKnown, AllReached, StampOlder, Quiet, AtHand
  <2>2. BodyCurrent'
    BY <1>1, <1>2 DEF PushInv, BodyCurrent, Quiet, JobOwned
  <2>3. AllTracked' /\ AllJustified'
    BY <1>1, <1>2 DEF PushInv, AllTracked, Unpushed, AllJustified
  <2>. QED BY <1>3, <2>1, <2>2, <2>3 DEF PushInv
<1>5. /\ Exempt \subseteq Exempt' \cup {cur.doc}
      /\ \A d \in Docs \ {cur.doc} : Kept(d) <=> Kept(d)'
      /\ \A d \in Docs : /\ Record(d)' = Record(d)
                         /\ Ahead(d) => Ahead(d)'
      /\ \A d \in Docs \ {cur.doc} : ~ InHand(d)
  BY <1>1, <1>2 DEF Kept, Record, Ahead, InHand, Exempt, AtHand
<1>6. Ahead(cur.doc) \/ Kept(cur.doc)'
  <2>1. cur = Record(cur.doc) \/ Ahead(cur.doc)
    BY <1>1 DEF PullInv, ListedOrAhead, AtHand
  <2>2. CASE cur = Record(cur.doc)
    <3>1. local'[cur.doc] = server'[cur.doc].content
      BY <1>1, <1>2, <2>2 DEF Record
    <3>. QED BY <1>1, <3>1 DEF Kept
  <2>. QED BY <2>1, <2>2
<1>7. ListedOrAhead'
  <2>1. \A x \in listing : x.doc \in Docs
    BY DEF PushInv, TypeOK
  <2>. QED BY <1>1, <1>5, <2>1 DEF PullInv, ListedOrAhead, AtHand
<1>8. SeenHeld'
  <2>1. Ahead(cur.doc) => ~ (server[cur.doc].at <= lastSeen)
    BY <1>1 DEF Ahead, PushInv, TypeOK
  <2>. QED BY <1>1, <1>5, <1>6, <2>1 DEF PullInv, SeenHeld
<1>9. Accounted'
  BY <1>1, <1>5, <1>6 DEF PullInv, Accounted
<1>. QED BY <1>4, <1>7, <1>8, <1>9 DEF PullInv

(* The end of an upsert, well or badly, moves only what is already behind  *)
(* a version that is ahead.                                                *)
LEMMA UpsertEndStep ==
  ASSUME IInv, ClearPulled \/ UpsertFails
  PROVE  IInv'
<1>. USE DEF IInv
<1>1. /\ UNCHANGED <<clock, events, local, entry, replaced, edits,
                   session>>
      /\ UNCHANGED <<queue, pc, job, body, server, reached>>
      /\ UNCHANGED <<listing, lastSeen, masked>>
      /\ puller \notin {"idle", "list"} /\ puller' = "next"
      /\ cur.doc \in Docs /\ cur' = NoDocument
      /\ newest' = Newer(cur.at)
      /\ dropped \subseteq dropped' /\ dropped' \subseteq Docs
      /\ puller # "clear" => cur.doc \in dropped'
      /\ dirty' = dirty \/ dirty' = [dirty EXCEPT ![cur.doc] = 0]
  BY DEF ClearPulled, UpsertFails, editor, cache, pusher, remote, PushInv,
         CurKnown, TypeOK, Set, AtHand
<1>2. \A x \in Docs : dirty'[x] = dirty[x] \/ dirty'[x] = 0
  BY <1>1 DEF PushInv, TypeOK
<1>3. TypeOK'
  <2>1. dirty' \in [Docs -> 0..clock]
    BY <1>1 DEF PushInv, TypeOK
  <2>2. newest' \in 0..clock
    BY <1>1 DEF PushInv, TypeOK, Newer
  <2>3. cur' \in [doc: Docs \cup {NoDoc}, content: 0..clock, at: 0..clock]
    BY <1>1 DEF PushInv, TypeOK, NoDocument
  <2>. QED BY <1>1, <2>1, <2>2, <2>3 DEF PushInv, TypeOK
<1>4. PushInv'
  <2>1. JobOwned' /\ CurKnown' /\ BodyCurrent' /\ AllTracked'
    BY <1>1 DEF PushInv, JobOwned, CurKnown, BodyCurrent, Quiet, AllTracked,
                Unpushed, AtHand
  <2>2. AllReached'
    BY <1>1, ConstantFacts DEF PushInv, AllReached, NoDocument
  <2>3. AllJustified'
    BY <1>1, <1>2 DEF PushInv, AllJustified
  <2>4. StampOlder'
    <3>1. \A x \in Docs : dirty[x] < server[x].at => dirty'[x] < server[x].at
      BY <1>2 DEF PushInv, TypeOK
    <3>. QED BY <1>1, <3>1 DEF PushInv, StampOlder, Quiet, JobOwned
  <2>. QED BY <1>3, <2>1, <2>2, <2>3, <2>4 DEF PushInv
<1>5. \A d \in Docs : Ahead(d) => Ahead(d)'
  <2>. SUFFICES ASSUME NEW d \in Docs, Ahead(d)
                PROVE  Ahead(d)'
    OBVIOUS
  <2>1. server[d].at > Newer(cur.at)
    BY DEF Ahead, Newer
  <2>2. server[d].at > 0
    BY DEF Ahead, PushInv, TypeOK
  <2>. QED BY <1>1, <2>1, <2>2 DEF Ahead, NoDocument
<1>6. /\ Exempt \subseteq Exempt'
      /\ \A d \in Docs : /\ Kept(d) <=> Kept(d)'
                         /\ Record(d)' = Record(d)
                         /\ InHand(d) => d \in Exempt'
  BY <1>1 DEF Kept, Record, InHand, Exempt, AtHand
<1>7. ListedOrAhead'
  <2>1. \A x \in listing : x.doc \in Docs
    BY DEF PushInv, TypeOK
  <2>. QED BY <1>1, <1>5, <1>6, <2>1 DEF PullInv, ListedOrAhead, AtHand
<1>8. SeenHeld'
  BY <1>1, <1>6 DEF PullInv, SeenHeld
<1>9. Accounted'
  BY <1>1, <1>5, <1>6 DEF PullInv, Accounted
<1>. QED BY <1>4, <1>7, <1>8, <1>9 DEF PullInv

(* At the end of a pull no version is to come or at hand: one that is not  *)
(* too new for it is held.                                                 *)
LEMMA PullDoneStep ==
  ASSUME IInv, PullDone
  PROVE  IInv'
<1>. USE DEF IInv
<1>1. /\ UNCHANGED <<clock, events, local, dirty, entry, replaced, edits,
                   session>>
      /\ UNCHANGED <<queue, pc, job, body, server, reached>>
      /\ UNCHANGED <<listing, cur, newest, dropped, masked>>
      /\ puller = "next" /\ puller' = "idle" /\ listing = {}
      /\ lastSeen' = newest
  BY DEF PullDone, editor, cache, pusher, remote
<1>2. TypeOK'
  BY <1>1 DEF PushInv, TypeOK
<1>3. PushInv'
  BY <1>1, <1>2, PushInvKept DEF PushInv, AllReached, CurKnown, AtHand
<1>4. /\ Exempt' = Exempt
      /\ \A d \in Docs : Kept(d) <=> Kept(d)'
  BY <1>1 DEF Kept, Exempt
<1>5. ListedOrAhead' /\ Accounted'
  BY <1>1 DEF ListedOrAhead, Accounted, AtHand
<1>6. SeenHeld'
  <2>. SUFFICES ASSUME NEW d \in Docs \ Exempt, 0 < server[d].at,
                       server[d].at <= newest
                PROVE  Kept(d)
    BY <1>1, <1>4 DEF SeenHeld
  <2>1. ~ Ahead(d)
    BY DEF Ahead, PushInv, TypeOK
  <2>2. ~ InHand(d)
    BY <1>1 DEF InHand, AtHand
  <2>. QED BY <1>1, <2>1, <2>2 DEF PullInv, Accounted
<1>. QED BY <1>3, <1>5, <1>6 DEF PullInv
-----------------------------------------------------------------------------
LEMMA InitInv == Init => IInv
<1>. SUFFICES ASSUME Init PROVE IInv
  OBVIOUS
<1>1. TypeOK
  BY ConstantFacts DEF Init, TypeOK, NoDocument
<1>2. JobOwned /\ CurKnown /\ AllReached /\ BodyCurrent /\ StampOlder
  BY ConstantFacts DEF Init, JobOwned, CurKnown, AllReached, BodyCurrent,
     StampOlder, NoDocument, AtHand
<1>3. AllTracked /\ AllJustified
  BY DEF Init, AllTracked, Unpushed, AllJustified
<1>4. PullInv
  BY DEF Init, PullInv, ListedOrAhead, SeenHeld, Accounted, AtHand
<1>. QED BY <1>1, <1>2, <1>3, <1>4 DEF IInv, PushInv

LEMMA StepInv == IInv /\ [Next]_vars => IInv'
<1>. SUFFICES ASSUME IInv, [Next]_vars PROVE IInv'
  OBVIOUS
<1>1. CASE PushStep
  BY <1>1, ReadBodyStep, PutStep, FinalizeSuccessStep, ClearPushedStep,
     FailureStep, ClaimStep DEF PushStep
<1>2. CASE PullStep
  BY <1>2, AskStep, ListStep, EnterStep, UpsertStep, UpsertEndStep, PullDoneStep,
     SkipStep, TakeStep DEF PullStep
<1>3. ASSUME NEW d \in Docs,
             \/ Create(d) \/ Write(d) \/ Reopen(d) \/ FlushPath(d) \/ FileOp(d)
             \/ BackoffElapses(d) \/ RemoteEdit(d)
      PROVE  IInv'
  BY <1>3, EditorStep, FlushEnqueueStep, BackoffStep, RemoteEditStep DEF FileOp
<1>4. CASE Left \/ UNCHANGED vars
  <2>1. UNCHANGED <<clock, events, local, dirty, entry, replaced, edits,
                    session, queue,
                    pc, job, body, server, reached>>
    BY <1>4 DEF Left, vars, editor, cache, pusher, remote
  <2>2. UNCHANGED <<puller, listing, cur, lastSeen, newest, dropped, masked>>
    BY <1>4 DEF Left, vars, pulling
  <2>3. TypeOK' /\ CurKnown'
    BY <2>1, <2>2 DEF IInv, PushInv, TypeOK, CurKnown, AtHand
  <2>4. PushInv'
    BY <2>1, <2>2, <2>3, PushInvKept DEF IInv, PushInv, AllReached
  <2>5. PullInv'
    BY <2>1, <2>2, PullInvKept DEF IInv, pulling, Kept
  <2>. QED BY <2>4, <2>5 DEF IInv
<1>. QED BY <1>1, <1>2, <1>3, <1>4 DEF Next

(* The strengthened invariant holds in every state.                        *)
LEMMA Inductive == Spec => []IInv
BY InitInv, StepInv, PTL DEF Spec

(* TypeOK: among the types, no stamp, watermark or version is ahead of the *)
(* clock, and no push is tried more than MAX_ATTEMPTS times.               *)
THEOREM TypeCorrect == Spec => []TypeOK
<1>1. IInv => TypeOK
  BY DEF IInv, PushInv
<1>. QED BY <1>1, Inductive, PTL

(* EditTracked: an edit that the server has never had is in an open handle *)
(* or in the queue, in whatever order a push, a pull and the editor take   *)
(* their steps between its creation, its write, its close and its upload,  *)
(* up to the first entry that a create and a pull both make.               *)
THEOREM EditsTracked == Spec => []EditTracked
<1>1. IInv => EditTracked
  BY DEF IInv, PushInv, AllTracked, EditTracked
<1>. QED BY <1>1, Inductive, PTL

(* DirtyIsJustified: a stamp that is set has an open handle, a row or a    *)
(* push about to clear it.                                                 *)
THEOREM StampsJustified == Spec => []DirtyIsJustified
<1>1. IInv => DirtyIsJustified
  BY DEF IInv, PushInv, AllJustified, DirtyIsJustified
<1>. QED BY <1>1, Inductive, PTL

(* NothingMissed: the watermark of the delta pull never passes a version   *)
(* that the cache neither has nor will overwrite, unless its upsert failed *)
(* or the rounding of its time masked it.                                  *)
THEOREM WatermarkMissesNothing == Spec => []NothingMissed
<1>1. IInv => NothingMissed
  BY DEF IInv, PullInv, SeenHeld, Kept, Exempt, NothingMissed
<1>. QED BY <1>1, Inductive, PTL
=============================================================================
