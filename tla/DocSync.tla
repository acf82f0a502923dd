------------------------------ MODULE DocSync ------------------------------
(***************************************************************************)
(* Two-way synchronisation of documents: an editor writes and closes files *)
(* (cache/file.rs), the push worker uploads them (sync/push.rs), the delta *)
(* pull downloads what changed (sync/pull.rs), and the dirty_since stamp   *)
(* stands between the two.  A server and its other writers are the         *)
(* environment.                                                            *)
(*                                                                         *)
(* A document is one path and lives on: unlink, rename and the dentry      *)
(* cache are not part of this module.  It has one inode, unless create_file *)
(* and a pull both find the name free: then the second insert_dentry       *)
(* replaces the entry of the first one's inode, which no path leads to any *)
(* more, and which its close cannot enqueue unless it was enqueued before  *)
(* (fs.rs:467 and 671, file.rs:265).  Such a document is `replaced', and   *)
(* there the behaviour ends: the model does not follow two inodes of one   *)
(* path.  Namespace goes on with the entries, links and paths of both.     *)
(*                                                                         *)
(* A content is named by the time at which its author made it, 0 for the   *)
(* empty one; whatever the editor does and every PUT take a new tick of    *)
(* one clock that the server and the client share.  Contents are valid     *)
(* UTF-8: a push sends from_utf8_lossy of the bytes, which is then the     *)
(* bytes.                                                                  *)
(***************************************************************************)
EXTENDS Naturals, FiniteSets

CONSTANTS
  Docs, NoRow, NoDoc, MaxAttempts,
  MaxEvents,    (* bound: what editors and other clients do              *)
  Granule,      (* parse_iso8601_ms drops the fraction of a second: the
                   ticks of a second                                     *)
  Outcomes      (* what a push may come to, as in PushWorker             *)

Paths == Docs
Entries == {"write"}
NoEntry == "none"

INSTANCE PushQueue

ASSUME SyncAssumption ==
  /\ NoRow \notin Row
  /\ NoDoc \notin Docs
  /\ MaxAttempts \in Nat \ {0}
  /\ MaxEvents \in Nat
  /\ Granule \in Nat \ {0}
  /\ Outcomes # {}
  /\ Outcomes \subseteq {"ok", "transient", "fatal"}

VARIABLES
  clock, events,
  local,      (* the content in the cache                                *)
  dirty,      (* fs_inode.dirty_since, 0 for NULL                        *)
  entry,      (* "absent", "local": the path has an inode,
                 "remote": fs_remote knows it as well                    *)
  session,    (* the editor's file handle                                *)
  replaced,   (* documents with a second inode: see above                *)
  queue,      (* push_queue                                              *)
  pc, job, body,              (* push worker: position, document, content *)
  server,     (* what the server has: content and updated_at             *)
  puller, listing, cur,       (* delta pull: position, rest of the list,
                                 the document at hand                    *)
  lastSeen, newest,           (* the watermark, and the one to come      *)
  edits,      (* history: contents made by the editor                    *)
  reached,    (* history: contents the server has held                   *)
  dropped,    (* history: documents whose upsert failed, and that were
                 not written by a pull since                             *)
  masked      (* history: documents of which a pull skipped a version
                 newer than the stamp that kept it out, and that were
                 not written by a pull since                             *)

editor == <<events, session>>
cache == <<local, dirty, entry, replaced>>
pusher == <<pc, job, body>>
pulling == <<puller, listing, cur, lastSeen, newest, dropped, masked>>
remote == <<server, reached>>
vars == <<clock, edits, editor, cache, queue, pusher, pulling, remote>>

NoDocument == [doc |-> NoDoc, content |-> 0, at |-> 0]

Init ==
  /\ clock = 0 /\ events = 0
  /\ local = [d \in Docs |-> 0]
  /\ dirty = [d \in Docs |-> 0]
  /\ entry = [d \in Docs |-> "absent"]
  /\ session = [d \in Docs |-> "closed"]
  /\ replaced = {}
  /\ queue = [d \in Docs |-> NoRow]
  /\ pc = "idle" /\ job = NoDoc /\ body = 0
  /\ server = [d \in Docs |-> [content |-> 0, at |-> 0]]
  /\ puller = "idle" /\ listing = {} /\ cur = NoDocument
  /\ lastSeen = 0 /\ newest = 0
  /\ edits = [d \in Docs |-> {}]
  /\ reached = [d \in Docs |-> {0}]
  /\ dropped = {} /\ masked = {}

now == clock + 1
Tick == clock' = now
Event == events < MaxEvents /\ events' = events + 1
Set(f, d, v) == [f EXCEPT ![d] = v]
Note(h, d, v) == [h EXCEPT ![d] = h[d] \cup {v}]
-----------------------------------------------------------------------------
(* The editor: create_file finds no entry ...                              *)
Create(d) ==
  /\ entry[d] = "absent" /\ session[d] = "closed"
  /\ Event /\ Tick
  /\ session' = Set(session, d, "creating")
  /\ UNCHANGED <<cache, edits, queue, pusher, pulling, remote>>

(* ... makes an empty file, whose entry replaces one that a pull has made  *)
(* since, and opens it.                                                    *)
CreateInsert(d) ==
  /\ session[d] = "creating"
  /\ entry' = Set(entry, d, "local")
  /\ replaced' = replaced \cup {x \in {d} : entry[x] # "absent"}
  /\ session' = Set(session, d, "open")
  /\ UNCHANGED <<clock, events, local, dirty, edits, queue, pusher, pulling,
                 remote>>

(* DbFile::write stores the chunks under the connection's lock ...         *)
Write(d) ==
  /\ entry[d] # "absent"
  /\ session[d] \in {"closed", "open"}
  /\ Event /\ Tick
  /\ local' = Set(local, d, now)
  /\ edits' = Note(edits, d, now)
  /\ session' = Set(session, d, "written")
  /\ UNCHANGED <<dirty, entry, replaced, queue, pusher, pulling, remote>>

(* ... and stamps dirty_since after releasing it.                          *)
StampWrite(d) ==
  /\ session[d] = "written"
  /\ dirty' = Set(dirty, d, clock)
  /\ session' = Set(session, d, "open")
  /\ UNCHANGED <<clock, events, local, entry, replaced, edits, queue, pusher,
                 pulling, remote>>

(* A file is opened to be read; its close flushes all the same.            *)
Reopen(d) ==
  /\ session[d] = "closed" /\ entry[d] # "absent"
  /\ Event /\ Tick
  /\ session' = Set(session, d, "open")
  /\ UNCHANGED <<cache, edits, queue, pusher, pulling, remote>>

(* DbFile::flush registers the remote path ...                             *)
FlushPath(d) ==
  /\ session[d] = "open"
  /\ entry' = Set(entry, d, "remote")
  /\ session' = Set(session, d, "flushing")
  /\ UNCHANGED <<clock, events, local, dirty, replaced, edits, queue, pusher,
                 pulling, remote>>

(* ... stamps dirty_since ...                                              *)
FlushStamp(d) ==
  /\ session[d] = "flushing"
  /\ dirty' = Set(dirty, d, clock)
  /\ session' = Set(session, d, "stamped")
  /\ UNCHANGED <<clock, events, local, entry, replaced, edits, queue, pusher,
                 pulling, remote>>

(* ... and enqueues the write.                                             *)
FlushEnqueue(d) ==
  /\ session[d] = "stamped"
  /\ queue' = Set(queue, d, Upserted(queue[d], "write"))
  /\ session' = Set(session, d, "closed")
  /\ UNCHANGED <<clock, events, cache, edits, pusher, pulling, remote>>
-----------------------------------------------------------------------------
(* The push worker: drain_available and execute_push for a Write.          *)
Claim(d) ==
  /\ pc = "idle"
  /\ Claimable(queue[d])
  /\ queue' = Set(queue, d, Claimed(queue[d]))
  /\ pc' = "claimed"
  /\ job' = d
  /\ UNCHANGED <<clock, edits, editor, cache, body, pulling, remote>>

(* Mutant of ReadBody: MAX_ATTEMPTS is off by one. *)
ReadBodyOneMore ==
  /\ pc = "claimed" /\ queue[job].attempt <= MaxAttempts
  /\ body' = local[job]
  /\ pc' = "put"
  /\ UNCHANGED <<clock, edits, editor, cache, queue, job, pulling, remote>>

(* read_all_content: the body is what the cache holds now, not what it     *)
(* held when the write was enqueued.                                       *)
ReadBody ==
  /\ pc = "claimed" /\ queue[job].attempt < MaxAttempts
  /\ body' = local[job]
  /\ pc' = "put"
  /\ UNCHANGED <<clock, edits, editor, cache, queue, job, pulling, remote>>

(* put_doc without expected_content_hash: the server takes any body.       *)
Put ==
  /\ pc = "put"
  /\ \E outcome \in Outcomes, applied \in BOOLEAN :
       /\ outcome = "ok" => applied
       /\ pc' = outcome
       /\ IF applied
          THEN /\ Tick
               /\ server' = Set(server, job, [content |-> body, at |-> now])
               /\ reached' = Note(reached, job, body)
          ELSE UNCHANGED <<clock, remote>>
  /\ UNCHANGED <<edits, editor, cache, queue, job, body, pulling>>

FinalizeSuccess ==
  /\ pc = "ok"
  /\ queue' = Set(queue, job, Succeeded(queue[job]))
  /\ pc' = "clean"
  /\ UNCHANGED <<clock, edits, editor, cache, job, body, pulling, remote>>

(* Mutant of ClearPushed: the stamp stays. *)
KeepStamp ==
  /\ pc = "clean"
  /\ pc' = "idle" /\ job' = NoDoc /\ body' = 0
  /\ UNCHANGED <<clock, edits, editor, cache, queue, pulling, remote>>

(* "Clear dirty_since: the local edit is now on the server."               *)
ClearPushed ==
  /\ pc = "clean"
  /\ dirty' = Set(dirty, job, 0)
  /\ pc' = "idle" /\ job' = NoDoc /\ body' = 0
  /\ UNCHANGED <<clock, edits, editor, local, entry, replaced, queue, pulling,
                 remote>>

FinalizeFailure ==
  /\ pc = "transient"
  /\ \E row \in Failed(queue[job]) : queue' = Set(queue, job, row)
  /\ pc' = "idle" /\ job' = NoDoc /\ body' = 0
  /\ UNCHANGED <<clock, edits, editor, cache, pulling, remote>>

(* A fatal answer, or no attempts left.                                    *)
Poison ==
  /\ \/ pc = "fatal"
     \/ pc = "claimed" /\ queue[job].attempt >= MaxAttempts
  /\ queue' = Set(queue, job, Poisoned(queue[job]))
  /\ pc' = "idle" /\ job' = NoDoc /\ body' = 0
  /\ UNCHANGED <<clock, edits, editor, cache, pulling, remote>>

BackoffElapses(d) ==
  /\ queue[d] # NoRow /\ ~ queue[d].due
  /\ queue' = Set(queue, d, [queue[d] EXCEPT !.due = TRUE])
  /\ UNCHANGED <<clock, edits, editor, cache, pusher, pulling, remote>>
-----------------------------------------------------------------------------
(* Another client of the brain. *)
RemoteEdit(d) ==
  /\ events < MaxEvents /\ events' = events + 1
  /\ Tick
  /\ server' = Set(server, d, [content |-> now, at |-> now])
  /\ reached' = Note(reached, d, now)
  /\ UNCHANGED <<edits, session, cache, queue, pusher, pulling>>
-----------------------------------------------------------------------------
(* delta_pull asks for the list of documents; list_docs fails, and the     *)
(* pull with it ...                                                        *)
PullBegins ==
  /\ puller = "idle"
  /\ puller' = "list"
  /\ UNCHANGED <<clock, edits, editor, cache, queue, pusher, remote, listing,
                 cur, lastSeen, newest, dropped, masked>>

ListFails ==
  /\ puller = "list"
  /\ puller' = "idle"
  /\ UNCHANGED <<clock, edits, editor, cache, queue, pusher, remote, listing,
                 cur, lastSeen, newest, dropped, masked>>

(* ... or it answers with a snapshot of the server ...                     *)
List ==
  /\ puller = "list"
  /\ listing' = {[doc |-> d, content |-> server[d].content, at |-> server[d].at] :
                   d \in {x \in Docs : server[x].at # 0}}
  /\ newest' = lastSeen
  /\ puller' = "next"
  /\ UNCHANGED <<clock, edits, editor, cache, queue, pusher, remote, cur,
                 lastSeen, dropped, masked>>

RemoteMs(at) == (at \div Granule) * Granule

BelowWatermark(r) == lastSeen # 0 /\ r.at <= lastSeen

GuardedByDirty(r) ==
  entry[r.doc] = "remote" /\ dirty[r.doc] # 0 /\ dirty[r.doc] >= RemoteMs(r.at)

(* ... and each listed document is passed over, or taken.                  *)
Skip(r) ==
  /\ puller = "next" /\ r \in listing
  /\ BelowWatermark(r) \/ GuardedByDirty(r)
  /\ listing' = listing \ {r}
  /\ masked' = IF ~ BelowWatermark(r) /\ dirty[r.doc] < r.at
               THEN masked \cup {r.doc} ELSE masked
  /\ UNCHANGED <<clock, edits, editor, cache, queue, pusher, remote, puller,
                 cur, lastSeen, newest, dropped>>

Take(r) ==
  /\ puller = "next" /\ r \in listing
  /\ ~ BelowWatermark(r) /\ ~ GuardedByDirty(r)
  /\ listing' = listing \ {r}
  /\ cur' = r
  /\ puller' = "upsert"
  /\ UNCHANGED <<clock, edits, editor, cache, queue, pusher, remote, lastSeen,
                 newest, dropped, masked>>

Newer(at) == IF at > newest THEN at ELSE newest

(* upsert_brain_doc looks the document up ...                              *)
Enter ==
  /\ puller = "upsert"
  /\ puller' = IF entry[cur.doc] = "absent" THEN "insert" ELSE "body"
  /\ UNCHANGED <<clock, edits, editor, cache, queue, pusher, remote,
                 listing, cur, lastSeen, newest, dropped, masked>>

(* ... makes it, in the place of one that was created since ...            *)
EnterInsert ==
  /\ puller = "insert"
  /\ entry' = Set(entry, cur.doc, "local")
  /\ replaced' = replaced \cup {x \in {cur.doc} : entry[x] # "absent"}
  /\ puller' = "path"
  /\ UNCHANGED <<clock, edits, editor, local, dirty, queue, pusher, remote,
                 listing, cur, lastSeen, newest, dropped, masked>>

(* ... enters it in fs_remote ...                                          *)
EnterPath ==
  /\ puller = "path"
  /\ entry' = Set(entry, cur.doc, "remote")
  /\ puller' = "body"
  /\ UNCHANGED <<clock, edits, editor, local, dirty, replaced, queue, pusher,
                 remote, listing, cur, lastSeen, newest, dropped, masked>>

(* ... and write_content_to_ino replaces what it holds.                    *)
Upsert ==
  /\ puller = "body"
  /\ local' = Set(local, cur.doc, cur.content)
  /\ dropped' = dropped \ {cur.doc} /\ masked' = masked \ {cur.doc}
  /\ puller' = "clear"
  /\ UNCHANGED <<clock, edits, editor, dirty, entry, replaced, queue, pusher,
                 remote, listing, cur, lastSeen, newest>>

ClearPulled ==
  /\ puller = "clear"
  /\ dirty' = Set(dirty, cur.doc, 0)
  /\ newest' = Newer(cur.at)
  /\ puller' = "next" /\ cur' = NoDocument
  /\ UNCHANGED <<clock, edits, editor, local, entry, replaced, queue, pusher,
                 remote, listing, lastSeen, dropped, masked>>

(* An upsert that fails is not retried, and moves the watermark.  (Failing *)
(* half way, with some chunks gone, is not modelled.)                      *)
UpsertFails ==
  /\ puller \in {"upsert", "insert", "body"}
  /\ dropped' = dropped \cup {cur.doc}
  /\ newest' = Newer(cur.at)
  /\ puller' = "next" /\ cur' = NoDocument
  /\ UNCHANGED <<clock, edits, editor, cache, queue, pusher, remote, listing,
                 lastSeen, masked>>

(* Mutant of PullDone: the watermark is the time at which the pull ends. *)
PullDoneNow ==
  /\ puller = "next" /\ listing = {}
  /\ lastSeen' = clock
  /\ puller' = "idle"
  /\ UNCHANGED <<clock, edits, editor, cache, queue, pusher, remote, listing,
                 cur, newest, dropped, masked>>

(* The end of the list: the watermark moves to the newest document taken. *)
PullDone ==
  /\ puller = "next" /\ listing = {}
  /\ lastSeen' = newest
  /\ puller' = "idle"
  /\ UNCHANGED <<clock, edits, editor, cache, queue, pusher, remote, listing,
                 cur, newest, dropped, masked>>
-----------------------------------------------------------------------------
FileOp(d) ==
  CreateInsert(d) \/ StampWrite(d) \/ FlushStamp(d) \/ FlushEnqueue(d)

PushStep ==
  \/ ReadBody \/ Put \/ FinalizeSuccess \/ ClearPushed \/ FinalizeFailure
  \/ Poison
  \/ \E d \in Docs : Claim(d)

PullStep ==
  \/ PullBegins \/ List \/ ListFails \/ Enter \/ EnterInsert \/ EnterPath
  \/ Upsert \/ UpsertFails \/ ClearPulled \/ PullDone
  \/ \E r \in listing : Skip(r) \/ Take(r)

Followed == replaced = {}

(* The end of a behaviour in which a document has got two inodes. *)
Left == ~ Followed /\ UNCHANGED vars

Next ==
  \/ Followed /\ PushStep
  \/ Followed /\ PullStep
  \/ /\ Followed
     /\ \E d \in Docs :
          \/ Create(d) \/ Write(d) \/ Reopen(d) \/ FlushPath(d) \/ FileOp(d)
          \/ BackoffElapses(d) \/ RemoteEdit(d)
  \/ Left

Spec == Init /\ [][Next]_vars

(* The runtime runs an operation that has begun, the push worker and the   *)
(* pull loop; timers end; and one of the lists that the pull loop asks for *)
(* again and again arrives.  Nobody has to write or to close.              *)
FairSpec ==
  /\ Spec
  /\ WF_vars(Followed /\ PushStep)
  /\ WF_vars(Followed /\ PullStep)
  /\ SF_vars(Followed /\ List)
  /\ \A d \in Docs : /\ WF_vars(Followed /\ FileOp(d))
                     /\ WF_vars(Followed /\ BackoffElapses(d))
-----------------------------------------------------------------------------
(* The types: no content, stamp or watermark is ahead of the clock, and no *)
(* row is tried more than MAX_ATTEMPTS times.                              *)
TypeOK ==
  /\ clock \in Nat /\ events \in 0..MaxEvents
  /\ local \in [Docs -> 0..clock]
  /\ dirty \in [Docs -> 0..clock]
  /\ entry \in [Docs -> {"absent", "local", "remote"}]
  /\ session \in [Docs -> {"closed", "creating", "written", "open",
                        "flushing", "stamped"}]
  /\ replaced \subseteq Docs
  /\ queue \in [Docs -> Row \cup {NoRow}]
  /\ pc \in {"idle", "claimed", "put", "ok", "transient", "fatal", "clean"}
  /\ job \in Docs \cup {NoDoc}
  /\ body \in 0..clock
  /\ server \in [Docs -> [content: 0..clock, at: 0..clock]]
  /\ puller \in {"idle", "list", "next", "upsert", "insert", "path", "body",
                "clear"}
  /\ listing \subseteq [doc: Docs, content: 0..clock, at: 0..clock]
  /\ cur \in [doc: Docs \cup {NoDoc}, content: 0..clock, at: 0..clock]
  /\ lastSeen \in 0..clock /\ newest \in 0..clock
  /\ edits \in [Docs -> SUBSET (0..clock)]
  /\ reached \in [Docs -> SUBSET (0..clock)]
  /\ dropped \subseteq Docs /\ masked \subseteq Docs

(* The cache holds an edit that the server has never had. *)
Unpushed(d) == local[d] \in edits[d] /\ local[d] \notin reached[d]

(* No edit is forgotten: one that the server has never had is in an open   *)
(* handle, whose close will enqueue it, or its document has a row.  Not so *)
(* for a file whose entry a pull has replaced: see above.                  *)
EditTracked ==
  \A d \in Docs \ replaced :
    Unpushed(d) => session[d] # "closed" \/ queue[d] # NoRow

(* dirty_since does not outlive its reason: while it is set, and so keeps  *)
(* older remote versions out, a handle is open, a row waits to be pushed,  *)
(* or the push that will clear it is being concluded.  A pull never leaves *)
(* a stamp behind on a document of one inode.                              *)
DirtyIsJustified ==
  \A d \in Docs \ replaced :
    dirty[d] # 0 =>
      \/ session[d] # "closed"
      \/ queue[d] # NoRow
      \/ pc = "clean" /\ job = d

(* The watermark misses nothing: a server version at or below it is what   *)
(* the cache holds, or its upsert failed, or there is a local version that *)
(* will be pushed over it, or its time, cut down to the second, hid it     *)
(* behind an older stamp; or the document has two inodes.                  *)
NothingMissed ==
  \A d \in Docs \ (dropped \cup masked \cup replaced) :
    0 < server[d].at /\ server[d].at <= lastSeen =>
      \/ local[d] = server[d].content
      \/ session[d] # "closed"
      \/ queue[d] # NoRow

(* When editors and remote writers have come to rest, so do the documents: *)
(* the cache and the server agree on every document that is closed, not    *)
(* stuck in the queue, and whose last version was pulled and written,      *)
(* unless the behaviour is followed no further.                            *)
Converges ==
  <>[](\A d \in Docs \ (dropped \cup masked) :
         Followed /\ session[d] = "closed" /\ queue[d] = NoRow =>
           local[d] = server[d].content)

(* pull.rs:247: parse_iso8601_ms gives milliseconds, so a stamp keeps out  *)
(* only versions that are not newer than itself.  It gives whole seconds:  *)
(* a version of the second of the stamp, but after it, is skipped, and     *)
(* when the watermark moves on and the stamp is cleared it is lost.        *)
StampHidesOlder == masked = {}

(* dirty_since protects local edits: a pull replaces an edit that was      *)
(* never pushed only by a version that is newer than the edit.             *)
PullSparesEdits ==
  [][\A d \in Docs :
       puller = "body" /\ local'[d] # local[d] /\ Unpushed(d) =>
         cur.at > local[d]]_vars

(* "Clear dirty_since: the local edit is now on the server."  When a push  *)
(* clears the stamp, the server has had what the cache holds.              *)
ClearedEditIsPushed ==
  [][pc = "clean" /\ pc' = "idle" => ~ Unpushed(job)]_vars
=============================================================================
