----------------------------- MODULE Namespace -----------------------------
(***************************************************************************)
(* cache/fs.rs: the directory tree that UnisonFs keeps in three tables     *)
(* (fs_inode, fs_dentry, fs_remote) behind an LRU cache of directory       *)
(* entries, the push queue its operations fill, and the two loops that     *)
(* work on the same tables: the push worker and the pull of a document.    *)
(*                                                                         *)
(* Every statement takes the connection's lock for itself, so a step is    *)
(* one statement.  Three actors take turns: the session thread, which has  *)
(* one file-system request in hand at a time; the pull, with one document  *)
(* in hand; and the push worker, with one row.  What an actor knows from   *)
(* its earlier statements is in req, pull and job.                         *)
(*                                                                         *)
(* These statements share a step with the next one, because nobody can     *)
(* tell: an inode is made together with its entry (its number is not known *)
(* to anyone before); an inode's kind, which never changes, is asked for   *)
(* together with the lookup that led to it; lookup_ino fills the LRU with  *)
(* what it has read; build_path_for_ino reads all entries on the way up    *)
(* (during a flush they can only go, and without one it has no path).      *)
(*                                                                         *)
(* A request that fails has the effect of the lookup it starts with, and   *)
(* is Lookup here.  Every push succeeds (failures are module PushWorker),  *)
(* and a pull may skip a document (module DocSync says when).  What the    *)
(* kernel itself refuses never arrives: a rename onto the same inode,      *)
(* between a directory and a file, or of anything below itself, nor a link *)
(* there or onto a name that exists, as the kernel's lookup sees them      *)
(* before the request.  A path of the brain is a sequence of names;        *)
(* Private stands for the directory private/notes, which the first pull    *)
(* makes and nobody renames or removes.                                    *)
(***************************************************************************)
EXTENDS Naturals, Sequences, FiniteSets

CONSTANTS
  Names,     (* names of directory entries                               *)
  Private,   (* private/notes, where bare paths go                       *)
  Docs,      (* paths below Private that may hold a document at first    *)
  MaxIno,    (* bound: inode numbers handed out                          *)
  CacheMax,  (* DENTRY_CACHE_MAX                                         *)
  MaxLinks,  (* bound: link count of a file                              *)
  MaxRequests,  (* bound: file-system requests that change something     *)
  MaxRows,   (* bound: paths in the push queue at once                   *)
  NoRow, NoEntry

Root == 1
Notes == 2    (* the inode of Private *)
NoIno == 0

Op(kind, ino, to) == [kind |-> kind, ino |-> ino, to |-> to]

(* What the queue can hold, and the paths documents can have. *)
Ops == [kind: {"write", "rename", "delete"}, ino: 0..MaxIno,
        to: Names \cup {Private}]
QueueRow == [op: Ops, pending: Ops \cup {NoEntry}, inflight: BOOLEAN,
             attempt: {0}, poisoned: BOOLEAN, due: BOOLEAN]
IsPath(p) ==
  /\ p \in Seq(Names \cup {Private}) /\ Len(p) >= 2
  /\ p[1] = Private /\ \A c \in 2..Len(p) : p[c] \in Names

ASSUME NamespaceAssumption ==
  /\ Private \notin Names
  /\ \A p \in Docs : IsPath(p)
  /\ MaxIno \in Nat /\ MaxIno >= Notes
  /\ MaxLinks \in Nat \ {0}
  /\ NoEntry \notin Ops /\ NoRow \notin QueueRow

NoReq == [key |-> <<Root, Private>>, to |-> <<Root, Private>>, ino |-> NoIno,
          old |-> NoIno, path |-> <<>>, kind |-> "file"]
NoPull == [path |-> <<>>, level |-> 1, dir |-> NoIno, ino |-> NoIno]
NoJob == [path |-> <<>>, kind |-> "write", ino |-> NoIno]

VARIABLES
  inode,    (* fs_inode: number -> [kind, nlink]                         *)
  nextIno,  (* AUTOINCREMENT of fs_inode                                 *)
  dentry,   (* fs_dentry: <<directory, name>> -> number                  *)
  cache,    (* dentry_cache: the same, filled by lookups                 *)
  remote,   (* fs_remote: number -> path of the brain                    *)
  rows,     (* push_queue: path -> row                                   *)
  brain,    (* the paths that hold a document on the server              *)
  asked,    (* the requests there have been, up to MaxRequests           *)
  at, req,     (* the session thread: its next statement, its request    *)
  stage, pull, (* the pull: likewise, and its document                   *)
  step, job,   (* the push worker: likewise, and its row                 *)
  misled,   (* history: a lookup was answered against fs_dentry          *)
  strayed,  (* history: inodes that a rename, a link or the loss of what
               is above them gave another path than they had, or that a
               pull brought back between an unlink and its Delete, or
               whose path it recorded after their last unlink            *)
  replaced, (* history: inodes that lost their entry to a statement that
               did not know of it: the insert of another inode under the
               name, or the removal of what the name had led to before   *)
  shared    (* history: paths that two inodes had at once                *)

tree == <<inode, nextIno, dentry>>
session == <<asked, at, req>>
puller == <<stage, pull>>
pusher == <<step, job>>
history == <<strayed, replaced>>
vars == <<tree, cache, remote, rows, brain, session, puller, pusher, misled,
          history, shared>>

Q == INSTANCE PushQueue WITH
  Paths <- DOMAIN rows, Entries <- {rows[p].op : p \in DOMAIN rows},
  MaxAttempts <- 1

Live == DOMAIN inode
Dirs == {i \in Live : inode[i].kind = "dir"}
Files == {i \in Live : inode[i].kind = "file"}

Without(f, S) == [x \in DOMAIN f \ S |-> f[x]]
With(f, x, v) == [y \in DOMAIN f \cup {x} |-> IF y = x THEN v ELSE f[y]]
Row(p) == IF p \in DOMAIN rows THEN rows[p] ELSE NoRow
Queued(p, op) == With(rows, p, Q!Upserted(Row(p), op))

(* The directory entries of i, and of all in directory i. *)
Entries(i) == {k \in DOMAIN dentry : dentry[k] = i}
Children(i) == {k \in DOMAIN dentry : k[1] = i}

(* i and what is below it. *)
Below(i) ==
  LET reach[k \in 0..MaxIno] ==
        IF k = 0 THEN {i}
        ELSE LET r == reach[k - 1]
             IN r \cup {dentry[e] : e \in {x \in DOMAIN dentry : x[1] \in r}}
  IN reach[MaxIno]

(* The ways up from each inode to the root, as sequences of names, from    *)
(* those that are shorter by an entry.                                     *)
Further(ways) ==
  [j \in 1..MaxIno |->
     UNION {IF e[1] = Root THEN {<<e[2]>>} ELSE {Append(w, e[2]) : w \in ways[e[1]]} :
              e \in Entries(j)}]

Ways(i) ==
  LET up[k \in 0..MaxIno] ==
        IF k = 0 THEN [j \in 1..MaxIno |-> {}] ELSE Further(up[k - 1])
  IN up[MaxIno][i]

(* build_path_for_ino: a bare path is taken to be one of private/notes.    *)
(* An inode with two names has one of the two paths; one that cannot be    *)
(* reached has none.                                                       *)
BuildPaths(i) ==
  {IF Head(w) = Private THEN w ELSE <<Private>> \o w : w \in Ways(i)}
-----------------------------------------------------------------------------
(* lookup_ino over given tables: the cache answers before fs_dentry does,  *)
(* and is filled from it.  Nothing ever takes an entry out again but the   *)
(* LRU's own capacity.                                                     *)
SeenIn(k, lru, dents) ==
  IF k \in DOMAIN lru THEN lru[k]
  ELSE IF k \in DOMAIN dents THEN dents[k] ELSE NoIno
FilledIn(k, lru, dents) ==
  IF k \in DOMAIN lru \/ k \notin DOMAIN dents THEN lru
  ELSE With(lru, k, dents[k])
WrongIn(k, lru, dents) ==
  k \in DOMAIN lru /\ (k \notin DOMAIN dents \/ dents[k] # lru[k])

Seen(k) == SeenIn(k, cache, dentry)
Filled(k) == FilledIn(k, cache, dentry)
Wrong(k) == WrongIn(k, cache, dentry)

(* Mutant of Dropped: the count is tested before it is lowered.            *)
DroppedLate(nodes, i) ==
  IF i \notin DOMAIN nodes THEN nodes
  ELSE IF nodes[i].nlink = 0 THEN Without(nodes, {i})
  ELSE [nodes EXCEPT ![i].nlink = @ - 1]

(* decr_nlink_and_maybe_remove on fs_inode: a directory starts with two    *)
(* links, so its row outlives its entry.                                   *)
Dropped(nodes, i) ==
  IF i \notin DOMAIN nodes THEN nodes
  ELSE IF nodes[i].nlink <= 1 THEN Without(nodes, {i})
  ELSE [nodes EXCEPT ![i].nlink = @ - 1]

(* Mutant of Forgotten: the path outlives the inode. *)
ForgottenNever(paths, i) == paths

(* ... and on fs_remote, whose row goes with the inode. *)
Forgotten(paths, i) ==
  IF i \in Live /\ inode[i].nlink > 1 THEN paths ELSE Without(paths, {i})

(* What name k leads to, and all that is lost with it. *)
Bearer(k) == IF k \in DOMAIN dentry THEN {dentry[k]} ELSE {}
Lost(k) == UNION {Below(i) : i \in Bearer(k)}

Init ==
  /\ inode = [i \in {Root, Notes} |-> [kind |-> "dir", nlink |-> 2]]
  /\ nextIno = Notes + 1
  /\ dentry = With(<<>>, <<Root, Private>>, Notes)
  /\ cache = <<>> /\ remote = <<>> /\ rows = <<>>
  /\ brain \in SUBSET Docs
  /\ asked = 0 /\ at = "idle" /\ req = NoReq
  /\ stage = "idle" /\ pull = NoPull
  /\ step = "idle" /\ job = NoJob
  /\ misled = FALSE /\ strayed = {} /\ replaced = {} /\ shared = {}
-----------------------------------------------------------------------------
(* The statements that several operations share. *)

(* lookup_ino; what the LRU lets go to make room is left open.             *)
Looks(k) ==
  /\ \E S \in SUBSET DOMAIN Filled(k) : cache' = Without(Filled(k), S)
  /\ misled' = (misled \/ Wrong(k))

(* insert_dentry, over whatever the name leads to by now.                  *)
Inserts(k, i) ==
  /\ dentry' = With(dentry, k, i)
  /\ replaced' = replaced \cup Bearer(k)

(* A new inode and its entry.                                              *)
Makes(k, kind) ==
  /\ nextIno <= MaxIno
  /\ inode' = With(inode, nextIno, [kind |-> kind,
                                    nlink |-> IF kind = "dir" THEN 2 ELSE 1])
  /\ nextIno' = nextIno + 1
  /\ Inserts(k, nextIno)

(* remove_dentry of a name that has led to i: what is below i, and i if it *)
(* has another name, stay behind.                                          *)
Removes(k, i) ==
  /\ dentry' = Without(dentry, {k})
  /\ replaced' = replaced \cup (Bearer(k) \ {i})
  /\ strayed' = strayed \cup (Lost(k) \ {i})
                  \cup {x \in {i} : Entries(x) \ {k} # {}}

(* decr_nlink_and_maybe_remove of an inode that the pull may be about to   *)
(* record a path for.                                                      *)
Drops(i) ==
  /\ inode' = Dropped(inode, i)
  /\ remote' = Forgotten(remote, i)
  /\ strayed' = strayed \cup ({i} \cap {pull.ino})

(* The session thread takes a request, goes on to its next statement, and  *)
(* is done.                                                                *)
Begins(pos, r) ==
  /\ at = "idle" /\ asked < MaxRequests
  /\ at' = pos /\ req' = r /\ asked' = asked + 1
Knows(pos, r) == at' = pos /\ req' = r /\ UNCHANGED asked
Goes(pos) == Knows(pos, req)
Done == Knows("idle", NoReq)
-----------------------------------------------------------------------------
(* lookup, getattr, open, and every request that fails after its lookup. *)
Lookup(d, n) ==
  /\ at = "idle"
  /\ Looks(<<d, n>>)
  /\ UNCHANGED <<tree, remote, rows, brain, session, puller, pusher, history>>

(* mkdir, create_file and symlink of a name the lookup does not find. *)
MakeLooks(d, n, kind) ==
  /\ Seen(<<d, n>>) = NoIno /\ Looks(<<d, n>>)
  /\ Begins("make", [NoReq EXCEPT !.key = <<d, n>>, !.kind = kind])
  /\ UNCHANGED <<tree, remote, rows, brain, puller, pusher, history>>

Mkdir(d, n) == MakeLooks(d, n, "dir")
CreateFile(d, n) == MakeLooks(d, n, "file")
Symlink(d, n) == MakeLooks(d, n, "symlink")

MakeInserts ==
  /\ at = "make" /\ Done
  /\ Makes(req.key, req.kind)
  /\ strayed' = strayed \cup Lost(req.key)
  /\ UNCHANGED <<cache, remote, rows, brain, puller, pusher, misled>>

Rmdir(d, n) ==
  LET k == <<d, n>>
  IN /\ Seen(k) \in Dirs /\ Looks(k)
     /\ Begins("check", [NoReq EXCEPT !.key = k, !.ino = Seen(k)])
     /\ UNCHANGED <<tree, remote, rows, brain, puller, pusher, history>>

RmdirChecks ==
  /\ at = "check"
  /\ IF Children(req.ino) = {} THEN Goes("remove") ELSE Done
  /\ UNCHANGED <<tree, cache, remote, rows, brain, puller, pusher, misled,
                 history>>

Unlink(d, n) ==
  LET k == <<d, n>>
  IN /\ Seen(k) \in Live \ Dirs /\ Looks(k)
     /\ Begins("path", [NoReq EXCEPT !.key = k, !.ino = Seen(k)])
     /\ UNCHANGED <<tree, remote, rows, brain, puller, pusher, history>>

UnlinkPath ==
  /\ at = "path"
  /\ IF req.ino \in DOMAIN remote
     THEN Knows("find", [req EXCEPT !.path = remote[req.ino]])
     ELSE Goes("remove")
  /\ UNCHANGED <<tree, cache, remote, rows, brain, puller, pusher, misled,
                 history>>

(* enqueue_delete: of the inodes with the path of the unlinked one, any    *)
(* one loses its mapping.                                                  *)
UnlinkFinds ==
  /\ at = "find"
  /\ LET held == {x \in DOMAIN remote : remote[x] = req.path}
     IN IF held = {} THEN Goes("delete")
        ELSE \E j \in held : Knows("forget", [req EXCEPT !.old = j])
  /\ UNCHANGED <<tree, cache, remote, rows, brain, puller, pusher, misled,
                 history>>

UnlinkForgets ==
  /\ at = "forget"
  /\ remote' = Without(remote, {req.old})
  /\ Knows("delete", [req EXCEPT !.old = NoIno])
  /\ UNCHANGED <<tree, cache, rows, brain, puller, pusher, misled, history>>

UnlinkEnqueues ==
  /\ at = "delete" /\ Goes("remove")
  /\ rows' = Queued(req.path, Op("delete", NoIno, Private))
  /\ UNCHANGED <<tree, cache, remote, brain, puller, pusher, misled, history>>

(* rmdir and unlink: the name goes, then the link. *)
RequestRemoves ==
  /\ at = "remove" /\ Goes("drop")
  /\ Removes(req.key, req.ino)
  /\ UNCHANGED <<inode, nextIno, cache, remote, rows, brain, puller, pusher,
                 misled>>

RequestDrops ==
  /\ at = "drop" /\ Done
  /\ Drops(req.ino)
  /\ UNCHANGED <<nextIno, dentry, cache, rows, brain, puller, pusher, misled,
                 replaced>>

(* link: the kernel has looked the new name up and found nothing.          *)
Link(i, d, n) ==
  /\ i \in Live \ Dirs /\ inode[i].nlink < MaxLinks /\ d \notin Below(i)
  /\ Seen(<<d, n>>) = NoIno /\ Looks(<<d, n>>)
  /\ Begins("link", [NoReq EXCEPT !.key = <<d, n>>, !.ino = i])
  /\ UNCHANGED <<tree, remote, rows, brain, puller, pusher, history>>

LinkInserts ==
  /\ at = "link" /\ Goes("count")
  /\ Inserts(req.key, req.ino)
  /\ strayed' = strayed \cup {req.ino} \cup Lost(req.key)
  /\ UNCHANGED <<inode, nextIno, cache, remote, rows, brain, puller, pusher,
                 misled>>

(* Mutant of LinkCounts: the count is left alone. *)
LinkUncounted ==
  /\ at = "count" /\ Done
  /\ UNCHANGED <<tree, cache, remote, rows, brain, puller, pusher, misled,
                 history>>

LinkCounts ==
  /\ at = "count" /\ Done
  /\ inode' = [inode EXCEPT ![req.ino].nlink = @ + 1]
  /\ UNCHANGED <<nextIno, dentry, cache, remote, rows, brain, puller, pusher,
                 misled, history>>

(* rename: the old entry goes before the new name is looked up; what the   *)
(* new name leads to loses a link, with whatever a directory still holds;  *)
(* fs_remote keeps the old path.                                           *)
Rename(d, n, e, m) ==
  LET k == <<d, n>>
      l == <<e, m>>
      i == Seen(k)
      old == IF l \in DOMAIN dentry THEN dentry[l] ELSE NoIno
  IN /\ i # NoIno /\ k # l /\ old # i
     /\ e \notin Below(i)
     /\ old \in Live => (old \in Dirs <=> i \in Dirs)
     /\ Looks(k)
     /\ Begins("cut", [NoReq EXCEPT !.key = k, !.to = l, !.ino = i])
     /\ UNCHANGED <<tree, remote, rows, brain, puller, pusher, history>>

RenameRemoves ==
  /\ at = "cut" /\ Goes("seek")
  /\ dentry' = Without(dentry, {req.key})
  /\ replaced' = replaced \cup (Bearer(req.key) \ {req.ino})
  /\ strayed' = strayed \cup Lost(req.key) \cup Below(req.ino)
  /\ UNCHANGED <<inode, nextIno, cache, remote, rows, brain, puller, pusher,
                 misled>>

RenameSeeks ==
  /\ at = "seek"
  /\ Looks(req.to)
  /\ IF Seen(req.to) = NoIno THEN Goes("source")
     ELSE Knows("clear", [req EXCEPT !.old = Seen(req.to)])
  /\ UNCHANGED <<tree, remote, rows, brain, puller, pusher, history>>

RenameClears ==
  /\ at = "clear" /\ Goes("lower")
  /\ Removes(req.to, req.old)
  /\ UNCHANGED <<inode, nextIno, cache, remote, rows, brain, puller, pusher,
                 misled>>

RenameDrops ==
  /\ at = "lower"
  /\ Drops(req.old)
  /\ Knows("source", [req EXCEPT !.old = NoIno])
  /\ UNCHANGED <<nextIno, dentry, cache, rows, brain, puller, pusher, misled,
                 replaced>>

RenamePath ==
  /\ at = "source"
  /\ IF req.ino \in DOMAIN remote
     THEN Knows("rename", [req EXCEPT !.path = remote[req.ino]])
     ELSE Goes("move")
  /\ UNCHANGED <<tree, cache, remote, rows, brain, puller, pusher, misled,
                 history>>

RenameEnqueues ==
  /\ at = "rename" /\ Goes("move")
  /\ rows' = Queued(req.path, Op("rename", NoIno, req.to[2]))
  /\ UNCHANGED <<tree, cache, remote, brain, puller, pusher, misled, history>>

RenameInserts ==
  /\ at = "move" /\ Done
  /\ Inserts(req.to, req.ino)
  /\ strayed' = strayed \cup Lost(req.to)
  /\ UNCHANGED <<inode, nextIno, cache, remote, rows, brain, puller, pusher,
                 misled>>

(* flush of an open file: the path is recorded once and then kept. *)
Flush(i) ==
  /\ i \in Files
  /\ IF i \in DOMAIN remote
     THEN Begins("write", [NoReq EXCEPT !.ino = i, !.path = remote[i]])
     ELSE \E p \in BuildPaths(i) :
            Begins("record", [NoReq EXCEPT !.ino = i, !.path = p])
  /\ UNCHANGED <<tree, cache, remote, rows, brain, puller, pusher, misled,
                 history>>

(* Mutant of FlushRecords: the path of a new file is recorded, not queued. *)
FlushKnown ==
  /\ at = "record" /\ Done
  /\ remote' = With(remote, req.ino, req.path)
  /\ UNCHANGED <<tree, cache, rows, brain, puller, pusher, misled, history>>

FlushRecords ==
  /\ at = "record" /\ Goes("write")
  /\ remote' = With(remote, req.ino, req.path)
  /\ UNCHANGED <<tree, cache, rows, brain, puller, pusher, misled, history>>

FlushEnqueues ==
  /\ at = "write" /\ Done
  /\ rows' = Queued(req.path, Op("write", req.ino, Private))
  /\ UNCHANGED <<tree, cache, remote, brain, puller, pusher, misled, history>>
-----------------------------------------------------------------------------
(* The pull has a listed document in hand.                                 *)
PullBegins(p) ==
  /\ stage = "idle" /\ p \in brain
  /\ stage' = "ensure"
  /\ pull' = [path |-> p, level |-> 2, dir |-> Notes, ino |-> NoIno]
  /\ UNCHANGED <<tree, cache, remote, rows, brain, session, pusher, misled,
                 history>>

(* The component of its path that comes next, in the directory at hand.    *)
Component == <<pull.dir, pull.path[pull.level]>>
AtName == pull.level = Len(pull.path)

(* ensure_dirs_for_path: a component is looked up; what is found is not    *)
(* asked whether it is a directory ...                                     *)
PullEnsures ==
  /\ stage = "ensure" /\ ~ AtName
  /\ Looks(Component)
  /\ IF Seen(Component) = NoIno THEN stage' = "mkdir" /\ UNCHANGED pull
     ELSE /\ pull' = [pull EXCEPT !.dir = Seen(Component), !.level = @ + 1]
          /\ UNCHANGED stage
  /\ UNCHANGED <<tree, remote, rows, brain, session, pusher, history>>

(* ... and made when it is missing.                                        *)
PullMakesDir ==
  /\ stage = "mkdir"
  /\ Makes(Component, "dir")
  /\ strayed' = strayed \cup Lost(Component)
  /\ stage' = "ensure"
  /\ pull' = [pull EXCEPT !.dir = nextIno, !.level = @ + 1]
  /\ UNCHANGED <<cache, remote, rows, brain, session, pusher, misled>>

(* resolve_path_to_ino walks the directories once more ...                 *)
PullEnsured ==
  /\ stage = "ensure" /\ AtName
  /\ stage' = "resolve" /\ pull' = [pull EXCEPT !.level = 2, !.dir = Notes]
  /\ UNCHANGED <<tree, cache, remote, rows, brain, session, pusher, misled,
                 history>>

(* ... and when one is gone by now, the document goes to the root.         *)
PullResolves ==
  /\ stage = "resolve" /\ ~ AtName
  /\ Looks(Component)
  /\ pull' = IF Seen(Component) = NoIno
             THEN [pull EXCEPT !.dir = Root, !.level = Len(pull.path)]
             ELSE [pull EXCEPT !.dir = Seen(Component), !.level = @ + 1]
  /\ UNCHANGED <<tree, remote, rows, brain, session, stage, pusher, history>>

(* When its name is found, the body goes there and nothing else changes.   *)
PullLooks ==
  /\ stage = "resolve" /\ AtName
  /\ Looks(Component)
  /\ IF Seen(Component) = NoIno THEN stage' = "insert" /\ UNCHANGED pull
     ELSE stage' = "idle" /\ pull' = NoPull
  /\ UNCHANGED <<tree, remote, rows, brain, session, pusher, history>>

(* Otherwise it is inserted, in a directory that may have gone elsewhere.  *)
PullInserts ==
  /\ stage = "insert"
  /\ Makes(Component, "file")
  /\ strayed' = strayed \cup Lost(Component)
       \cup {x \in {nextIno} :
               SubSeq(pull.path, 1, Len(pull.path) - 1) \notin Ways(pull.dir)}
  /\ stage' = "record" /\ pull' = [pull EXCEPT !.ino = nextIno]
  /\ UNCHANGED <<cache, remote, rows, brain, session, pusher, misled>>

(* A Delete of the path is queued, or an unlink is about to queue one.     *)
Deleting(p) ==
  \/ at \in {"find", "forget", "delete"} /\ req.path = p
  \/ \E op \in Q!Held(Row(p)) : op.kind = "delete"

(* ... and fs_remote gets its path.                                        *)
PullRecords ==
  /\ stage = "record"
  /\ remote' = With(remote, pull.ino, pull.path)
  /\ strayed' = strayed \cup {x \in {pull.ino} : Deleting(pull.path)}
  /\ stage' = "idle" /\ pull' = NoPull
  /\ UNCHANGED <<tree, cache, rows, brain, session, pusher, misled, replaced>>
-----------------------------------------------------------------------------
Sibling(p, n) == [p EXCEPT ![Len(p)] = n]

(* The single push worker claims a row ... *)
PushClaim(p) ==
  /\ step = "idle"
  /\ p \in DOMAIN rows /\ Q!Claimable(rows[p])
  /\ rows' = [rows EXCEPT ![p] = Q!Claimed(@)]
  /\ step' = "execute"
  /\ job' = [path |-> p, kind |-> rows[p].op.kind, ino |-> NoIno]
  /\ UNCHANGED <<tree, cache, remote, brain, session, puller, misled, history>>

(* ... does with the brain what execute_push does ...                      *)
PushExecutes ==
  LET p == job.path
      op == rows[p].op
  IN /\ step = "execute"
     /\ brain' = CASE op.kind = "write" -> brain \cup {p}
                   [] op.kind = "delete" -> brain \ {p}
                   [] op.kind = "rename" -> (brain \cup {Sibling(p, op.to)}) \ {p}
     /\ step' = "finalize" /\ UNCHANGED job
     /\ UNCHANGED <<tree, cache, remote, rows, session, puller, misled, history>>

(* ... finishes the row ...                                                *)
PushFinalizes ==
  LET p == job.path
      row == Q!Succeeded(rows[p])
  IN /\ step = "finalize"
     /\ rows' = IF row = NoRow THEN Without(rows, {p})
                ELSE [rows EXCEPT ![p] = row]
     /\ IF job.kind = "delete" THEN step' = "find" /\ UNCHANGED job
        ELSE step' = "idle" /\ job' = NoJob
     /\ UNCHANGED <<tree, cache, remote, brain, session, puller, misled, history>>

(* ... and after a Delete cleans up whatever inode has the path.           *)
PushFinds ==
  LET held == {x \in DOMAIN remote : remote[x] = job.path}
  IN /\ step = "find"
     /\ IF held = {} THEN step' = "idle" /\ job' = NoJob
        ELSE \E j \in held : step' = "forget" /\ job' = [job EXCEPT !.ino = j]
     /\ UNCHANGED <<tree, cache, remote, rows, brain, session, puller, misled,
                    history>>

PushForgets ==
  /\ step = "forget"
  /\ remote' = Without(remote, {job.ino})
  /\ step' = "idle" /\ job' = NoJob
  /\ UNCHANGED <<tree, cache, rows, brain, session, puller, misled, history>>
-----------------------------------------------------------------------------
Request ==
  \/ \E d \in Dirs, n \in Names :
       \/ Lookup(d, n)
       \/ Mkdir(d, n) \/ CreateFile(d, n) \/ Symlink(d, n)
       \/ Rmdir(d, n)
       \/ Unlink(d, n)
       \/ \E i \in Live : Link(i, d, n)
       \/ \E e \in Dirs, m \in Names : Rename(d, n, e, m)
  \/ \E i \in Live : Flush(i)

Proceed ==
  \/ MakeInserts
  \/ RmdirChecks
  \/ UnlinkPath \/ UnlinkFinds \/ UnlinkForgets \/ UnlinkEnqueues
  \/ RequestRemoves \/ RequestDrops
  \/ LinkInserts \/ LinkCounts
  \/ RenameRemoves \/ RenameSeeks \/ RenameClears \/ RenameDrops
  \/ RenamePath \/ RenameEnqueues \/ RenameInserts
  \/ FlushRecords \/ FlushEnqueues

Pulling ==
  \/ \E p \in brain : PullBegins(p)
  \/ PullEnsures \/ PullMakesDir \/ PullEnsured \/ PullResolves \/ PullLooks
  \/ PullInserts \/ PullRecords

Pushing ==
  \/ \E p \in DOMAIN rows : PushClaim(p)
  \/ PushExecutes \/ PushFinalizes \/ PushFinds \/ PushForgets

(* The model stops with the first stale answer: nothing is claimed of what *)
(* comes after it.  shared follows fs_remote.                              *)
Next ==
  /\ ~ misled
  /\ Request \/ Proceed \/ Pulling \/ Pushing
  /\ Cardinality(DOMAIN cache') <= CacheMax
  /\ Cardinality(DOMAIN rows') <= MaxRows
  /\ shared' = shared \cup
       {remote'[i] : i \in {x \in DOMAIN remote' :
                       \E y \in DOMAIN remote' \ {x} : remote'[y] = remote'[x]}}

Spec == Init /\ [][Next]_vars
-----------------------------------------------------------------------------
(* Properties: of the states before the first stale answer. *)

(* The values the variables take; no inode row outlives its last link.     *)
TypeOK ==
  /\ nextIno \in 2..(MaxIno + 1)
  /\ Root \in Live /\ Live \subseteq 1..(nextIno - 1)
  /\ \A i \in Live : inode[i].kind \in {"dir", "file", "symlink"}
                  /\ inode[i].nlink \in 1..(IF i \in Dirs THEN 2 ELSE MaxLinks)
  /\ DOMAIN dentry \subseteq (1..MaxIno) \X (Names \cup {Private})
  /\ \A k \in DOMAIN cache : cache[k] \in 2..(nextIno - 1)
  /\ DOMAIN remote \subseteq 2..(nextIno - 1)
  /\ misled \in BOOLEAN

(* A directory entry leads to an inode that exists, whatever unlinks,      *)
(* renames onto a name and removals take the links of an inode away, and   *)
(* the link count of a file that no request has in hand is the number of   *)
(* its names; one that lost a name to a statement that did not know of it  *)
(* may have links too many, and is then never freed.                       *)
LinksCounted ==
  misled \/
    /\ \A k \in DOMAIN dentry : dentry[k] \in Live
    /\ \A i \in Live \ (Dirs \cup {req.ino, req.old}) :
         IF i \in replaced THEN inode[i].nlink >= Cardinality(Entries(i))
         ELSE inode[i].nlink = Cardinality(Entries(i))

(* What fs_remote says of an inode is the path its entries give, so a      *)
(* flush pushes to the path the user sees, unless the inode strayed or a   *)
(* request has it in hand; and fs_remote forgets an inode with its last    *)
(* link.                                                                   *)
PathsAgree ==
  misled \/ \A i \in DOMAIN remote \ (strayed \cup {req.ino, req.old}) :
    i \in Live /\ remote[i] \in BuildPaths(i)

(* A Delete that waits in the queue is for a path no file has any more,    *)
(* but for a file that is being flushed: it never removes the document of  *)
(* a file created anew under the name, whose flush replaces the Delete,    *)
(* nor that of another file.  Not so for a path that two inodes have had   *)
(* at once, nor for an inode that strayed.                                 *)
DeleteSpares ==
  misled \/ \A p \in DOMAIN rows \ shared :
    rows[p].op.kind = "delete" /\ rows[p].pending = NoEntry =>
      \A i \in DOMAIN remote \ (strayed \cup {req.ino}) : remote[i] # p

(* fs.rs:31 and fuse.rs:27: the cache of directory entries is transparent. *)
(* It is not: nothing takes out what an unlink or a rename has just read,  *)
(* and the next lookup of the name is answered from it.                    *)
NeverMisled == ~ misled

(* db.rs:477: the mount tree is the brain tree, so two files never have    *)
(* one path.  A bare file of the root and one of private/notes do.         *)
OnePathOneFile == shared = {}

(* push.rs:208: a rename writes the new path and deletes the old one, so   *)
(* the document is there under the new path.  After a move to another      *)
(* directory with the same name both paths are one, and it is gone.        *)
RenameKeepsDoc ==
  [][\A p \in DOMAIN rows :
       PushExecutes /\ p = job.path /\ rows[p].op.kind = "rename"
         => Sibling(p, rows[p].op.to) \in brain']_vars
=============================================================================
