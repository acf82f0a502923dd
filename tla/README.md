# unison-fs in TLA+

unison-fs mounts a remote "brain" of text documents as a local filesystem. A
SQLite database caches the documents; writes go to the cache and reach the
server later through a persistent push queue; changes of other clients come
in by periodic pulls. This directory holds TLA+ modules of that machinery, TLC
configurations that check them on small instances, and TLAPS proofs of what
matters most for every value of the constants.

Paths below are relative to `src/crates/unisonfs-core/src/` unless they start
with `src/`.

## The system: inventory

| Component | Code | State | Operations | Talks to |
|---|---|---|---|---|
| Push queue table | `cache/db.rs:209-381`, `cache/schema.sql:66` | one row per brain path: op, pending op, in-flight mark, attempt, poisoned, updated_at | upsert (coalesce), claim_next, finalize_success, finalize_failure, poison, len | written by file handles and the namespace, drained by the push worker |
| Push worker | `sync/push.rs` | the claimed job | run_push_worker (notify, 5 s timer, shutdown), drain_available, drain_remaining, execute_push | queue table, API client, dirty_since, fs_remote |
| File handles | `cache/file.rs` | chunks of an inode, size, dirty_since | read, write, truncate, flush (at close) | stamps dirty_since, enters fs_remote, enqueues a Write |
| Namespace | `cache/fs.rs` | fs_inode, fs_dentry, fs_remote, an in-memory dentry cache | lookup, create, mkdir, symlink, link, unlink, rmdir, rename, setattr; upsert_brain_doc and apply_deletion for the pulls | enqueues Delete and Rename |
| File contents | `cache/file.rs`, `cache/db.rs`, `cache/fs.rs:406` | fs_data (chunks of 4096 bytes), the size in fs_inode | read, write, truncate, read_all_content, write_content_to_ino | used by handles, pushes and pulls |
| Delta and full pull | `sync/pull.rs` | the watermark last_seen_updated_at | delta_pull (timer), full_pull (at mount) | API client, namespace, dirty_since |
| Deletion scan | `sync/scan.rs` | - | list ids, compare, apply_deletion | API client, namespace, dirty_since |
| Hydration queue | `cache/hydration.rs` | FIFO, pending and in-flight key sets, recent keys, semaphore | enqueue, claim_next, complete, worker | hydrate_path; no code but tests calls enqueue |
| Sync engine | `sync/mod.rs` | a JoinSet, the shutdown watch channel | initial_pull, start, loops with adaptive intervals | all of the above |
| Daemon life cycle | `src/crates/unisonfs/src/cmd/` (`mount.rs`, `daemon_inner.rs`, `daemon_runtime.rs`, `startup.rs`, `unmount.rs`), `daemon/` | pid file, startup file, the kernel's mount, socket, marker | guard, sweep, fork or foreground, report, mount, drain, clean-up, unmount | engine, mount adapters, agent hint |
| FUSE and NFS adapters | `mount/fuse.rs`, `mount/nfs.rs` | FUSE's table of open handles; the cursor of a listing, in the client | open, write, flush, release, setattr, destroy, readdir; the other handlers pass one call on | namespace, file handles |
| In-memory filesystem | `vfs/mem.rs` | inodes with their entries, under one mutex | the same trait as the namespace | tests; `lib.rs:3` calls it the reference |
| API client | `api/mod.rs` | - | send_with_retry (429, 5xx, connection) | the server |
| Agent hint | `agent_hint.rs` | a block per mount in shared text files | install, uninstall (the write under a file lock), sweep (without it) | daemon, mount command |
| Configuration, command line, packaging | `config/`, `src/crates/unisonfs/src/`, `src/docker` | small files | read, write | - |

How they interact: the mount adapters call the namespace and file handles;
these change the database, one lock of its connection at a time, and end in
`push_queue_upsert` and a notification. The push worker, the delta loop, the
deletion loop and the hydration worker are separate tasks on the same
database. Only the connection's mutex orders them; every sequence of several
locks, and every `await` of the server between two locks, can be interleaved
with all others. The watch channel tells the tasks to end once the mount is
gone. All of the queue, `dirty_since` and `fs_remote` survive a restart.

What is hard here, and what would make it right:

* Coalescing while a push is under way. The row must keep both the entry that
  is being pushed and the one that came later; the finalize statements name
  only the path. *The newest edit is never lost; a job finalizes what it
  executed; pushes do not reorder.*
* Failure, back-off, poisoning, unmount and kill between claim and finalize.
  *Attempts are bounded; a poisoned row is at rest; every edit settles; the
  worker ends on shutdown.*
* The body of a push is read when the push runs; the stamp that keeps a pull
  from overwriting an edit is set and cleared in lock sections of its own.
  *An edit that was not pushed is in an open handle or has a row; no stamp is
  stranded; no remote version is passed by; cache and server converge.*
* The hydration queue keeps three collections in step with its tasks. *No key
  is fetched twice at a time, none is forgotten, the worker stops cleanly.*
* The namespace has a cache that its operations do not refresh, keeps link
  counts by hand, and maps inodes to remote paths in a table that rename and
  link do not touch. Each of its operations is several statements under a lock
  each, between which a pull or a push can run. *Entries lead to inodes that are there; a file is freed
  with its last name; it is pushed to the path its entries give; a Delete that
  waits never hits the document of a file that lives.*
* File contents are chunks of 4096 bytes, a shorter last one and a size beside
  them, changed row by row without a transaction. *Whatever is written, cut and
  replaced, a file is the vector of bytes it would be in memory, and every read
  agrees with the whole body that a push takes.*
* What a mapping or a second descriptor writes after a close is enqueued only at
  the release of a handle; a listing is fetched in pieces while the directory
  changes. *Nothing written stays out of the queue; a listing keeps its place
  and ends.*
* Commands and daemons of several mounts share files and check each other's
  pids. *One daemon per tag, an honest startup report, no lost hint.*
* A request may be carried out although its answer never came, and later than
  its caller thinks. *Ok means done; twice or late only after a loss.*

`PROJECT.json` lists every hazard at its line.

## The modules

```
WriteBack   <-- Implements --        PushWorker --> PushQueue <-- DocSync, Namespace
FlatFile    <-- ImplementsFlat --    DbFile
AtLeastOnce <-- ImplementsPromise -- ApiClient

MemFs    Adapter    Daemon    Hydration --> HydrationBooks

PushWorkerProofs  DocSyncProofs  NamespaceProofs  DbFileProofs
MemFsProofs       DaemonProofs   AdapterProofs    FetchProofs
```

A module `XProofs` extends `X` with its theorems. `FetchProofs` is about the two
parts that fetch: it extends `ApiClient`, and `HydrationBooks` for what Hydration
promises, and has the steps of `Hydration` as an instance `H`, whose theorems
therefore have `H!HydrationAssumption` (`MaxEnqueues` is a number) as their premise.

`PushQueue` is instantiated by the three modules that share the table; the three
modules on the left are abstract specifications. Components that only call one
another through a request and its answer are composed where the answer decides
something: queue and worker in `PushWorker`, handles, worker and pull in
`DocSync`, tree, queue, worker and pull in `Namespace`, commands, daemons and
hint files in `Daemon`.

The `MC` modules only add the symmetry sets and the values a cfg cannot write. Definitions marked "Mutant of" are
plausible bugs; each property of a passing run fails when its mutant takes the
place of the definition.

### PushQueue: the statements on a row

A row is a record, the table a function from paths to rows. `Upserted`,
`Claimable`/`Claimed`, `Succeeded`, `Failed` and `Poisoned` are the five
statements of `cache/db.rs`, column by column. Which operation an entry stands
for makes no difference to these statements, so entries are opaque. Time is one
bit: `due` is `updated_at <= now`. The order in which `claim_next` takes two due
rows (by `updated_at`) is left open, which includes the real one. A failure may
leave a row due at once: `finalize_failure` adds the back-off to the time of the
claim.

### PushWorker: claim, execute, finalize, drain, stop, restart

| Code | Action |
|---|---|
| `enqueue_write`, `enqueue_delete`, `rename` | `Edit(p)` |
| `run_push_worker` select | `Wake`, `SeeShutdown` |
| `drain_available` | `ClaimNext(p)`, `GiveUp` (attempt >= 10), `Execute`, `FinalizeSuccess`, `FinalizeFailure`, `Poison`, `DrainDone` |
| `drain_remaining` | `FlushClaim(p)`, `FlushEmpty`, `FlushTimeout` |
| `run_daemon` | `Unmount`, `Abandon` (the 30 s limit), `Start` |
| the process is killed | `Crash` |

Each lock of the connection is one step and so is the wait for the server, hence
an edit, a kill or an unmount can fall between any two. Entries are numbered per
path; `latest`, `acked`, `server` and `retried` are history.
What the server has is `server`: a push that fails transiently (429, 5xx, no
connection) may have been applied, and so may one that is cut off.

`WriteBack` is the abstract specification: for each path a set of kept edits, to
which an edit adds itself, possibly in place of older ones, and from which an
acknowledgement takes one. There is no other action; failing, poisoning,
crashing and restarting must look like nothing at all. `PushWorker` implements it
with `kept` mapped to the non-NULL op and pending op of the row.

### DocSync: handles, push and pull on documents

| Code | Action |
|---|---|
| `create_file` | `Create(d)` (the lookup), `CreateInsert(d)` |
| `DbFile::write` | `Write(d)`, then `StampWrite(d)` in a lock of its own |
| open / close | `Reopen(d)`; `FlushPath(d)`, `FlushStamp(d)`, `FlushEnqueue(d)` |
| `drain_available`, `execute_push` (Write) | `Claim(d)`, `ReadBody`, `Put`, `FinalizeSuccess`, `ClearPushed`, `FinalizeFailure`, `Poison` |
| `delta_pull` | `PullBegins`, `List` or `ListFails`, `Skip(r)`, `Take(r)`, `ClearPulled`, `PullDone` |
| `upsert_brain_doc` | `Enter` (the lookup), `EnterInsert`, `EnterPath`, `Upsert`; or `UpsertFails` |
| other clients | `RemoteEdit(d)` |

A content is named by the tick of the clock at which it was made. The
client's and the server's clocks agree, every version has a tick of its own and
a listing shows all documents: the hazards of equal timestamps and of more than
one page (500 documents) are listed but not modelled. Contents are valid UTF-8:
a push sends `String::from_utf8_lossy` of the bytes (`sync/push.rs:182`), which is
then the bytes; what happens to others is a hazard that no module covers.

A step is one lock section, but for these. A new inode is made together with its
entry, because nobody knows its number before. `set_mirrored_state` writes what no
task reads, and shares a step with the change of the stamp. A pull reads the
fs_remote entry and the stamp in one step (`GuardedByDirty`): between the two the
entry can only appear, which has the effect of reading it before. The directories of a
document are there (`Namespace` makes them). A list that fails ends
the pull; an upsert that fails part-way, with some chunks gone, is not modelled.

`create_file` and a pull may both find a name free. The second insert then replaces
the entry of the first one's inode: the editor goes on writing to an inode without a
path, whose close derives none and enqueues nothing (`cache/file.rs:265-276`), so
that its edit *is* untracked. Such a document is `replaced`, and there the behaviour
ends (`Followed`, `Left`), as the model has one inode per document; every property
is about what comes before. `Namespace` follows both inodes further.

`parse_iso8601_ms` gives whole seconds, in milliseconds: the fraction is dropped
(`sync/pull.rs:247-275`). `Granule` is a second, in ticks, and `masked` the
documents of which a pull skipped a version of the same second as the stamp, but
newer. `entry` says whether a path has an inode and whether fs_remote
knows it. A document has one handle at a time and is never unlinked, renamed or
truncated here.

### Hydration: the scheduler and its worker

Each section of the scheduler's mutex is a step: `Enqueue(k)`, `Spawn(s)`
(permit and `claim_next`), `Complete(s)`; the worker's select is `Wake` and
`Leave`, its inner loop `GoOn`, `Spawn`, `SpawnDone`, its end `Joined`. A slot is
a permit with its task. `Expire(k)` is the passing of NEGATIVE_TTL. Nothing in
the repository but the module's tests calls `enqueue`; it is modelled as the
component it is meant to be.

### Namespace: the tree, its cache, the queue and the brain

| Code | Action |
|---|---|
| `lookup`, `getattr`, `open`; any request that fails after its lookup | `Lookup(d, n)` |
| `mkdir`, `create_file`, `symlink` | `Mkdir`, `CreateFile`, `Symlink` (the lookup), `MakeInserts` |
| `rmdir` | `Rmdir`, `RmdirChecks`, `RequestRemoves`, `RequestDrops` |
| `unlink` with `enqueue_delete` | `Unlink`, `UnlinkPath`, `UnlinkFinds`, `UnlinkForgets`, `UnlinkEnqueues`, `RequestRemoves`, `RequestDrops` |
| `link` | `Link`, `LinkInserts`, `LinkCounts` |
| `rename` | `Rename`, `RenameRemoves`, `RenameSeeks`, `RenameClears`, `RenameDrops`, `RenamePath`, `RenameEnqueues`, `RenameInserts` |
| `DbFile::flush` of an open file | `Flush(i)`, `FlushRecords`, `FlushEnqueues` |
| `upsert_brain_doc` with `ensure_dirs_for_path` and `resolve_path_to_ino` | `PullBegins(p)`; `PullEnsures`, `PullMakesDir` for each component; `PullEnsured`, `PullResolves`; `PullLooks`, `PullInserts`, `PullRecords` |
| `drain_available`, `execute_push` | `PushClaim(p)`, `PushExecutes`, `PushFinalizes`; after a Delete `PushFinds`, `PushForgets` |

Three actors take turns, a statement at a time: the session thread, which has one
request in hand (`at`, `req`), the pull, with one document (`stage`, `pull`), and the
push worker, with one row (`step`, `job`). A pull may make a directory or insert its
file between the lookup and the insert of a create, between rmdir's check and its
removal, or between any two statements of a rename, and an unlink or a
rename may take a directory from under a pull. `Looks`, `Inserts`, `Makes`, `Removes` and
`Drops` are the statements the operations share: `lookup_ino`, which answers from
`dentry_cache` first and fills it, `insert_dentry` (a REPLACE), a new inode with its
entry, `remove_dentry`, and `decr_nlink_and_maybe_remove` with its two halves `Dropped` and
`Forgotten`. What the LRU drops to make room is left open.

These statements share a step with another: a new inode and its entry (its number is
known to nobody before); the kind of an inode, which never changes, and the lookup
that led to it; the locks inside `lookup_ino` (the LRU, the table, the LRU), whose
answer is that of one moment, while what goes into the LRU decides nothing before the
first wrong answer; the statements of `build_path_for_ino`, one for each directory on
the way up, whose entries a pull can take away meanwhile but not lead elsewhere, so the
walk finds the path there was when it began, or none; the two updates behind `PushForgets`; and the requests
of a pushed Rename (get, put, delete), between which only the start of a pull reads
`brain`, as it could before or after.

A path of the brain is a sequence of names. A bare file of
the root belongs to private/notes (`BuildPaths`); that directory is there from
the start and is not renamed or removed, and the documents are below it (those of
the other writable root, workspace, would take the same way). What the kernel refuses
never arrives: a directory is not renamed to a place below itself, nor a file linked
there, which is possible because `ensure_dirs_for_path` does not ask whether a
name on its way is a directory. The queue is `PushQueue` with operations
for entries. Pushes succeed (failures are `PushWorker`) and pulls take or skip any
document (`DocSync` says when).

*The model ends at the first stale answer of the cache* (`misled`): what
follows from one is not described, that there is one is the finding below. The
other history variables name the inodes for which the code keeps no promise:
`strayed` were moved, linked, cut off from the root or brought back by a pull;
`replaced` lost their entry to a statement that did not know of them, the insert of
another inode under the name, in either direction between an editor and a pull, or the
removal of what the name had led to before; `shared` are paths that two inodes had.

### FlatFile and DbFile: contents

`FlatFile` is `MemFileHandle` of `vfs/mem.rs`: one vector of bytes, padded with
zeros when it grows. `DbFile` has the rows of fs_data and the size:

| Code | Definition |
|---|---|
| `DbFile::read`, `Db::read_all_content` | `Read(off, n)`, `Body` |
| `DbFile::write` | `Write(off, bytes)` |
| `DbFile::truncate` (and `setattr` with a size) | `Truncate(n)` |
| `UnisonFs::write_content_to_ino` | `Replace(bytes)` |
| a kill between the statements of one of the three | `WriteCut`, `TruncateCut`, `ReplaceCut` |

`torn` marks a file whose rows no longer fit its size; reads of it give whatever
`Read` and `Body` give, or `Panic`, where the slice of `cache/file.rs:78` starts behind
the bytes that are there. It is set by a kill, and by two ordinary calls: a write
that starts in a chunk behind the one the file ends in, and a truncation to more than
there is. In both the missing bytes are not stored as zeros, and later bytes move
up when rows are joined, while `vfs/mem.rs`, which `lib.rs:3` calls the reference
implementation, pads. `Replace` and a truncation to nothing mend the file. A gap
*within* the last chunk is padded and is not torn.

### MemFs: the in-memory filesystem

One action per operation on inodes and entries, each under the one mutex, but
for `create_file`, which checks under one lock (`CreateCheck`), inserts under
another (`CreateInsert`) and reads the attributes of the new inode under a third
(`CreateAnswer`). Its two `unwrap`s panic when the parent, or the new inode, is gone by
then; the mutex is one that does not poison, so other callers go on. One creator in the middle of `create_file` meets all
other operations. `Keep` is the hidden keep file of a directory, which `rmdir`
drops (`Rmdir`), or drops and puts back when the directory is not empty
(`RmdirNotEmpty`). What the code does and callers may not expect: a rename whose
new parent is gone has already removed the old entry (the file is lost); a rename
over a directory does not ask whether it is empty; a directory can be moved below
itself, and then be freed by a rename over its own entry, with entries in it; two
creators of one name both succeed. `detached` is the history of the inodes that
lost an entry this way. Hard links to the keep file are left out:
`rmdir` removes that inode whatever its count.

### Adapter: FUSE's handles and two listings

| Code | Action |
|---|---|
| `open`, `create`; `write`; `flush`; `release`; `destroy` | `Open`, `Dirty` then `Write`, `Flush`, `Release`, `Destroy` |
| `setattr` with a size, both adapters | `SetSize(i)` |
| `write` of `mount/nfs.rs` | `NfsWrite(i)` |
| `readdir`, both adapters | `FuseReadDir`, `NfsReadDir` |
| changes of the directory between two calls | `AddEntry`, `RemoveEntry` |

A file is the number of its changes, stored and queued. `Entries` is the order of
`children`: each name stands at its `Place`, the number of names up to it. With the writeback cache
the kernel writes dirty pages before it sends flush and release; a mapping can
dirty them between the two. Not covered by any promise, because no call of the
code does it: a `setattr` without a handle, files open when the session ends
(`destroy` drops the handles without a flush), and everything written through NFS,
whose adapter never calls `flush`.

NFS finds its place in a listing by the last inode it gave. A rename inside the
directory takes an entry out and puts the same inode back under another name
(`RemoveEntry`, `AddEntry` with an inode that was there before). When it is the entry
the client stands at, the client stands elsewhere afterwards: before what it has
listed, which it lists again, or behind what it has not, which it misses. Such a
listing is `lost`, and no promise is made of it but that it ends, if the directory stops
changing (`MaxReturns`). The model gives each entry of a directory an inode of its own,
because with two hard links of one inode in a directory such a listing returns to
the first of them again and again.

### Daemon: commands, daemons and the files between them

| Code | Action |
|---|---|
| `cmd/mount.rs` guard, `cleanup_stale` | `Check(m, t, f)`, `CleanStale(m)` |
| `sweep_one` | `SweepRead`, `SweepCheck`, `SweepWrite` |
| `run_daemon_fork`, `wait_for_ready`, `run_foreground` | `Fork`, `SeeReady`, `GiveUp`, `Foreground` |
| `daemon_inner`, `run_daemon` | `WritePid`, `Pull`, `InstallRead`, `InstallWrite`, `ReportReady`, `Attach`, `Drain`, `UninstallRead`, `UninstallWrite`, `Finish` |
| foreground | the same, with `WritePidLate` after the hint |
| a kill or an error of the daemon | `Dies(m)` |
| `cmd/unmount.rs` | `Umount(t)`, `UmountCleans(t)` |

`Alive` is `kill(pid, 0)`; a pid is not used again. No part of the program serves
the control socket, so the Shutdown request of `unmount` is always refused and the
command goes on to the kernel. Unmounting may find the mount busy; the files are
removed all the same. A daemon never reports Failed: a command that waits for one
that died gives up after 60 seconds and still exits with 0. Ready is reported
before the mount is attached. `gap` notes the tags for which the guard had nothing
to go by: two commands overlapped, or someone removed the pid file under a running
process (the end of the *first* of two daemons does). A tag with "--" is another
name in its hint block (`sanitize_for_delim`), so the sweep takes the block for one
nobody owns, and two tags can share one block ("b--" and "b__") although
`agent_hint.rs:9` counts on a delimiter per tag; `PlainTag` says when neither
happens. `raced` notes that a writer of the hint file wrote what it had made of a
copy that another had changed meanwhile (`old` in `copy`); the sweep reads and
writes without the lock. It takes three mounts for such a write to take away the hint
of a daemon that is up: the block that a killed daemon left, a sweep of it that has read
the file, and a new daemon of the killed one's tag in between.

### AtLeastOnce and ApiClient: requests

`AtLeastOnce` is what a caller may rely on: tries are carried out at most once
each, "ok" means one was. `ApiClient` is `send_with_retry` with `get_doc`, `put_doc`
and `delete_doc`: `Call`, `Receive` (with `Judge`, the status arms), `Lose` (no
connection or time-out), `Wake` (the end of a delay; its length is left out), and
the external server's `Serve`, which may carry a try out long after the client
gave it up. Document calls go through it; provisioning and verification send
once and are not modelled.

## What the runs show

| Run | Checks | Instance | Distinct states |
|---|---|---|---|
| `PushWorker` | TypeOK, JobOwnsRow, LatestRetained, DrainedInOrder, Implements, EveryEditSettles, ShutdownEnds | 2 paths, 2 edits each, 2 attempts, 2 lives, all outcomes and stops | 228 k |
| `DocSync_one` | TypeOK, EditTracked, DirtyIsJustified, Converges | one document, 3 events, seconds of 2 ticks, all outcomes | 737 k |
| `DocSync_two` | NothingMissed | two documents, 3 events, seconds of 4 ticks | 948 k |
| `Namespace` | TypeOK, LinksCounted, PathsAgree, DeleteSpares | 1 name in any directory, 5 inodes, a document two directories down, 2 links, 1 row, 3 requests | 668 k |
| `DbFile` | Contiguous, ReadsAgree, ImplementsFlat | chunks of 2 bytes, 2 byte values, size 5, writes of 3 | 945 |
| `MemFs` | TypeOK, LinksCounted, NothingLeaks | 2 names, 1 creator, 5 inodes, 2 links | 94 k |
| `Adapter` | TypeOK, QueuedAtRest, ListingKeepsPlace, ListingEnds | 1 file, 2 handles, 1 change; 3 names, 3 inodes, one of them coming back, replies of 1 or 2; both backends | 328 k |
| `Daemon` | TypeOK, ReadyIsFresh, GuardHolds, HintKept, CommandAnswers | 2 mount commands, tags "a" and "b--", any unmounts and kills | 1.2 M |
| `ApiClient` | DeleteSettles, OnceUnlessLost, ImplementsPromise, NoLateWrite, Answered | 2 requests of any kind, 2 tries | 213 k |
| `Hydration` | NoDoubleFetch, NothingForgotten, EveryKeyFetched, ShutdownEnds | 3 keys, 2 permits, 4 calls | 15 k |
| `PushWorker_crash` | RowsResume is violated | 1 path, 1 edit, 2 lives | |
| `Namespace_stale` | NeverMisled is violated | as `Namespace` with 4 inodes, 4 requests and a cache of 2 | |

Nine more configurations are kept beside these; TLC refutes the one property
of each: `PushWorker_latestwins` (DrainedIsLatest), `PushWorker_drain`
(FlushLeavesNoneInFlight), `PushWorker_poison` (EditIsPushable), `DocSync_dirty`
(PullSparesEdits), `DocSync_cleared` (ClearedEditIsPushed), `DocSync_coarse`
(StampHidesOlder), `Namespace_move`
(RenameKeepsDoc), `Namespace_twin` (OnePathOneFile), `Daemon_double` (OneDaemon).
`tlc -config X.cfg MCModule` shows the behaviour; the next section says what it is.

Why these bounds are enough. *PushWorker*: a row of the table and a job concern
one path, and paths meet only in the worker's single job, so two paths give every
interference. Two edits per path fill op and pending; the third one (in
`PushWorker_latestwins`) is needed to have a newer op beside an older pending.
Two attempts give a failure, a retry and giving up; two lives give one restart.
*DocSync*: three events cover a new file, its first write and one more, or a
remote document, an edit of it and a remote edit that meets its push or pull;
pushes, pulls and retries are not bounded by them. *Hydration*: three keys and two
permits let one key wait with all permits taken, and four calls request one key
twice. *Namespace*: three inodes beside the two fixed ones, with the same name in
the root, in private/notes and in the new directories, give the two directories and
the file of a pulled document or a file that an editor makes meanwhile, hard links,
moves between directories, a twin in the root, and pulls that make directories or meet
them; three requests make, move or link, and remove a file. The cache has no
room, because the behaviours before its first stale answer are those without a cache:
an entry that is there answers what the table would. The three configurations that look
for such an answer, or for what a move or a twin does, have room for two. A single row
coalesces all operations on a path, and a row with a pending operation is one row.
Two documents with rows at once do not interact but through the order of pushes,
which the single claim leaves open. *DbFile*: a size of five is two full chunks
and a short one, writes of three bytes span two chunks at any offset. *MemFs*: five
inodes are the root, a directory with its keep file and two more, or a second
directory with its own. A directory that is freed while it has entries takes a
sixth inode; without hard links that too was checked (247 k states), and the
proofs cover it. *Adapter*: one
file suffices, because handles of different files share only the counter; a third
inode takes a free name while a listing runs, and an inode that comes back is a rename
behind or before the client's place. *Daemon*: two
commands of one tag race, of two tags meet in the hint file; the third process in
either is the unmount. *ApiClient*: two tries give a retry and the last try; two
requests give a late write over a newer one.

`MaxEdits`, `MaxStarts`, `MaxEvents`, `MaxEnqueues`, `MaxIno`, `MaxLinks`,
`MaxRows`, `MaxRequests`, `MaxSize`, `MaxInput`, `MaxFh`, `MaxChanges`, `NameCount`,
`MaxEntry` and `MaxReturns` are bounds of the models; the rest are parameters of the code.

Deadlock is checked in the `DocSync`, `DbFile` and `Daemon` runs. In `PushWorker`,
`Hydration` and `ApiClient` the process, or the call, ends. In `Namespace`, `MemFs`
and `Adapter` the numbers the bounds allow run out; `Namespace` also stops at the
first stale answer.

### Where code and documentation disagree

* **In-flight rows are not resumed** (`PushWorker_crash`). Nothing clears
  `inflight_started_at` when the database is opened, so a row that was being
  pushed when the process died, or that `drain_remaining` forgot, stays for ever.
  `LatestRetained` shows that the edit itself is still in the row.
* **The entry cache answers for entries that are gone** (`Namespace_stale`).
  `unlink`, `rmdir` and `rename` look the old name up, which puts it into the
  cache, and `remove_dentry` does not take it out. The next lookup of the name
  finds the inode that was removed or moved; a create of the name fails until the
  LRU drops the entry. `mount/fuse.rs:27` relies on entries that never go stale.
* **Latest does not always win** (`PushWorker_latestwins`). The upsert of a row
  at rest sets op and leaves `pending_*`. Claim; a second edit goes to pending;
  the push fails; a third edit replaces op. The next success promotes the
  *second* edit, and it is pushed last. For Writes this is harmless, because the
  body is read when the push runs; for a Delete or Rename left in pending it
  is not. `DrainedInOrder` shows that a retry is the only way to get there.
* **drain_remaining forgets a row** (`PushWorker_drain`). It claims, drops the
  job and calls `drain_available`, which skips rows in flight.
* **A poisoned path stays poisoned** (`PushWorker_poison`). The upsert resets
  attempt and error but not `poisoned`.
* **A newer edit loses its stamp** (`DocSync_cleared`). A successful push clears
  dirty_since also if the file was written after its body was read.
  `EditTracked` shows that the edit keeps its row; what it loses is protection
  from the pull.
* **A pull can overwrite an edit that was not pushed** (`DocSync_dirty`): one
  stamped between the check and the upsert, or one of a file never closed,
  which fs_remote does not know yet.
* **A stamp hides newer versions** (`DocSync_coarse`). The comment on
  `parse_iso8601_ms` says "Parse an ISO 8601 datetime string to epoch milliseconds."
  (`sync/pull.rs:247`); it gives whole seconds, while stamps are milliseconds. A
  remote version of the second of the stamp, but newer than it, is skipped, the
  watermark passes it, and once the stamp is cleared nothing brings it back.
* **A move to another directory deletes the document** (`Namespace_move`). The
  new path of a pushed Rename is the old one with its last name replaced
  (`sync/push.rs:208`). Under an unchanged name it *is* the old one, which
  `execute_push` writes and then deletes. With a changed name the document goes to
  a sibling of the old path, not to the directory the file is in.
* **Two files can have one path** (`Namespace_twin`). A bare file of the root and
  the file of the same name in private/notes both push to private/notes.
* **Two daemons of one tag** (`Daemon_double`), which the guard's message rules
  out: two commands started together both pass it; so does one started
  after an `unmount` of a busy mount, or after the first of two daemons ended.
  `GuardHolds` shows that there is no other way.

Further observations are not configurations. `execute_push` always sends
`expected_content_hash: None`, so a push overwrites whatever another client has
written since (`src/README.md:193` speaks of optimistic concurrency); the model's
`Put` does the same, and a late try of `ApiClient` can overwrite a newer
write of the same client. A document whose upsert fails in a delta pull is passed
by the watermark and waits for its next remote change or the full pull of the next
mount; `dropped` marks such documents, and `NothingMissed` and `Converges` speak of
those that are neither `dropped` nor `masked`. A pull between an unlink and its Delete
brings the file back (`strayed`). A pull and a create of one name, each between the
other's lookup and insert, leave one inode without a name (`replaced`): the editor's, whose
close then enqueues nothing, or the pulled one, which keeps its link for ever and
its fs_remote row with a path that leads to the other. fs_remote keeps the old path of
a renamed file, so its later edits are pushed there. The kernel may keep entries
and attributes for a year (`mount/fuse.rs:27-31`), and no pull invalidates them.

## Fairness

`WF` on a task's steps: tokio polls a ready task, the connection's lock is held
only for short statements, requests end by answer or by their 30 s time-out,
and timers end. `SF` on the shutdown branch of `select!`: the macro polls its
branches in random order, so a signal that stays ready is not passed over for
ever although the timer or a notification may be ready each time. (`Leave` and
`SeeShutdown` are not continuously enabled: the task leaves the select to drain.)
`SF` on `List`: the pull loop asks again and again, and a list is not refused for ever
(without this a server that answers no list would keep cache and server apart). `WF` on
`Start`: a daemon is started at least once. `WF` on `Client(r)`: a call that
waits gets an answer or its time-out, and a delay ends. `WF` on `Command(m)`: a
started command runs, and `wait_for_ready` has a deadline. `WF` on the two
`readdir` steps: a program that lists a directory goes on to its end. Nothing is
assumed of editors, other clients, servers, daemons, unmounting or kills, and
nothing forces a push to succeed.

## What is proved

For every value of the constants that the assumptions allow: any number of paths,
edits, attempts, lives, documents, events, inodes, names, rows, keys, permits, tags,
mounts, requests and tries, any chunk and file size, however coarse the remote times.
The assumptions are named in the modules: `WorkerAssumption`, `SyncAssumption`,
`NamespaceAssumption`, `DbFileAssumption`, `MemAssumption`, `BooksAssumption`,
`HydrationAssumption`, `DaemonAssumption`, `ApiClientAssumption` and
`AdapterAssumption`. They say that null values are not values, that bounds are natural numbers, that there is at least one
permit, try and attempt, that a path of the brain is below private/notes, and that a
chunk has a byte.

Every invariant and every action property that a passing run checks is the statement of
a theorem, and so is each of the three refinements. What the runs add is the liveness.

| Module | Theorems (`Spec => []` of what is in brackets, unless said otherwise) |
|---|---|
| `PushWorkerProofs` | TypeCorrect, FinalizeMeetsJob, NoLostEdit, PoisonIsFinal (TypeOK, JobOwnsRow, LatestRetained, PoisonedAtRest), InOrder (DrainedInOrder), Refinement (`Spec => Implements`) |
| `DocSyncProofs` | TypeCorrect, EditsTracked (EditTracked), StampsJustified (DirtyIsJustified), WatermarkMissesNothing (NothingMissed) |
| `NamespaceProofs` | TypeCorrect, LinksRight (LinksCounted), PathsRight (PathsAgree), DeletesSpare (DeleteSpares) |
| `DbFileProofs` | ChunksContiguous (Contiguous), ReadsRight (ReadsAgree), FileImplementsFlat (`Spec => ImplementsFlat`) |
| `MemFsProofs` | TypeCorrect, LinksRight (LinksCounted), NoneLeaks (NothingLeaks) |
| `AdapterProofs` | TypeCorrect (TypeOK), WrittenIsQueued (QueuedAtRest), PlaceKept (ListingKeepsPlace) |
| `DaemonProofs` | GuardAlwaysHolds (GuardHolds), TypeCorrect, ReadyAlwaysFresh (ReadyIsFresh), HintsKept (HintKept) |
| `FetchProofs`, on ApiClient | TypesHold, DeletesSettle, OnceUnlessALoss, NoLateWrites (the action property), Implements (`Spec => ImplementsPromise`) |
| `FetchProofs`, on Hydration | BooksAlwaysBalance, Deduplication (NoDoubleFetch), NoLostRequest (NothingForgotten), CleanExit |

PoisonIsFinal, BooksAlwaysBalance, CleanExit and TypesHold state properties that the
runs leave to the proofs.

*The worker.* JobOwnsRow is not inductive alone: that a finalize meets the executed
entry needs that a row in flight is not claimed a second time and that its op does
not change. LatestRetained needs more: when a push succeeds, op leaves the row, and
the newest edit stays only if it is pending or was that op. `IInv` therefore adds
`RowsConsistent` (op and pending differ and are at most the newest edit) and
`JobCounted` (the job's attempt is its row's, and was below the maximum when it was
executed, which keeps attempts in range). The order of pushes rests on `OInv`, built
on `IInv`: `NewestLast` (without a retry a live row has the newest edit as op with
nothing pending, or is in flight with the newest edit pending) and `ExecutedApplied`
(between an "ok" and its finalize the server has the op). For the refinement each
action is shown to be an abstract Edit or Acknowledge, or to leave the kept sets
alone.

*Documents.* Push and pull are proved one after the other. `PushInv` makes
EditTracked and DirtyIsJustified inductive. An edit could be forgotten when a
successful push deletes the row: `BodyCurrent` says that in the end, if the file
is closed and nothing was enqueued since the body was read (`Quiet`), the body is what
the cache holds, or a pull has replaced it by a version of the server. A stamp could be
stranded, or cleared too early, in the step after: `StampOlder` says that in these
conditions the stamp is older than what the push put on the server. `JobOwned` keeps
the row of the job in place; `AllReached` says that whatever a listing, a pull or an
acknowledged push holds has been on the server. `PullInv` is about versions: while a
pull runs, each is still in the listing, at hand, `Kept` (in the cache, or about to be
replaced by an edit that is tracked), or newer than all this pull has seen (`Ahead`),
so the watermark does not pass it (`Accounted`); afterwards what is at or below the
watermark is kept (`SeenHeld`). `ListedOrAhead` is why an old listing does no harm: what
it says is still true, or the server has something newer than all of it. The theorem
exempts exactly the documents in `dropped` and `masked`; without the second exemption the
induction fails at `Skip`, on a version of the stamp's own second (`DocSync_coarse`).

*The namespace.* A request is several statements, so the invariant says, besides the
tables, what each actor may rely on at its next one (`RequestOK`, `PullOK`): that what
it holds is an inode it may drop, a directory it looked up, a path of the brain.
`Typed` holds of the tables whatever a lookup answers, `Sound` until one is answered
wrong; besides the counts it says that a directory has at most one entry, and two
links while it has that one. Without this, LinksCounted is not inductive: a
directory's link is taken by rmdir and by a rename over it, and nothing counts the
entries of directories. In the midst of a request links and entries are out of step,
by one name that is taken away before its link, or entered before it is counted. `Sound`
is therefore said of the `Ledger`: the entries, with a name for the link that is still
to go and without the name that is still to be counted. Taking a name away is then only
a renaming in the ledger, whatever a pull does to the name meanwhile. All are
predicates of tables, so that each change (a new inode under a name, an entry cut, a
link dropped, an entry moved over another) is a lemma of its own, which the statements
cite. For DeleteSpares the layer above says that mappings and inodes go together
(`Mapped`), that two inodes have one path only if `shared` has it, and of the *last*
operation of each path, running or pending, what DeleteSpares says of those that wait
(`Spared`): a Delete that is pending behind a Write must have been right when it was
enqueued. That the paths are sequences of names with a directory is an induction over
the recursive function `Ways`.

PathsAgree compares a path with `Ways(i)`, the ways up from an inode that are not longer
than there are inodes. The proof looks at them from above: a `Trail` is the inodes that
a sequence of names leads to from the root, and a way is a trail that ends in i
(`WaysLead`). A step keeps the trails to what is not below the entry it cuts; and what
is below it enters `strayed`, or loses its path. The length is the difficulty: a pull makes
directories below whatever it meets, and a rename makes ways longer. `NoLoop` says
that no inode is below itself (every set of inodes with names has one that is in none of
the others), hence a trail meets no inode twice and is short enough. It is what the
kernel's refusals keep, and fails without them. A rename cuts the moved inode off before it enters it again, and a link enters it
later than it has asked: until then what is in hand is kept `Apart` from the directory
it goes to. With `NoDirs` (only leaves have paths) and `Agreed` (the path of each that
has not strayed, recorded or about to be, is that of a trail) this is `Straight`,
inductive on top of the other layers, as long as no lookup was answered wrong.

*Chunks.* Contiguous is inductive, but nothing can be said about it in terms of rows: a
write at an offset meets rows, divisions and remainders. The proof counts in offsets.
`Start(i)` is where chunk i begins, `Fits` restates Contiguous as "the rows are those
that begin before size, each as long as the file goes on, at most a chunk", and `At(k)`
is the byte at offset k. Rows that are all full but the last join to the sequence of
`At` (`FlattenEven`, `JoinedIs`, by induction); then read, write, truncate and
replace are compared with FlatFile's byte by byte. A torn file maps to whatever its
rows join to, and FlatFile says of it only that a replacement or a drop mends it.

*The in-memory tree.* Entries are nested in the inodes, so the proof speaks of `To`, the
set of entries that lead to an inode: what each change of the table does to that set is
a lemma, and an action is put together from them. LinksCounted is not inductive alone.
`Sound` adds that no entry leads to the root, that a directory has at most one
entry, and that a keep file has one, in a directory. A directory is freed by its link
count, which rmdir lowers and a rename into it does not raise, so it may still have
entries; that its own entry is the only one and is just being replaced keeps the table
closed. The files in it lose their entries and keep their counts: `Rename` puts
them in `detached`, without which LinksCounted fails (with six inodes).

NothingLeaks is about what can be reached, by a recursion over the number of inodes.
`Whole` says the same without it: a set of inodes that has the root and what is lost,
and that no entry leads out of, has every inode. In this form a step is easy to
follow: what it cuts off is entered in `detached` or freed with all that is below it, and
new inodes have their entry. That `Below(S)`, after as many rounds as there are inodes,
is such a set is a count: in each round an inode is added or the set is shut.

*The adapters.* QueuedAtRest is inductive with the types and with the fact that no file
has more in the queue than was stored (`FilesOK`): a write needs a handle, and the release
of the last one enqueues whatever the flushes before it missed. A listing is understood by
the places of the names. An entry that comes or goes moves those behind it by one, so
the FUSE cursor, a number, passes over entries that were not listed (`Skipped`) and stands
before entries that were (`Again`); `FuseKeeps` bounds the first by the removals since
the listing began, and the second, with what was repeated already, by the additions.
That one change moves each count by at most one is a lemma on places
(`RankOrder` and those after it). The NFS cursor is an entry: as long as it is there it
`Parts` the names, nothing behind it was listed and everything before it was.

*Hydration.* BooksBalance, with the types and with tasks holding different keys, is
inductive; from it NoDoubleFetch and NothingForgotten follow per action, and
OffMeansIdle from the join.

*The guard and the hints.* A process that has named itself is the one its pid file
names, as long as the tag is not in `gap`; one that has passed the guard and not named
itself is the only one of its tag. Both together, with the types that the steps read,
are inductive: a command passes the guard only when the pid file is missing or names a
dead process, and every clean-up that could remove the name of a running one enters the
tag in `gap`. ReadyIsFresh needs only where a startup file comes from. HintKept is
built on the guard: a daemon whose hint is in place is the one its pid file names, so a
sweep that checks finds it alive and keeps its block (`HintsHeld`), as long as what the
sweep read is still what the file holds (`CopyCurrent`). Without
the exemptions the induction fails: with three mounts at a write on an outdated
copy (`old`), with two tags of one delimiter at the uninstall of the other (`PlainTag`).

*The requests.* `NothingPending`: a request none of whose tries was given up has at most
its present try, on the wire or carried out, and none once it has its answer.
`AnswersTrue`: an answer "ok" to a try, and a result "ok", mean that one was carried
out, and for a delete that there was no document. With the tries in order these are
inductive; that no write is late, or doubled, without a loss follows per step. For the
refinement a receipt or a loss is an abstract answer or a stutter and the server's step
is CarryOut or a stutter.

Only model-checked are the liveness properties (EveryEditSettles, EveryKeyFetched,
Converges, ShutdownEnds, ListingEnds, CommandAnswers, Answered): they rest on fairness and
ENABLED, which the prover does not reason about.

## What is not modelled, and the plan

* The deletion scan finds no document, because nothing outside tests sets
  `remote_id`. The full pull runs once, before the mount and before any of the tasks
  is started: it takes documents and spares dirty ones as the delta pull does
  (`sync/pull.rs:117-125`), without a watermark to skip below.
* `setattr` other than a size, and times, modes and owners: last writer wins, read
  by nobody in the program. `apply_deletion` is called by the scan alone.
* `import_file` and the import of existing files, a task of its own that the daemon
  spawns before it mounts (`daemon_runtime.rs:87-93`) and that goes on beside the others:
  it asks the server for each file and puts those it does not have, by-passing tree,
  queue and database. A document that someone makes between the two is overwritten.
* The marker file, configuration, credentials, the command line, packaging, the
  wording of logs and reports: small files written whole, no protocol.
* The control socket, which nobody serves. The legacy `push::run` repeats
  `run_push_worker` without its timer.
* In the client's HTTP interface: listing and search repeat as `get` does;
  provisioning and verification send once; facts and entities have no caller in
  the filesystem.
* Clocks: two remote documents with one timestamp, and more than a page of them
  (500), need a server that commits out of the order of its timestamps.

What would come next: `Namespace` with failing pushes, whose rows then live longer than
the renames behind them, and the stamps of `DocSync` under unlink and rename.
