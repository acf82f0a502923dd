------------------------------ MODULE Adapter ------------------------------
(***************************************************************************)
(* mount/fuse.rs and mount/nfs.rs: what stands between the kernel and the  *)
(* FileSystem trait.  Most handlers pass one call on; state of its own has *)
(* the FUSE table of open files, whose flush and release are the only way  *)
(* of a written file into the push queue, and a listing of a directory,    *)
(* which the kernel fetches in several calls.  A mount uses one backend.   *)
(*                                                                         *)
(* A file is the number of changes made to it.  With the writeback cache   *)
(* the kernel holds dirty pages and writes them before it sends flush or   *)
(* release; a mapping can make pages dirty after the last descriptor was   *)
(* closed and flushed.  Entries of the listed directory are in the order   *)
(* of their names, which are numbers here.                                 *)
(***************************************************************************)
EXTENDS Naturals, Sequences, FiniteSets, FiniteSetsExt, SequencesExt

CONSTANTS
  Backends,    (* subset of {"fuse", "nfs"}                              *)
  Inodes,      (* files that are opened and written                      *)
  MaxFh,       (* bound: file handles                                    *)
  MaxChanges,  (* bound: changes of one file                             *)
  NameCount,   (* names in the listed directory: 1..NameCount            *)
  MaxEntry,    (* bound: inodes that ever were in the listed directory   *)
  MaxReturns,  (* bound: entries that come back to it under any name     *)
  MaxReply,    (* entries that fit in one reply                          *)
  NoFile

ASSUME AdapterAssumption ==
  /\ Backends \subseteq {"fuse", "nfs"}
  /\ NoFile \notin Inodes
  /\ NameCount \in Nat \ {0}
  /\ {MaxFh, MaxChanges, MaxEntry, MaxReturns, MaxReply} \subseteq Nat

VARIABLES
  backend,
  openFiles,  (* open_files: handle -> inode, NoFile after release_fh    *)
  nextFh,
  pages,      (* inodes with dirty pages in the kernel                   *)
  stored,     (* changes in the cache database                           *)
  queued,     (* changes in it when the file was last enqueued           *)
  unhandled,  (* history: inodes changed by a setattr since then         *)
  ended,      (* the session is over                                     *)
  folder,     (* the listed directory: name -> inode                     *)
  nextEntry,  (* the next inode to appear in it for the first time       *)
  returns,    (* entries that came back to it                            *)
  listing     (* the listing under way, see Idle                         *)

files == <<openFiles, nextFh, pages, stored, queued, unhandled, ended>>
directory == <<folder, nextEntry, returns, listing>>
vars == <<backend, files, directory>>

(* cursor: entries the FUSE kernel has, or the last inode the NFS client   *)
(* has; got: what was listed; steady: the inodes there all the time;       *)
(* added, removed: how often the directory changed meanwhile; lost: the    *)
(* entry at the NFS cursor was removed.                                    *)
Idle == [state |-> "idle", cursor |-> 0, got |-> <<>>, steady |-> {},
         added |-> 0, removed |-> 0, lost |-> FALSE]

Init ==
  /\ backend \in Backends
  /\ openFiles = <<>>
  /\ nextFh = 1
  /\ pages = {}
  /\ stored = [i \in Inodes |-> 0]
  /\ queued = stored
  /\ unhandled = {}
  /\ ended = FALSE
  /\ folder = [n \in 2..NameCount |-> n - 1]   (* the first name is free *)
  /\ nextEntry = NameCount
  /\ returns = 0
  /\ listing = Idle
-----------------------------------------------------------------------------
Live(fh) == fh \in DOMAIN openFiles /\ openFiles[fh] # NoFile
Fuse == backend = "fuse" /\ ~ ended

(* Mutant of Open: the number is not advanced. *)
OpenSameFh(i) ==
  /\ Fuse /\ nextFh <= MaxFh
  /\ openFiles' = Append(openFiles, i)
  /\ UNCHANGED <<backend, nextFh, pages, stored, queued, unhandled, ended, directory>>

(* open and create: alloc_fh never uses a number twice. *)
Open(i) ==
  /\ Fuse /\ nextFh <= MaxFh
  /\ openFiles' = Append(openFiles, i)
  /\ nextFh' = nextFh + 1
  /\ UNCHANGED <<backend, pages, stored, queued, unhandled, ended, directory>>

(* A program writes into the kernel's pages ... *)
Dirty(fh) ==
  /\ Fuse /\ Live(fh)
  /\ pages' = pages \cup {openFiles[fh]}
  /\ UNCHANGED <<backend, openFiles, nextFh, stored, queued, unhandled, ended, directory>>

(* ... and the kernel sends them as a write. *)
Write(fh) ==
  /\ Fuse /\ Live(fh)
  /\ openFiles[fh] \in pages
  /\ stored[openFiles[fh]] < MaxChanges
  /\ pages' = pages \ {openFiles[fh]}
  /\ stored' = [stored EXCEPT ![openFiles[fh]] = @ + 1]
  /\ UNCHANGED <<backend, openFiles, nextFh, queued, unhandled, ended, directory>>

(* DbFile::flush, through the handle. *)
Enqueued(i) ==
  /\ queued' = [queued EXCEPT ![i] = stored[i]]
  /\ unhandled' = unhandled \ {i}

(* flush: a close, of one of several descriptors perhaps. *)
Flush(fh) ==
  /\ Fuse /\ Live(fh)
  /\ openFiles[fh] \notin pages
  /\ Enqueued(openFiles[fh])
  /\ UNCHANGED <<backend, openFiles, nextFh, pages, stored, ended, directory>>

(* Mutant of Release: flush has seen to it. *)
ReleaseOnly(fh) ==
  /\ Fuse /\ Live(fh)
  /\ openFiles[fh] \notin pages
  /\ openFiles' = [openFiles EXCEPT ![fh] = NoFile]
  /\ UNCHANGED <<backend, nextFh, pages, stored, queued, unhandled, ended, directory>>

(* release: once more a flush, whose error is dropped. *)
Release(fh) ==
  /\ Fuse /\ Live(fh)
  /\ openFiles[fh] \notin pages
  /\ Enqueued(openFiles[fh])
  /\ openFiles' = [openFiles EXCEPT ![fh] = NoFile]
  /\ UNCHANGED <<backend, nextFh, pages, stored, ended, directory>>

(* setattr with a size: of a file nobody has open it is a change that no   *)
(* flush follows.                                                          *)
SetSize(i) ==
  /\ backend = "nfs" \/ ~ ended
  /\ stored[i] < MaxChanges
  /\ stored' = [stored EXCEPT ![i] = @ + 1]
  /\ unhandled' = unhandled \cup {i}
  /\ UNCHANGED <<backend, openFiles, nextFh, pages, queued, ended, directory>>

(* write of the NFS adapter: it opens, writes and drops the handle. *)
NfsWrite(i) ==
  /\ backend = "nfs"
  /\ stored[i] < MaxChanges
  /\ stored' = [stored EXCEPT ![i] = @ + 1]
  /\ UNCHANGED <<backend, openFiles, nextFh, pages, queued, unhandled, ended, directory>>

(* destroy: the table is cleared, of open files as well. *)
Destroy ==
  /\ Fuse
  /\ ended' = TRUE
  /\ openFiles' = [fh \in DOMAIN openFiles |-> NoFile]
  /\ pages' = {}
  /\ UNCHANGED <<backend, nextFh, stored, queued, unhandled, directory>>
-----------------------------------------------------------------------------
(* readdir_plus: the entries by name, each at the place the names up to    *)
(* its own give it.                                                        *)
Place(n) == Cardinality({m \in DOMAIN folder : m <= n})
Entries == [k \in 1..Cardinality(DOMAIN folder) |->
              folder[CHOOSE n \in DOMAIN folder : Place(n) = k]]

StartListing ==
  /\ listing.state # "open"
  /\ listing' = [Idle EXCEPT !.state = "open", !.steady = Range(Entries)]
  /\ UNCHANGED <<backend, files, folder, nextEntry, returns>>

(* What one reply holds, from the cursor on. *)
Page(entries, cursor, max) ==
  SubSeq(entries, cursor + 1, Min({cursor + max, Len(entries)}))

(* FUSE: the cursor is a position in the listing as it is now; an empty    *)
(* reply ends it.                                                          *)
FuseReadDir ==
  /\ backend = "fuse" /\ listing.state = "open"
  /\ \E max \in 1..MaxReply :
       LET page == Page(Entries, listing.cursor, max)
       IN listing' = [listing EXCEPT
            !.got = @ \o page,
            !.cursor = @ + Len(page),
            !.state = IF page = <<>> THEN "done" ELSE "open"]
  /\ UNCHANGED <<backend, files, folder, nextEntry, returns>>

(* Mutant of After: a reply starts at the entry that was listed last. *)
AfterAt(entries, last) ==
  LET at == {k \in 1..Len(entries) : entries[k] = last}
  IN IF last = 0 THEN 0
     ELSE IF at = {} THEN Len(entries) ELSE Min(at) - 1

(* The position of the entry that was listed last, the end of the listing  *)
(* when it is not there any more.                                          *)
After(entries, last) ==
  LET at == {k \in 1..Len(entries) : entries[k] = last}
  IN IF last = 0 THEN 0
     ELSE IF at = {} THEN Len(entries) ELSE Min(at)

(* Mutant of NfsReadDir: the end is never reported. *)
NfsReadDirOn ==
  /\ backend = "nfs" /\ listing.state = "open"
  /\ \E max \in 1..MaxReply :
       LET page == Page(Entries, After(Entries, listing.cursor), max)
       IN listing' = [listing EXCEPT
            !.got = @ \o page,
            !.cursor = IF page = <<>> THEN @ ELSE Last(page)]
  /\ UNCHANGED <<backend, files, folder, nextEntry, returns>>

(* NFS: the cursor is the inode that was listed last; a reply that is not  *)
(* full ends it.                                                           *)
NfsReadDir ==
  /\ backend = "nfs" /\ listing.state = "open"
  /\ \E max \in 1..MaxReply :
       LET page == Page(Entries, After(Entries, listing.cursor), max)
       IN listing' = [listing EXCEPT
            !.got = @ \o page,
            !.cursor = IF page = <<>> THEN @ ELSE Last(page),
            !.state = IF Len(page) < max THEN "done" ELSE "open"]
  /\ UNCHANGED <<backend, files, folder, nextEntry, returns>>

(* The directory changes between two calls.  What appears under a free     *)
(* name is a new inode, or one that was in the directory before: a rename  *)
(* takes the entry out under one lock and puts the same inode back under   *)
(* another, in this directory or, by way of a second one, later.           *)
AddEntry(n, i) ==
  /\ n \notin DOMAIN folder /\ i \notin Range(folder)
  /\ \/ i = nextEntry /\ nextEntry <= MaxEntry
        /\ nextEntry' = nextEntry + 1 /\ UNCHANGED returns
     \/ i < nextEntry /\ returns < MaxReturns
        /\ returns' = returns + 1 /\ UNCHANGED nextEntry
  /\ folder' = [m \in DOMAIN folder \cup {n} |-> IF m = n THEN i ELSE folder[m]]
  /\ listing' = IF listing.state = "open"
                THEN [listing EXCEPT !.added = @ + 1] ELSE Idle
  /\ UNCHANGED <<backend, files>>

RemoveEntry(n) ==
  /\ n \in DOMAIN folder
  /\ folder' = [m \in DOMAIN folder \ {n} |-> folder[m]]
  /\ listing' = IF listing.state = "open"
                THEN [listing EXCEPT
                        !.steady = @ \ {folder[n]},
                        !.removed = @ + 1,
                        !.lost = @ \/ folder[n] = listing.cursor]
                ELSE Idle
  /\ UNCHANGED <<backend, files, nextEntry, returns>>
-----------------------------------------------------------------------------
FileStep ==
  \/ \E i \in Inodes : Open(i) \/ SetSize(i) \/ NfsWrite(i)
  \/ \E fh \in 1..MaxFh : Dirty(fh) \/ Write(fh) \/ Flush(fh) \/ Release(fh)
  \/ Destroy

ListStep == StartListing \/ FuseReadDir \/ NfsReadDir

Next ==
  \/ FileStep
  \/ ListStep
  \/ \E n \in 1..NameCount :
       (\E i \in 1..nextEntry : AddEntry(n, i)) \/ RemoveEntry(n)

(* A program that lists a directory goes on until the end. *)
Spec == Init /\ [][Next]_vars /\ WF_vars(FuseReadDir \/ NfsReadDir)
-----------------------------------------------------------------------------
(* The values the variables take; a file never has more in the queue than  *)
(* was stored, and a listing gives only entries that were made.            *)
TypeOK ==
  /\ backend \in Backends
  /\ nextFh \in 1..(MaxFh + 1)
  /\ openFiles \in [1..(nextFh - 1) -> Inodes \cup {NoFile}]
  /\ pages \subseteq Inodes /\ unhandled \subseteq Inodes
  /\ stored \in [Inodes -> 0..MaxChanges]
  /\ \A i \in Inodes : queued[i] \in 0..stored[i]
  /\ ended \in BOOLEAN
  /\ DOMAIN folder \subseteq 1..NameCount /\ returns \in 0..MaxReturns
  /\ Range(listing.got) \subseteq 1..(nextEntry - 1)

(* Once a file is closed for good, all that was written through FUSE is in *)
(* the push queue: the write that a mapping, or another descriptor, sends  *)
(* after the flush is caught by the release.  Not so a setattr without a   *)
(* handle, and not when the session ends with files open.                  *)
QueuedAtRest ==
  Fuse => \A i \in Inodes :
            \/ \E fh \in DOMAIN openFiles : openFiles[fh] = i
            \/ i \in unhandled
            \/ queued[i] = stored[i]

(* Entries that were there all the time and were not listed; entries that  *)
(* were listed again, and how often.                                       *)
Missed == Cardinality(listing.steady \ Range(listing.got))
Repeated == Len(listing.got) - Cardinality(Range(listing.got))
Twice == {i \in Range(listing.got) :
            \E j, k \in 1..Len(listing.got) :
              j < k /\ listing.got[j] = i /\ listing.got[k] = i}

(* FUSE: a listing loses its place, but misses no more entries than were   *)
(* removed while it ran and repeats no more than were added (one that was  *)
(* renamed was removed and added).  NFS: unless the very entry the client  *)
(* stands at is removed or renamed, every entry that was there all the     *)
(* time is listed, and once; after such a rename the client stands         *)
(* elsewhere, and may miss or repeat what stayed.  Either way a directory  *)
(* that does not change is listed in full, every entry once.               *)
ListingKeepsPlace ==
  LET over == listing.state = "done"
  IN IF backend = "fuse"
     THEN (over => Missed <= listing.removed) /\ Repeated <= listing.added
     ELSE \/ listing.lost
          \/ (over => Missed = 0) /\ Twice \cap listing.steady = {}

(* A listing comes to its end, however the directory changes meanwhile,    *)
(* which it does a bounded number of times: an NFS client whose place is   *)
(* renamed to the front before each of its calls would go on for ever.     *)
ListingEnds == listing.state = "open" ~> listing.state # "open"
=============================================================================
