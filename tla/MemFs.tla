------------------------------- MODULE MemFs -------------------------------
(***************************************************************************)
(* vfs/mem.rs: the in-memory reference implementation of the FileSystem    *)
(* trait.  Every operation holds the mutex of State from its first check   *)
(* to its last change, except create_file, which checks under one lock,    *)
(* inserts under a second and reads what it made under a third.  Callers   *)
(* are tasks that hold inode numbers and may use any of them, of inodes    *)
(* that are gone as well.                                                  *)
(*                                                                         *)
(* Operations that fail and change nothing are left out, and so are        *)
(* attributes; the bytes of a file are module FlatFile.  Callers do not    *)
(* make hard links to the hidden keep file of a directory: rmdir drops it  *)
(* whatever its link count.                                                *)
(***************************************************************************)
EXTENDS Naturals, FiniteSets

CONSTANTS
  Names,    (* what callers name entries                                 *)
  Keep,     (* KEEP_FILE, the hidden entry of a directory                *)
  Callers,
  Nothing,  (* a caller that is not in the middle of create_file         *)
  MaxIno,   (* bound: inode numbers handed out                           *)
  MaxLinks  (* bound: link count of a file                               *)

ASSUME MemAssumption ==
  /\ Keep \notin Names
  /\ Nothing \notin Nat \X Names
  /\ MaxIno \in Nat \ {0} /\ MaxLinks \in Nat \ {0}

Root == 1

VARIABLES
  node,       (* State.inodes: number -> [kind, nlink, kids]             *)
  nextIno,    (* Allocator                                               *)
  creating,   (* per caller: directory and name, from the first lock of
                 create_file to the second                               *)
  made,       (* per caller: the inode it made, from the second lock to
                 the third; 0 if none                                    *)
  detached    (* history: inodes whose last entry was dropped without
                 removing them                                           *)

vars == <<node, nextIno, creating, made, detached>>

Live == DOMAIN node
Dirs == {i \in Live : node[i].kind = "dir"}
Dir == [kind |-> "dir", nlink |-> 2, kids |-> <<>>]
Leaf(kind) == [kind |-> kind, nlink |-> 1, kids |-> <<>>]

Without(f, S) == [x \in DOMAIN f \ S |-> f[x]]
With(f, x, v) == [y \in DOMAIN f \cup {x} |-> IF y = x THEN v ELSE f[y]]

Has(d, n) == d \in Dirs /\ n \in DOMAIN node[d].kids
Child(d, n) == node[d].kids[n]
Visible(i) == DOMAIN node[i].kids \ {Keep}
Kids(nodes, i) == {nodes[i].kids[n] : n \in DOMAIN nodes[i].kids}

PutEntry(nodes, d, n, i) == [nodes EXCEPT ![d].kids = With(@, n, i)]
CutEntry(nodes, d, n) == [nodes EXCEPT ![d].kids = Without(@, {n})]
Less(k) == IF k = 0 THEN 0 ELSE k - 1

(* Mutant of Unlinked: the count is tested before it is lowered. *)
UnlinkedLate(nodes, i) ==
  IF nodes[i].nlink = 0 THEN Without(nodes, {i})
  ELSE [nodes EXCEPT ![i].nlink = @ - 1]

(* One link fewer; the inode goes with its last one. *)
Unlinked(nodes, i) ==
  IF nodes[i].nlink <= 1 THEN Without(nodes, {i})
  ELSE [nodes EXCEPT ![i].nlink = @ - 1]

(* The entries that lead to i. *)
Entries(i) == {e \in Dirs \X (Names \cup {Keep}) :
                 e[2] \in DOMAIN node[e[1]].kids /\ Child(e[1], e[2]) = i}
Links(i) == Cardinality(Entries(i))

(* S and all that entries lead to from there. *)
Below(S) ==
  LET reach[k \in 0..Cardinality(Live)] ==
        IF k = 0 THEN S
        ELSE reach[k - 1] \cup UNION {Kids(node, i) : i \in reach[k - 1] \cap Dirs}
  IN reach[Cardinality(Live)]

Init ==
  /\ node = With(<<>>, Root, Dir)
  /\ nextIno = 2
  /\ creating = [c \in Callers |-> Nothing]
  /\ made = [c \in Callers |-> 0]
  /\ detached = {}
-----------------------------------------------------------------------------
(* mkdir: the new directory starts with a keep file. *)
Mkdir(d, n) ==
  /\ d \in Dirs /\ ~ Has(d, n)
  /\ nextIno < MaxIno
  /\ LET linked == PutEntry([node EXCEPT ![d].nlink = @ + 1], d, n, nextIno)
         new == [Dir EXCEPT !.kids = With(<<>>, Keep, nextIno + 1)]
     IN node' = With(With(linked, nextIno, new), nextIno + 1, Leaf("file"))
  /\ nextIno' = nextIno + 2
  /\ UNCHANGED <<creating, made, detached>>

(* The keep file of directory i, if it has one (it can be unlinked). *)
KeepOf(i) == IF Keep \in DOMAIN node[i].kids THEN {Child(i, Keep)} ELSE {}

KeepFiles == UNION {KeepOf(i) : i \in Dirs}

(* Mutant of Rmdir: the emptiness check comes to nothing. *)
RmdirAny(d, n) ==
  /\ Has(d, n)
  /\ LET i == Child(d, n)
     IN /\ i \in Dirs
        /\ node' = [Without(CutEntry(node, d, n), {i} \cup KeepOf(i))
                      EXCEPT ![d].nlink = Less(@)]
  /\ UNCHANGED <<nextIno, creating, made, detached>>

(* rmdir of a directory with at most a keep file. *)
Rmdir(d, n) ==
  /\ Has(d, n)
  /\ LET i == Child(d, n)
     IN /\ i \in Dirs /\ Visible(i) = {}
        /\ node' = [Without(CutEntry(node, d, n), {i} \cup KeepOf(i))
                      EXCEPT ![d].nlink = Less(@)]
  /\ UNCHANGED <<nextIno, creating, made, detached>>

(* rmdir of any other: the keep file was removed and a new one put back. *)
RmdirNotEmpty(d, n) ==
  /\ Has(d, n)
  /\ LET i == Child(d, n)
     IN /\ i \in Dirs /\ Visible(i) # {} /\ KeepOf(i) # {}
        /\ nextIno <= MaxIno
        /\ node' = With(PutEntry(Without(node, KeepOf(i)), i, Keep, nextIno),
                        nextIno, Leaf("file"))
        /\ nextIno' = nextIno + 1
  /\ UNCHANGED <<creating, made, detached>>
-----------------------------------------------------------------------------
(* create_file, first lock: the name is free (else it is opened) ...       *)
CreateCheck(c, d, n) ==
  /\ creating[c] = Nothing /\ made[c] = 0
  /\ d \in Dirs /\ ~ Has(d, n)
  /\ creating' = [creating EXCEPT ![c] = <<d, n>>]
  /\ UNCHANGED <<node, nextIno, made, detached>>

(* ... second lock: the inode, then its entry in place of one that came    *)
(* between; the unwrap() of a parent that went between panics after the    *)
(* inode is in.                                                            *)
CreateInsert(c) ==
  /\ creating[c] # Nothing
  /\ nextIno <= MaxIno
  /\ LET d == creating[c][1]
         n == creating[c][2]
         put == IF d \in Live THEN PutEntry(node, d, n, nextIno) ELSE node
     IN /\ node' = With(put, nextIno, Leaf("file"))
        /\ detached' = detached \cup
             (IF d \notin Live THEN {nextIno}
              ELSE IF Has(d, n) THEN {Child(d, n)} ELSE {})
        /\ made' = [made EXCEPT ![c] = IF d \in Live THEN nextIno ELSE 0]
  /\ nextIno' = nextIno + 1
  /\ creating' = [creating EXCEPT ![c] = Nothing]

(* ... third lock: the attributes of the new inode for the answer.  The    *)
(* unwrap() of one that was unlinked or renamed over since panics, and the *)
(* caller goes without an answer; neither way changes an inode.            *)
CreateAnswer(c) ==
  /\ made[c] # 0
  /\ made' = [made EXCEPT ![c] = 0]
  /\ UNCHANGED <<node, nextIno, creating, detached>>

Symlink(d, n) ==
  /\ d \in Dirs /\ ~ Has(d, n)
  /\ nextIno <= MaxIno
  /\ node' = With(PutEntry(node, d, n, nextIno), nextIno, Leaf("symlink"))
  /\ nextIno' = nextIno + 1
  /\ UNCHANGED <<creating, made, detached>>

Link(i, d, n) ==
  /\ i \in Live \ (Dirs \cup KeepFiles) /\ node[i].nlink < MaxLinks
  /\ d \in Dirs /\ ~ Has(d, n)
  /\ node' = PutEntry([node EXCEPT ![i].nlink = @ + 1], d, n, i)
  /\ UNCHANGED <<nextIno, creating, made, detached>>

Unlink(d, n) ==
  /\ Has(d, n)
  /\ Child(d, n) \in Live \ Dirs
  /\ node' = Unlinked(CutEntry(node, d, n), Child(d, n))
  /\ UNCHANGED <<nextIno, creating, made, detached>>

(* Mutant of Rename: a destination keeps its link. *)
RenameOver(d, n, e, m) ==
  /\ Has(d, n)
  /\ LET i == Child(d, n)
         cut == CutEntry(node, d, n)
     IN IF e \in Dirs
        THEN /\ node' = PutEntry(cut, e, m, i)
             /\ UNCHANGED detached
        ELSE /\ node' = cut
             /\ detached' = detached \cup {i}
  /\ UNCHANGED <<nextIno, creating, made>>

(* rename: the source entry goes first, a destination loses a link (a      *)
(* directory starts with two and is not looked into), then the entry comes *)
(* back under its new name - unless the new parent is gone or no           *)
(* directory: the error leaves the inode without an entry.  A directory    *)
(* may be moved below itself.                                              *)
Rename(d, n, e, m) ==
  /\ Has(d, n)
  /\ LET i == Child(d, n)
         cut == CutEntry(node, d, n)
         over == e \in Dirs /\ m \in DOMAIN cut[e].kids
         dst == cut[e].kids[m]
         freed == IF over THEN Unlinked(cut, dst) ELSE cut
         orphans == IF ~ over \/ dst \notin Dirs THEN {}
                    ELSE IF dst \in DOMAIN freed THEN {dst}
                    ELSE {dst} \cup Kids(cut, dst)
     IN IF e \in Dirs /\ e \in DOMAIN freed
        THEN /\ node' = PutEntry(freed, e, m, i)
             /\ detached' = detached \cup orphans
                  \cup (IF i \in Dirs /\ e \in Below({i}) THEN {i} ELSE {})
        ELSE /\ node' = freed
             /\ detached' = detached \cup orphans \cup {i}
  /\ UNCHANGED <<nextIno, creating, made>>
-----------------------------------------------------------------------------
Next ==
  \/ \E c \in Callers : CreateInsert(c) \/ CreateAnswer(c)
  \/ \E d \in Dirs, n \in Names :
       \/ Mkdir(d, n) \/ Rmdir(d, n) \/ RmdirNotEmpty(d, n)
       \/ Symlink(d, n)
       \/ \E c \in Callers : CreateCheck(c, d, n)
       \/ \E i \in Live : Link(i, d, n)
       \/ \E e \in 1..MaxIno, m \in Names : Rename(d, n, e, m)
  \/ \E d \in Dirs, n \in Names \cup {Keep} : Unlink(d, n)

Spec == Init /\ [][Next]_vars
-----------------------------------------------------------------------------
(* The types; a link count never goes below zero or wraps. *)
TypeOK ==
  /\ nextIno \in 2..(MaxIno + 1)
  /\ Root \in Live /\ Live \subseteq 1..(nextIno - 1)
  /\ \A i \in Live :
       /\ node[i].kind \in {"dir", "file", "symlink"}
       /\ node[i].nlink \in (IF i \in Dirs THEN 0..(MaxIno + 2) ELSE 1..MaxLinks)
       /\ DOMAIN node[i].kids \subseteq Names \cup {Keep}
       /\ i \notin Dirs => node[i].kids = <<>>
  /\ creating \in [Callers -> ((1..MaxIno) \X Names) \cup {Nothing}]
  /\ made \in [Callers -> 0..MaxIno]
  /\ detached \subseteq 1..MaxIno

(* Every entry leads to an inode, whatever was renamed over, freed or      *)
(* raced for: the unwrap() of a child found under the same lock, in        *)
(* readdir_plus, create_file (an existing file), unlink and rename, cannot *)
(* panic.  (The one under the third lock of create_file can: the inode it  *)
(* made may be gone.)  A file's link count is the number of its entries,   *)
(* so it is freed exactly with its last name - save for a file that lost   *)
(* an entry to a failed rename or a race of two creators, which is counted *)
(* too high and never freed.                                               *)
LinksCounted ==
  /\ \A d \in Dirs : \A n \in DOMAIN node[d].kids : Child(d, n) \in Live
  /\ \A i \in Live \ Dirs :
       IF i \in detached THEN node[i].nlink >= Links(i)
       ELSE node[i].nlink = Links(i)

(* Every inode can be reached from the root, or from one that lost its     *)
(* entry to a failed rename, a rename over or below it, or a race of two   *)
(* creators: nothing else leaks.                                           *)
NothingLeaks == Live \subseteq Below({Root} \cup detached)
=============================================================================
