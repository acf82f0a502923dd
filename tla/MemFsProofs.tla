---------------------------- MODULE MemFsProofs ----------------------------
(***************************************************************************)
(* Proofs about MemFs, for every number of inodes, names, links and        *)
(* callers: the table keeps its types, the link counts are right and       *)
(* nothing leaks.                                                          *)
(*                                                                         *)
(* What is proved is that Sound holds of the table: entries lead to live   *)
(* inodes and never to the root; a directory has at most one entry, and so *)
(* has a keep file, in its directory; and a leaf has as many links as      *)
(* entries, or more if it is detached.  The entries are nested in the      *)
(* inodes, so the proofs go by To, the set of entries that lead to an      *)
(* inode: the lemmas on PutEntry, CutEntry, Without, With and Unlinked say *)
(* what each of them does to that set, those on Fine what this leaves of   *)
(* the claim about one inode, and an action is put together from both.     *)
(*                                                                         *)
(* That nothing leaks is proved without following paths, which a rename    *)
(* changes far below it: Whole says that a set of inodes which no entry    *)
(* leads out of, and which holds the root and what is detached, holds all  *)
(* of them.  An action is taken to detach all it takes entries from; the   *)
(* inode that was moved then has an entry again that does not come from    *)
(* below itself, and a leaf that was renamed over has one left or is gone. *)
(*                                                                         *)
(* Inv is inductive because a directory that is freed while it has entries *)
(* - rename looks at its link count only, which rmdir below it lowers and  *)
(* a rename into it does not raise - has exactly the one entry that the    *)
(* rename is about to replace, and because its own entries count as lost.  *)
(***************************************************************************)
EXTENDS MemFs, FiniteSetTheorems, WellFoundedInduction, TLAPS

AllNames == Names \cup {Keep}
Kinds == {"dir", "file", "symlink"}
KidTables == UNION {[S -> Nat] : S \in SUBSET AllNames}

(* The entries of a table that lead to x. *)
To(nodes, x) == {k \in (DOMAIN nodes) \X AllNames :
                   k[2] \in DOMAIN nodes[k[1]].kids /\ nodes[k[1]].kids[k[2]] = x}

(* What an inode may look like when next is the next number. *)
Good(r, next) ==
  /\ r \in [kind: Kinds, nlink: Nat, kids: KidTables]
  /\ r.kind = "dir" => r.nlink <= next
  /\ r.kind # "dir" => r.nlink \in 1..MaxLinks /\ r.kids = <<>>

Typed(nodes, next) ==
  /\ next \in Nat /\ next >= 2
  /\ DOMAIN nodes \subseteq 1..(next - 1)
  /\ \A i \in DOMAIN nodes : Good(nodes[i], next)

(* What holds of inode x, of this kind and link count, to which the        *)
(* entries T lead. *)
Fine(kind, nlink, T, lost, x) ==
  /\ IsFiniteSet(T)
  /\ \A k \in T : kind = "dir" \/ k[2] = Keep => T = {k}
  /\ \A k \in T : k[2] = Keep => kind # "dir"
  /\ kind # "dir" => IF x \in lost THEN nlink >= Cardinality(T)
                     ELSE nlink = Cardinality(T)

(* Entries lead to inodes but the root. *)
Closed(nodes) == \A d \in DOMAIN nodes : Kids(nodes, d) \subseteq DOMAIN nodes \ {Root}

Sound(nodes, lost) ==
  /\ Root \in DOMAIN nodes /\ nodes[Root].kind = "dir"
  /\ Closed(nodes)
  /\ \A x \in DOMAIN nodes :
       Fine(nodes[x].kind, nodes[x].nlink, To(nodes, x), lost, x)

(* Sets of inodes that entries do not lead out of; such a set that holds   *)
(* the root and what is lost holds every inode.                            *)
Shut(nodes, S) ==
  \A x \in DOMAIN nodes : \A k \in To(nodes, x) : k[1] \in S => x \in S

Whole(nodes, lost) ==
  \A S \in SUBSET DOMAIN nodes :
    Root \in S /\ lost \cap DOMAIN nodes \subseteq S /\ Shut(nodes, S) => S = DOMAIN nodes

Pending(nodes, next) ==
  \A c \in Callers : creating[c] # Nothing =>
    /\ creating[c] \in (1..(next - 1)) \X Names
    /\ creating[c][1] \in DOMAIN nodes => nodes[creating[c][1]].kind = "dir"

Inv ==
  /\ Typed(node, nextIno) /\ nextIno <= MaxIno + 1
  /\ Sound(node, detached) /\ Whole(node, detached)
  /\ Pending(node, nextIno)
  /\ creating \in [Callers -> (Nat \X Names) \cup {Nothing}]
  /\ made \in [Callers -> 0..MaxIno]
  /\ detached \subseteq 1..(nextIno - 1)
-----------------------------------------------------------------------------
(* The tables of entries. *)
LEMMA KidTableIs ==
  ASSUME NEW f \in KidTables
  PROVE  /\ f = [y \in DOMAIN f |-> f[y]]
         /\ DOMAIN f \subseteq AllNames
         /\ \A y \in DOMAIN f : f[y] \in Nat
<1>1. PICK S \in SUBSET AllNames : f \in [S -> Nat]
  BY DEF KidTables
<1>2. QED
  BY <1>1

LEMMA KidTable ==
  ASSUME NEW S \in SUBSET AllNames, NEW f, f \in [S -> Nat]
  PROVE  f \in KidTables
BY DEF KidTables

LEMMA NoKids == <<>> \in KidTables /\ DOMAIN <<>> = {}
<1>1. DOMAIN <<>> = {}
  OBVIOUS
<1>2. <<>> \in [{} -> Nat]
  OBVIOUS
<1>3. QED
  BY <1>1, <1>2, KidTable

LEMMA KidsWith ==
  ASSUME NEW f \in KidTables, NEW n \in AllNames, NEW i \in Nat
  PROVE  With(f, n, i) \in KidTables
<1>1. /\ DOMAIN f \cup {n} \in SUBSET AllNames
      /\ \A y \in DOMAIN f : f[y] \in Nat
  BY KidTableIs
<1>2. With(f, n, i) \in [DOMAIN f \cup {n} -> Nat]
  BY <1>1 DEF With
<1>3. QED
  BY <1>1, <1>2, KidTable

LEMMA KidsWithout ==
  ASSUME NEW f \in KidTables, NEW S
  PROVE  Without(f, S) \in KidTables
<1>1. /\ DOMAIN f \ S \in SUBSET AllNames
      /\ \A y \in DOMAIN f : f[y] \in Nat
  BY KidTableIs
<1>2. Without(f, S) \in [DOMAIN f \ S -> Nat]
  BY <1>1 DEF Without
<1>3. QED
  BY <1>1, <1>2, KidTable
-----------------------------------------------------------------------------
(* What each change of the table of inodes does to the types, the kinds,   *)
(* the link counts and the entries that lead to an inode. *)
Alike(nodes, new) ==
  /\ DOMAIN new = DOMAIN nodes
  /\ \A j \in DOMAIN nodes : new[j].kind = nodes[j].kind /\ new[j].nlink = nodes[j].nlink

LEMMA PutIs ==
  ASSUME NEW nodes, NEW next, Typed(nodes, next),
         NEW d \in DOMAIN nodes, nodes[d].kind = "dir",
         NEW n \in AllNames, NEW i \in Nat
  PROVE  /\ Typed(PutEntry(nodes, d, n, i), next)
         /\ Alike(nodes, PutEntry(nodes, d, n, i))
         /\ \A x : To(PutEntry(nodes, d, n, i), x) =
                     IF x = i THEN To(nodes, x) \cup {<<d, n>>}
                     ELSE To(nodes, x) \ {<<d, n>>}
<1> DEFINE new == PutEntry(nodes, d, n, i)
           kids == With(nodes[d].kids, n, i)
<1>1. Good(nodes[d], next) /\ nodes[d].kids \in KidTables
  BY DEF Typed, Good
<1>2. kids \in KidTables
  BY <1>1, KidsWith
<1>3. /\ DOMAIN kids = DOMAIN nodes[d].kids \cup {n} /\ kids[n] = i
      /\ \A y \in DOMAIN nodes[d].kids : y # n => kids[y] = nodes[d].kids[y]
  BY DEF With
<1>4. new = [nodes EXCEPT ![d].kids = kids]
  BY DEF PutEntry
<1> HIDE DEF kids
<1>5. /\ new[d].kids = kids /\ new[d].kind = "dir" /\ new[d].nlink = nodes[d].nlink
      /\ new[d] \in [kind: Kinds, nlink: Nat, kids: KidTables]
  BY <1>1, <1>2, <1>4 DEF Good
<1>6. DOMAIN new = DOMAIN nodes /\ \A j \in DOMAIN nodes : j # d => new[j] = nodes[j]
  BY <1>4
<1> HIDE DEF new
<1>7. Typed(new, next)
  <2>1. Good(new[d], next)
    BY <1>1, <1>5 DEF Good
  <2>2. QED
    BY <2>1, <1>6 DEF Typed
<1>8. Alike(nodes, new)
  BY <1>5, <1>6 DEF Alike
<1>9. ASSUME NEW x
      PROVE  To(new, x) = IF x = i THEN To(nodes, x) \cup {<<d, n>>}
                          ELSE To(nodes, x) \ {<<d, n>>}
  <2>1. \A j \in DOMAIN nodes, y \in AllNames :
          <<j, y>> \in To(new, x) <=>
            IF j = d /\ y = n THEN x = i ELSE <<j, y>> \in To(nodes, x)
    BY <1>3, <1>5, <1>6 DEF To
  <2>2. /\ To(new, x) \subseteq (DOMAIN nodes) \X AllNames
        /\ To(nodes, x) \subseteq (DOMAIN nodes) \X AllNames
        /\ <<d, n>> \in (DOMAIN nodes) \X AllNames
    BY <1>6 DEF To
  <2>3. QED
    BY <2>1, <2>2
<1>10. QED
  BY <1>7, <1>8, <1>9 DEF new

LEMMA CutIs ==
  ASSUME NEW nodes, NEW next, Typed(nodes, next),
         NEW d \in DOMAIN nodes, nodes[d].kind = "dir", NEW n \in AllNames
  PROVE  /\ Typed(CutEntry(nodes, d, n), next)
         /\ Alike(nodes, CutEntry(nodes, d, n))
         /\ \A x : To(CutEntry(nodes, d, n), x) = To(nodes, x) \ {<<d, n>>}
<1> DEFINE new == CutEntry(nodes, d, n)
           kids == Without(nodes[d].kids, {n})
<1>1. Good(nodes[d], next) /\ nodes[d].kids \in KidTables
  BY DEF Typed, Good
<1>2. kids \in KidTables
  BY <1>1, KidsWithout
<1>3. /\ DOMAIN kids = DOMAIN nodes[d].kids \ {n}
      /\ \A y \in DOMAIN kids : kids[y] = nodes[d].kids[y]
  BY DEF Without
<1>4. new = [nodes EXCEPT ![d].kids = kids]
  BY DEF CutEntry
<1> HIDE DEF kids
<1>5. /\ new[d].kids = kids /\ new[d].kind = "dir" /\ new[d].nlink = nodes[d].nlink
      /\ new[d] \in [kind: Kinds, nlink: Nat, kids: KidTables]
  BY <1>1, <1>2, <1>4 DEF Good
<1>6. DOMAIN new = DOMAIN nodes /\ \A j \in DOMAIN nodes : j # d => new[j] = nodes[j]
  BY <1>4
<1> HIDE DEF new
<1>7. Typed(new, next)
  <2>1. Good(new[d], next)
    BY <1>1, <1>5 DEF Good
  <2>2. QED
    BY <2>1, <1>6 DEF Typed
<1>8. Alike(nodes, new)
  BY <1>5, <1>6 DEF Alike
<1>9. ASSUME NEW x PROVE To(new, x) = To(nodes, x) \ {<<d, n>>}
  <2>1. \A j \in DOMAIN nodes, y \in AllNames :
          <<j, y>> \in To(new, x) <=> ~ (j = d /\ y = n) /\ <<j, y>> \in To(nodes, x)
    BY <1>3, <1>5, <1>6 DEF To
  <2>2. /\ To(new, x) \subseteq (DOMAIN nodes) \X AllNames
        /\ To(nodes, x) \subseteq (DOMAIN nodes) \X AllNames
    BY <1>6 DEF To
  <2>3. QED
    BY <2>1, <2>2
<1>10. QED
  BY <1>7, <1>8, <1>9 DEF new

LEMMA RemoveIs ==
  ASSUME NEW nodes, NEW next, Typed(nodes, next), NEW S
  PROVE  /\ Typed(Without(nodes, S), next)
         /\ DOMAIN Without(nodes, S) = DOMAIN nodes \ S
         /\ \A j \in DOMAIN nodes \ S : Without(nodes, S)[j] = nodes[j]
         /\ \A x, k : k \in To(Without(nodes, S), x) <=> k \in To(nodes, x) /\ k[1] \notin S
<1> DEFINE new == Without(nodes, S)
<1>1. DOMAIN new = DOMAIN nodes \ S /\ \A j \in DOMAIN nodes \ S : new[j] = nodes[j]
  BY DEF Without
<1> HIDE DEF new
<1>2. Typed(new, next)
  BY <1>1 DEF Typed
<1>3. ASSUME NEW x, NEW k
      PROVE  k \in To(new, x) <=> k \in To(nodes, x) /\ k[1] \notin S
  BY <1>1 DEF To
<1>4. QED
  BY <1>1, <1>2, <1>3 DEF new

Recount(nodes, i, l) == [nodes EXCEPT ![i].nlink = l]

LEMMA RecountIs ==
  ASSUME NEW nodes, NEW next, Typed(nodes, next), NEW i \in DOMAIN nodes, NEW l \in Nat,
         nodes[i].kind = "dir" => l <= next, nodes[i].kind # "dir" => l \in 1..MaxLinks
  PROVE  /\ Typed(Recount(nodes, i, l), next)
         /\ DOMAIN Recount(nodes, i, l) = DOMAIN nodes
         /\ \A j \in DOMAIN nodes :
              /\ Recount(nodes, i, l)[j].kind = nodes[j].kind
              /\ Recount(nodes, i, l)[j].nlink = IF j = i THEN l ELSE nodes[j].nlink
         /\ \A x : To(Recount(nodes, i, l), x) = To(nodes, x)
<1> DEFINE new == Recount(nodes, i, l)
<1>1. Good(nodes[i], next)
  BY DEF Typed
<1>2. /\ new[i].kids = nodes[i].kids /\ new[i].kind = nodes[i].kind /\ new[i].nlink = l
      /\ new[i] \in [kind: Kinds, nlink: Nat, kids: KidTables]
  BY <1>1 DEF Good, Recount
<1>3. DOMAIN new = DOMAIN nodes /\ \A j \in DOMAIN nodes : j # i => new[j] = nodes[j]
  BY DEF Recount
<1> HIDE DEF new
<1>4. Typed(new, next)
  <2>1. Good(new[i], next)
    BY <1>1, <1>2 DEF Good
  <2>2. QED
    BY <2>1, <1>3 DEF Typed
<1>5. \A j \in DOMAIN nodes : new[j].kids = nodes[j].kids
  BY <1>2, <1>3
<1>6. \A x : To(new, x) = To(nodes, x)
  BY <1>3, <1>5 DEF To
<1>7. QED
  BY <1>2, <1>3, <1>4, <1>6 DEF new

LEMMA TypedLater ==
  ASSUME NEW nodes, NEW next, Typed(nodes, next), NEW next2 \in Nat, next2 >= next
  PROVE  Typed(nodes, next2)
<1>1. next \in Nat /\ next >= 2 /\ next2 >= 2 /\ 1..(next - 1) \subseteq 1..(next2 - 1)
  BY DEF Typed
<1>2. \A j \in DOMAIN nodes : Good(nodes[j], next2)
  BY <1>1 DEF Typed, Good
<1>3. QED
  BY <1>1, <1>2 DEF Typed

LEMMA AddTyped ==
  ASSUME NEW nodes, NEW next, Typed(nodes, next), NEW i, i \in 1..(next - 1),
         NEW r, Good(r, next)
  PROVE  Typed(With(nodes, i, r), next)
<1> DEFINE new == With(nodes, i, r)
<1>1. /\ DOMAIN new = DOMAIN nodes \cup {i}
      /\ \A j \in DOMAIN new : new[j] = IF j = i THEN r ELSE nodes[j]
  BY DEF With
<1> HIDE DEF new
<1>2. Typed(new, next)
  BY <1>1 DEF Typed
<1>3. QED
  BY <1>2 DEF new

LEMMA AddTo ==
  ASSUME NEW nodes, NEW i, i \notin DOMAIN nodes, NEW r
  PROVE  \A x, k : k \in To(With(nodes, i, r), x) <=>
                     \/ k \in To(nodes, x)
                     \/ k \in {i} \X AllNames /\ k[2] \in DOMAIN r.kids /\ r.kids[k[2]] = x
BY DEF To, With

LEMMA AddLeafIs ==
  ASSUME NEW nodes, NEW next, Typed(nodes, next),
         NEW i, i = next, NEW kind \in Kinds, kind # "dir"
  PROVE  /\ Typed(With(nodes, i, Leaf(kind)), next + 1)
         /\ DOMAIN With(nodes, i, Leaf(kind)) = DOMAIN nodes \cup {i}
         /\ With(nodes, i, Leaf(kind))[i].kind = kind
         /\ With(nodes, i, Leaf(kind))[i].nlink = 1
         /\ \A j \in DOMAIN nodes : With(nodes, i, Leaf(kind))[j] = nodes[j]
         /\ \A x : To(With(nodes, i, Leaf(kind)), x) = To(nodes, x)
<1> DEFINE leaf == Leaf(kind)
           new == With(nodes, i, leaf)
           next2 == next + 1
<1>1. /\ next2 \in Nat /\ next2 >= next /\ i \in 1..(next2 - 1) /\ i \notin DOMAIN nodes
  BY DEF Typed
<1>2. Typed(nodes, next2)
  BY <1>1, TypedLater
<1>3. /\ Good(leaf, next2) /\ leaf.kind = kind /\ leaf.nlink = 1
      /\ DOMAIN leaf.kids = {}
  BY MemAssumption, NoKids DEF Good, Leaf
<1> HIDE DEF leaf, next2
<1>4. /\ Typed(new, next2)
      /\ DOMAIN new = DOMAIN nodes \cup {i} /\ new[i] = leaf
      /\ \A j \in DOMAIN nodes : new[j] = nodes[j]
  <2>1. Typed(new, next2)
    BY <1>1, <1>2, <1>3, AddTyped
  <2>2. QED
    BY <2>1, <1>1 DEF With
<1>5. \A x, k : k \in To(new, x) <=>
        \/ k \in To(nodes, x)
        \/ k \in {i} \X AllNames /\ k[2] \in DOMAIN leaf.kids /\ leaf.kids[k[2]] = x
  BY <1>1, AddTo
<1> HIDE DEF new
<1>6. ASSUME NEW x PROVE To(new, x) = To(nodes, x)
  <2>1. \A k : k \in To(new, x) <=> k \in To(nodes, x)
    BY <1>3, <1>5
  <2>2. QED
    BY <2>1
<1>7. QED
  BY <1>3, <1>4, <1>6 DEF new, leaf, next2

(* One link fewer, of an inode that is a leaf or of a directory. *)
LEMMA UnlinkedIs ==
  ASSUME NEW nodes, NEW next, Typed(nodes, next), NEW i \in DOMAIN nodes
  PROVE  /\ Typed(Unlinked(nodes, i), next)
         /\ DOMAIN Unlinked(nodes, i) =
              IF nodes[i].nlink <= 1 THEN DOMAIN nodes \ {i} ELSE DOMAIN nodes
         /\ \A j \in DOMAIN Unlinked(nodes, i) :
              /\ Unlinked(nodes, i)[j].kind = nodes[j].kind
              /\ Unlinked(nodes, i)[j].nlink =
                   IF j = i THEN nodes[i].nlink - 1 ELSE nodes[j].nlink
         /\ \A x, k : k \in To(Unlinked(nodes, i), x) <=>
                        k \in To(nodes, x) /\ (nodes[i].nlink <= 1 => k[1] # i)
<1> DEFINE new == Unlinked(nodes, i)
<1>1. Good(nodes[i], next) /\ nodes[i].nlink \in Nat /\ next \in Nat /\ MaxLinks \in Nat
  BY MemAssumption DEF Typed, Good
<1>2. CASE nodes[i].nlink <= 1
  <2>1. new = Without(nodes, {i})
    BY <1>2 DEF Unlinked
  <2> HIDE DEF new
  <2>2. /\ Typed(new, next)
        /\ DOMAIN new = DOMAIN nodes \ {i}
        /\ \A j \in DOMAIN nodes \ {i} : new[j] = nodes[j]
    BY <2>1, RemoveIs
  <2>3. \A x, k : k \in To(new, x) <=> k \in To(nodes, x) /\ k[1] \notin {i}
    BY <2>1, RemoveIs
  <2>4. \A x, k : k \in To(new, x) <=> k \in To(nodes, x) /\ k[1] # i
    BY <2>3
  <2>5. QED
    BY <1>2, <2>2, <2>4 DEF new
<1>3. CASE ~ nodes[i].nlink <= 1
  <2> DEFINE l == nodes[i].nlink - 1
  <2>1. /\ l \in Nat
        /\ nodes[i].kind = "dir" => l <= next
        /\ nodes[i].kind # "dir" => l \in 1..MaxLinks
    BY <1>1, <1>3 DEF Good
  <2>2. new = Recount(nodes, i, l)
    BY <1>3 DEF Unlinked, Recount
  <2> HIDE DEF l, new
  <2>3. /\ Typed(new, next)
        /\ DOMAIN new = DOMAIN nodes
        /\ \A j \in DOMAIN nodes :
              /\ new[j].kind = nodes[j].kind
              /\ new[j].nlink = IF j = i THEN l ELSE nodes[j].nlink
        /\ \A x : To(new, x) = To(nodes, x)
    BY <2>1, <2>2, RecountIs
  <2>4. QED
    BY <1>3, <2>3 DEF l, new
<1>4. QED
  BY <1>2, <1>3

LEMMA ClosedIs ==
  ASSUME NEW nodes, NEW next, Typed(nodes, next)
  PROVE  Closed(nodes) <=> \A x : To(nodes, x) # {} => x \in DOMAIN nodes \ {Root}
<1>1. \A d \in DOMAIN nodes : DOMAIN nodes[d].kids \subseteq AllNames
  BY KidTableIs DEF Typed, Good
<1>2. ASSUME Closed(nodes), NEW x, To(nodes, x) # {} PROVE x \in DOMAIN nodes \ {Root}
  BY <1>2 DEF Closed, To, Kids
<1>3. ASSUME \A x : To(nodes, x) # {} => x \in DOMAIN nodes \ {Root}
      PROVE  Closed(nodes)
  <2>1. SUFFICES ASSUME NEW d \in DOMAIN nodes, NEW n \in DOMAIN nodes[d].kids
                 PROVE  nodes[d].kids[n] \in DOMAIN nodes \ {Root}
    BY DEF Closed, Kids
  <2>2. <<d, n>> \in To(nodes, nodes[d].kids[n])
    BY <1>1 DEF To
  <2>3. QED
    BY <1>3, <2>2
<1>4. QED
  BY <1>2, <1>3
-----------------------------------------------------------------------------
(* What a change of its entries and its link count leaves of Fine.  Fewer  *)
(* entries, with no link fewer: *)
LEMMA FineFewer ==
  ASSUME NEW kind, NEW l \in Nat, NEW T, NEW lost, NEW x, Fine(kind, l, T, lost, x),
         NEW l2, NEW T2 \in SUBSET T, NEW lost2, x \in lost => x \in lost2,
         kind = "dir" \/ (l2 = l /\ (T2 = T \/ x \in lost2))
  PROVE  Fine(kind, l2, T2, lost2, x)
<1>1. IsFiniteSet(T) /\ Cardinality(T) \in Nat
  BY FS_CardinalityType DEF Fine
<1>2. /\ IsFiniteSet(T2) /\ Cardinality(T2) \in Nat
      /\ Cardinality(T2) <= Cardinality(T)
  BY <1>1, FS_Subset, FS_CardinalityType
<1>3. \A k \in T2 : kind = "dir" \/ k[2] = Keep => T2 = {k}
  BY DEF Fine
<1>4. \A k \in T2 : k[2] = Keep => kind # "dir"
  BY DEF Fine
<1>5. kind # "dir" => IF x \in lost2 THEN l2 >= Cardinality(T2)
                      ELSE l2 = Cardinality(T2)
  <2>1. CASE kind # "dir"
    <3>1. l >= Cardinality(T) /\ (x \notin lost => l = Cardinality(T))
      BY <1>1, <2>1 DEF Fine
    <3>2. QED
      BY <1>1, <1>2, <3>1
  <2>2. QED
    BY <2>1
<1>6. QED
  BY <1>2, <1>3, <1>4, <1>5 DEF Fine

(* One link and one entry more: *)
LEMMA FineMore ==
  ASSUME NEW kind, kind # "dir", NEW l \in Nat, NEW T, NEW lost, NEW x,
         Fine(kind, l, T, lost, x),
         NEW k, k \notin T, k[2] # Keep, \A t \in T : t[2] # Keep
  PROVE  Fine(kind, l + 1, T \cup {k}, lost, x)
<1>1. IsFiniteSet(T) /\ Cardinality(T) \in Nat
  BY FS_CardinalityType DEF Fine
<1>2. IsFiniteSet(T \cup {k}) /\ Cardinality(T \cup {k}) = Cardinality(T) + 1
  BY <1>1, FS_AddElement
<1>3. \A t \in T \cup {k} : t[2] # Keep
  OBVIOUS
<1>4. IF x \in lost THEN l >= Cardinality(T) ELSE l = Cardinality(T)
  BY DEF Fine
<1>5. IF x \in lost THEN l + 1 >= Cardinality(T \cup {k})
      ELSE l + 1 = Cardinality(T \cup {k})
  BY <1>1, <1>2, <1>4
<1>6. QED
  BY <1>2, <1>3, <1>5 DEF Fine

(* One link and one entry fewer: *)
LEMMA FineLess ==
  ASSUME NEW kind, kind # "dir", NEW l \in Nat, NEW T, NEW lost, NEW x,
         Fine(kind, l, T, lost, x), NEW k \in T
  PROVE  Fine(kind, l - 1, T \ {k}, lost, x)
<1>1. IsFiniteSet(T) /\ Cardinality(T) \in Nat
  BY FS_CardinalityType DEF Fine
<1>2. IsFiniteSet(T \ {k}) /\ Cardinality(T \ {k}) = Cardinality(T) - 1
  BY <1>1, FS_RemoveElement
<1>3. \A t \in T \ {k} : t[2] # Keep
  BY DEF Fine
<1>4. IF x \in lost THEN l >= Cardinality(T) ELSE l = Cardinality(T)
  BY DEF Fine
<1>5. IF x \in lost THEN l - 1 >= Cardinality(T \ {k})
      ELSE l - 1 = Cardinality(T \ {k})
  BY <1>1, <1>2, <1>4
<1>6. QED
  BY <1>2, <1>3, <1>5 DEF Fine

(* An entry moved: *)
LEMMA FineMoved ==
  ASSUME NEW kind, NEW l \in Nat, NEW T, NEW lost, NEW x, Fine(kind, l, T, lost, x),
         NEW k \in T, k[2] # Keep, NEW k2, k2 \notin T \ {k}, k2[2] # Keep,
         NEW R \in SUBSET (T \ {k}),
         NEW lost2, x \in lost => x \in lost2, R = T \ {k} \/ x \in lost2
  PROVE  Fine(kind, l, R \cup {k2}, lost2, x)
<1>1. IsFiniteSet(T) /\ Cardinality(T) \in Nat
  BY FS_CardinalityType DEF Fine
<1>2. IsFiniteSet(T \ {k}) /\ Cardinality(T \ {k}) = Cardinality(T) - 1
  BY <1>1, FS_RemoveElement
<1>3. IsFiniteSet(R) /\ Cardinality(R) \in Nat /\ Cardinality(R) <= Cardinality(T) - 1
  BY <1>2, FS_Subset, FS_CardinalityType
<1>4. k2 \notin R
  OBVIOUS
<1>5. IsFiniteSet(R \cup {k2}) /\ Cardinality(R \cup {k2}) = Cardinality(R) + 1
  BY <1>3, <1>4, FS_AddElement
<1>6. \A t \in T : t[2] # Keep
  BY DEF Fine
<1>7. \A t \in R \cup {k2} : t[2] # Keep
  BY <1>6
<1>8. kind = "dir" => R \cup {k2} = {k2}
  <2>1. kind = "dir" => T = {k}
    BY DEF Fine
  <2>2. QED
    BY <2>1
<1>9. kind # "dir" => IF x \in lost2 THEN l >= Cardinality(R \cup {k2})
                      ELSE l = Cardinality(R \cup {k2})
  <2>1. CASE kind # "dir"
    <3>1. IF x \in lost THEN l >= Cardinality(T) ELSE l = Cardinality(T)
      BY <2>1 DEF Fine
    <3>2. R = T \ {k} => Cardinality(R \cup {k2}) = Cardinality(T)
      BY <1>1, <1>2, <1>5
    <3>3. Cardinality(R \cup {k2}) <= Cardinality(T)
      BY <1>1, <1>3, <1>5
    <3>4. QED
      BY <1>1, <1>3, <1>5, <3>1, <3>2, <3>3
  <2>2. QED
    BY <2>1
<1>10. QED
  BY <1>5, <1>7, <1>8, <1>9 DEF Fine

(* A new inode, with its entry or without one: *)
LEMMA FineNew ==
  ASSUME NEW kind, NEW k, kind = "dir" => k[2] # Keep, NEW l, NEW lost, NEW x,
         kind # "dir" => l = 1
  PROVE  /\ Fine(kind, l, {k}, lost, x)
         /\ x \in lost => Fine(kind, l, {}, lost, x)
<1>1. IsFiniteSet({k}) /\ Cardinality({k}) = 1
  BY FS_Singleton
<1>2. IsFiniteSet({}) /\ Cardinality({}) = 0
  BY FS_EmptySet
<1>3. QED
  BY <1>1, <1>2 DEF Fine

(* The last link of a leaf is its last entry: *)
LEMMA FineLast ==
  ASSUME NEW kind, kind # "dir", NEW l \in Nat, l <= 1, NEW T, NEW lost, NEW x,
         Fine(kind, l, T, lost, x), NEW k \in T
  PROVE  T = {k}
<1>1. IsFiniteSet(T) /\ Cardinality(T) \in Nat
  BY FS_CardinalityType DEF Fine
<1>2. IsFiniteSet(T \ {k}) /\ Cardinality(T \ {k}) = Cardinality(T) - 1
  BY <1>1, FS_RemoveElement
<1>3. Cardinality(T \ {k}) \in Nat
  BY <1>2, FS_CardinalityType
<1>4. l >= Cardinality(T)
  BY <1>1 DEF Fine
<1>5. Cardinality(T \ {k}) = 0
  BY <1>1, <1>2, <1>3, <1>4
<1>6. T \ {k} = {}
  BY <1>2, <1>5, FS_EmptySet
<1>7. QED
  BY <1>6
-----------------------------------------------------------------------------
(* Sound in terms of the entries that lead to each inode. *)
LEMMA SoundIs ==
  ASSUME NEW nodes, NEW next, Typed(nodes, next), NEW lost
  PROVE  Sound(nodes, lost) <=>
           /\ Root \in DOMAIN nodes /\ nodes[Root].kind = "dir"
           /\ \A x : To(nodes, x) # {} => x \in DOMAIN nodes \ {Root}
           /\ \A x \in DOMAIN nodes :
                Fine(nodes[x].kind, nodes[x].nlink, To(nodes, x), lost, x)
<1>1. Closed(nodes) <=> \A x : To(nodes, x) # {} => x \in DOMAIN nodes \ {Root}
  BY ClosedIs
<1>2. QED
  BY <1>1 DEF Sound

(* An entry leads to one inode, and out of a directory. *)
LEMMA EntryIs ==
  ASSUME NEW nodes, NEW next, Typed(nodes, next), NEW lost, Sound(nodes, lost),
         NEW d \in DOMAIN nodes, NEW n \in DOMAIN nodes[d].kids
  PROVE  /\ nodes[d].kind = "dir" /\ n \in AllNames
         /\ nodes[d].kids[n] \in DOMAIN nodes \ {Root}
         /\ <<d, n>> \in To(nodes, nodes[d].kids[n])
<1>1. Good(nodes[d], next) /\ DOMAIN nodes[d].kids \subseteq AllNames
  BY KidTableIs DEF Typed, Good
<1>2. nodes[d].kind = "dir"
  BY <1>1, NoKids DEF Good
<1>3. <<d, n>> \in To(nodes, nodes[d].kids[n])
  BY <1>1 DEF To
<1>4. nodes[d].kids[n] \in DOMAIN nodes \ {Root}
  BY DEF Sound, Closed, Kids
<1>5. QED
  BY <1>1, <1>2, <1>3, <1>4

LEMMA OneTarget ==
  ASSUME NEW nodes, NEW x, NEW y, NEW k \in To(nodes, x), k \in To(nodes, y)
  PROVE  x = y
BY DEF To

LEMMA LeafHasNone ==
  ASSUME NEW nodes, NEW next, Typed(nodes, next), NEW x, NEW k \in To(nodes, x)
  PROVE  k[1] \in DOMAIN nodes /\ nodes[k[1]].kind = "dir"
<1>1. /\ k[1] \in DOMAIN nodes /\ k[2] \in DOMAIN nodes[k[1]].kids
  BY DEF To
<1>2. QED
  BY <1>1, NoKids DEF Typed, Good

LEMMA LeafUnlinked ==
  ASSUME NEW nodes, NEW next, Typed(nodes, next),
         NEW i \in DOMAIN nodes, nodes[i].kind # "dir"
  PROVE  \A x : To(Unlinked(nodes, i), x) = To(nodes, x)
<1> DEFINE new == Unlinked(nodes, i)
<1>1. \A x, k : k \in To(new, x) <=>
                   k \in To(nodes, x) /\ (nodes[i].nlink <= 1 => k[1] # i)
  BY UnlinkedIs
<1> HIDE DEF new
<1>2. ASSUME NEW x PROVE To(new, x) = To(nodes, x)
  <2>1. \A k \in To(nodes, x) : k[1] # i
    BY LeafHasNone
  <2>2. QED
    BY <1>1, <2>1
<1>3. QED
  BY <1>2 DEF new

LEMMA NodeIs ==
  ASSUME NEW nodes, NEW next, Typed(nodes, next), NEW x \in DOMAIN nodes
  PROVE  /\ nodes[x].nlink \in Nat /\ nodes[x].kind \in Kinds
         /\ x \in 1..(next - 1) /\ x \in Nat /\ x < next
         /\ next \in Nat
BY DEF Typed, Good

(* Inodes keep their kind, and numbers are not handed out twice. *)
Aged(nodes, next, new) ==
  \A j \in DOMAIN new : j < next => j \in DOMAIN nodes /\ new[j].kind = nodes[j].kind
-----------------------------------------------------------------------------
(* A change that counts every inode as lost of which it drops an entry, or *)
(* which it makes without one: *)
LEMMA WholeKept ==
  ASSUME NEW nodes, NEW lost, Whole(nodes, lost), Root \in DOMAIN nodes,
         NEW new, Root \in DOMAIN new, NEW lost2, lost \subseteq lost2,
         \A x \in DOMAIN nodes \cap DOMAIN new :
           x \in lost2 \/ To(nodes, x) \subseteq To(new, x),
         \A x \in DOMAIN new \ DOMAIN nodes :
           x \in lost2 \/ \E k \in To(new, x) :
             k[1] \in DOMAIN nodes \/ \E t \in To(new, k[1]) : t[1] \in DOMAIN nodes
  PROVE  Whole(new, lost2)
<1> SUFFICES ASSUME NEW S \in SUBSET DOMAIN new, Root \in S,
                    lost2 \cap DOMAIN new \subseteq S, Shut(new, S)
             PROVE  S = DOMAIN new
  BY DEF Whole
<1> DEFINE T == (S \cap DOMAIN nodes) \cup (DOMAIN nodes \ DOMAIN new)
<1>1. \A x : \A k \in To(new, x) : k[1] \in DOMAIN new
  BY DEF To
<1>2. Shut(nodes, T)
  <2> SUFFICES ASSUME NEW x \in DOMAIN nodes, NEW k \in To(nodes, x), k[1] \in T
               PROVE  x \in T
    BY DEF Shut
  <2>1. CASE x \in DOMAIN new /\ x \notin lost2
    <3>1. k \in To(new, x)
      BY <2>1
    <3>2. k[1] \in S
      BY <3>1, <1>1
    <3>3. QED
      BY <3>1, <3>2, <2>1 DEF Shut
  <2>2. CASE x \notin DOMAIN new \/ x \in lost2
    BY <2>2
  <2>3. QED
    BY <2>1, <2>2
<1>3. T = DOMAIN nodes
  <2>1. Root \in T /\ T \in SUBSET DOMAIN nodes
    OBVIOUS
  <2>2. lost \cap DOMAIN nodes \subseteq T
    OBVIOUS
  <2> HIDE DEF T
  <2>3. QED
    BY <2>1, <2>2, <1>2 DEF Whole
<1>4. DOMAIN nodes \cap DOMAIN new \subseteq S
  BY <1>3
<1>5. ASSUME NEW x \in DOMAIN new \ DOMAIN nodes PROVE x \in S
  <2>1. CASE x \in lost2
    BY <2>1
  <2>2. CASE x \notin lost2
    <3>1. PICK k \in To(new, x) :
            k[1] \in DOMAIN nodes \/ \E t \in To(new, k[1]) : t[1] \in DOMAIN nodes
      BY <2>2
    <3>2. k[1] \in S
      <4>1. CASE k[1] \in DOMAIN nodes
        BY <4>1, <1>1, <1>4
      <4>2. CASE \E t \in To(new, k[1]) : t[1] \in DOMAIN nodes
        <5>1. PICK t \in To(new, k[1]) : t[1] \in DOMAIN nodes
          BY <4>2
        <5>2. t[1] \in S
          BY <5>1, <1>1, <1>4
        <5>3. QED
          BY <5>2, <1>1 DEF Shut
      <4>3. QED
        BY <3>1, <4>1, <4>2
    <3>3. QED
      BY <3>2 DEF Shut
  <2>3. QED
    BY <2>1, <2>2
<1>6. QED
  BY <1>4, <1>5

(* An inode need not count as lost when an entry leads to it from outside  *)
(* of what is below it: *)
LEMMA Regained ==
  ASSUME NEW nodes, NEW lost, NEW x \in DOMAIN nodes, Whole(nodes, lost \cup {x}),
         NEW B, Shut(nodes, B), x \in B, NEW k \in To(nodes, x), k[1] \notin B
  PROVE  Whole(nodes, lost)
<1> SUFFICES ASSUME NEW S \in SUBSET DOMAIN nodes, Root \in S,
                    lost \cap DOMAIN nodes \subseteq S, Shut(nodes, S)
             PROVE  S = DOMAIN nodes
  BY DEF Whole
<1> DEFINE T == S \cup (B \cap DOMAIN nodes)
<1>1. Shut(nodes, T)
  <2> SUFFICES ASSUME NEW y \in DOMAIN nodes, NEW t \in To(nodes, y), t[1] \in T
               PROVE  y \in T
    BY DEF Shut
  <2>1. CASE t[1] \in S
    BY <2>1 DEF Shut
  <2>2. CASE t[1] \in B
    BY <2>2 DEF Shut
  <2>3. QED
    BY <2>1, <2>2
<1>2. T = DOMAIN nodes
  <2>1. Root \in T /\ (lost \cup {x}) \cap DOMAIN nodes \subseteq T
        /\ T \in SUBSET DOMAIN nodes
    OBVIOUS
  <2> HIDE DEF T
  <2>2. QED
    BY <2>1, <1>1 DEF Whole
<1>3. k[1] \in S
  <2>1. k[1] \in DOMAIN nodes
    BY DEF To
  <2>2. QED
    BY <2>1, <1>2
<1>4. (lost \cup {x}) \cap DOMAIN nodes \subseteq S
  BY <1>3 DEF Shut
<1>5. QED
  BY <1>4 DEF Whole

(* A leaf that has not lost an entry has one. *)
LEMMA LinkedLeaf ==
  ASSUME NEW nodes, NEW next, Typed(nodes, next), NEW lost, Sound(nodes, lost),
         NEW x \in DOMAIN nodes, nodes[x].kind # "dir", x \notin lost
  PROVE  To(nodes, x) # {}
<1>1. /\ nodes[x].nlink = Cardinality(To(nodes, x)) /\ MaxLinks \in Nat
      /\ nodes[x].nlink \in 1..MaxLinks
  BY MemAssumption DEF Sound, Fine, Typed, Good
<1>2. Cardinality({}) = 0
  BY FS_EmptySet
<1>3. QED
  BY <1>1, <1>2

(* Nor when it is no inode any more, or a leaf: *)
LEMMA LeafRegained ==
  ASSUME NEW nodes, NEW next, Typed(nodes, next), NEW less, Sound(nodes, less),
         NEW lost, less \subseteq lost, NEW x, Whole(nodes, lost \cup {x}),
         x \in DOMAIN nodes /\ x \notin lost => nodes[x].kind # "dir"
  PROVE  Whole(nodes, lost)
<1>1. CASE x \notin DOMAIN nodes \/ x \in lost
  <2>1. (lost \cup {x}) \cap DOMAIN nodes = lost \cap DOMAIN nodes
    BY <1>1
  <2>2. QED
    BY <2>1 DEF Whole
<1>2. CASE x \in DOMAIN nodes /\ x \notin lost
  <2>1. PICK k : k \in To(nodes, x)
    BY <1>2, LinkedLeaf
  <2>2. ASSUME NEW y, NEW t \in To(nodes, y) PROVE t[1] # x
    BY <1>2, LeafHasNone
  <2>3. Shut(nodes, {x}) /\ k[1] \notin {x}
    BY <2>1, <2>2 DEF Shut
  <2>4. QED
    BY <2>1, <2>3, <1>2, Regained
<1>3. QED
  BY <1>1, <1>2
-----------------------------------------------------------------------------
(* Changes that keep a table sound.  The count of a directory: *)
LEMMA RecountKept ==
  ASSUME NEW nodes, NEW next, Typed(nodes, next), NEW lost, Sound(nodes, lost),
         NEW d \in DOMAIN nodes, nodes[d].kind = "dir", NEW l \in Nat, l <= next
  PROVE  /\ Typed(Recount(nodes, d, l), next)
         /\ Sound(Recount(nodes, d, l), lost)
         /\ DOMAIN Recount(nodes, d, l) = DOMAIN nodes
         /\ \A x \in DOMAIN nodes : Recount(nodes, d, l)[x].kind = nodes[x].kind
<1> DEFINE new == Recount(nodes, d, l)
<1>1. /\ Typed(new, next)
      /\ DOMAIN new = DOMAIN nodes
      /\ \A x \in DOMAIN nodes :
              /\ new[x].kind = nodes[x].kind
              /\ new[x].nlink = IF x = d THEN l ELSE nodes[x].nlink
      /\ \A x : To(new, x) = To(nodes, x)
  BY RecountIs
<1> HIDE DEF new
<1>2. /\ Root \in DOMAIN nodes /\ nodes[Root].kind = "dir"
      /\ \A x : To(nodes, x) # {} => x \in DOMAIN nodes \ {Root}
      /\ \A x \in DOMAIN nodes :
           Fine(nodes[x].kind, nodes[x].nlink, To(nodes, x), lost, x)
  BY SoundIs
<1>3. ASSUME NEW x \in DOMAIN nodes
      PROVE  Fine(new[x].kind, new[x].nlink, To(new, x), lost, x)
  <2>1. CASE x = d
    BY <2>1, <1>1, <1>2 DEF Fine
  <2>2. CASE x # d
    BY <2>2, <1>1, <1>2
  <2>3. QED
    BY <2>1, <2>2
<1>4. Sound(new, lost)
  BY <1>1, <1>2, <1>3, SoundIs
<1>5. QED
  BY <1>1, <1>4 DEF new

(* An entry goes, of a directory or of an inode that counts as lost: *)
LEMMA CutKept ==
  ASSUME NEW nodes, NEW next, Typed(nodes, next), NEW lost, Sound(nodes, lost),
         NEW d \in DOMAIN nodes, nodes[d].kind = "dir", NEW n \in AllNames,
         NEW lost2, lost \subseteq lost2,
         \A x \in DOMAIN nodes : <<d, n>> \in To(nodes, x) =>
                                   nodes[x].kind = "dir" \/ x \in lost2
  PROVE  Sound(CutEntry(nodes, d, n), lost2)
<1> DEFINE new == CutEntry(nodes, d, n)
           k == <<d, n>>
<1>1. /\ Typed(new, next) /\ Alike(nodes, new)
      /\ \A x : To(new, x) = To(nodes, x) \ {k}
  BY CutIs
<1>2. \A x \in DOMAIN nodes : k \in To(nodes, x) => nodes[x].kind = "dir" \/ x \in lost2
  OBVIOUS
<1> HIDE DEF new, k
<1>3. /\ Root \in DOMAIN nodes /\ nodes[Root].kind = "dir"
      /\ \A x : To(nodes, x) # {} => x \in DOMAIN nodes \ {Root}
      /\ \A x \in DOMAIN nodes :
           Fine(nodes[x].kind, nodes[x].nlink, To(nodes, x), lost, x)
  BY SoundIs
<1>4. ASSUME NEW x \in DOMAIN nodes
      PROVE  Fine(new[x].kind, new[x].nlink, To(new, x), lost2, x)
  <2>1. new[x].kind = nodes[x].kind /\ new[x].nlink = nodes[x].nlink
    BY <1>1 DEF Alike
  <2>2. /\ To(new, x) \in SUBSET To(nodes, x)
        /\ nodes[x].kind = "dir" \/ To(new, x) = To(nodes, x) \/ x \in lost2
    BY <1>1, <1>2
  <2>3. QED
    BY <2>1, <2>2, <1>3, FineFewer, NodeIs
<1>5. Sound(new, lost2)
  BY <1>1, <1>3, <1>4, SoundIs DEF Alike
<1>6. QED
  BY <1>5 DEF new

(* Inodes go to which only their own entries lead: *)
LEMMA RemoveKept ==
  ASSUME NEW nodes, NEW next, Typed(nodes, next), NEW lost, Sound(nodes, lost),
         NEW S, Root \notin S, NEW lost2, lost \subseteq lost2,
         \A x \in S : \A k \in To(nodes, x) : k[1] \in S,
         \A x \in DOMAIN nodes \ S : \A k \in To(nodes, x) : k[1] \in S =>
           nodes[x].kind = "dir" \/ x \in lost2
  PROVE  /\ Sound(Without(nodes, S), lost2)
         /\ Aged(nodes, next, Without(nodes, S))
<1> DEFINE new == Without(nodes, S)
<1>1. /\ Typed(new, next)
      /\ DOMAIN new = DOMAIN nodes \ S
      /\ \A x \in DOMAIN nodes \ S : new[x] = nodes[x]
      /\ \A x, k : k \in To(new, x) <=> k \in To(nodes, x) /\ k[1] \notin S
  BY RemoveIs
<1> HIDE DEF new
<1>3. /\ Root \in DOMAIN nodes /\ nodes[Root].kind = "dir"
      /\ \A x : To(nodes, x) # {} => x \in DOMAIN nodes \ {Root}
      /\ \A x \in DOMAIN nodes :
           Fine(nodes[x].kind, nodes[x].nlink, To(nodes, x), lost, x)
  BY SoundIs
<1>4. ASSUME NEW x \in DOMAIN new
      PROVE  Fine(new[x].kind, new[x].nlink, To(new, x), lost2, x)
  <2>1. new[x] = nodes[x] /\ x \in DOMAIN nodes \ S
    BY <1>1
  <2>2. To(new, x) \in SUBSET To(nodes, x)
    BY <1>1
  <2>3. ASSUME nodes[x].kind # "dir", x \notin lost2 PROVE To(new, x) = To(nodes, x)
    <3>1. \A k \in To(nodes, x) : k[1] \notin S
      BY <2>1, <2>3
    <3>2. \A k : k \in To(new, x) <=> k \in To(nodes, x)
      BY <1>1, <3>1
    <3>3. QED
      BY <3>2
  <2>4. QED
    BY <2>1, <2>2, <2>3, <1>3, FineFewer, NodeIs
<1>5. \A x : To(new, x) # {} => x \in DOMAIN new \ {Root}
  BY <1>1, <1>3
<1>6. Sound(new, lost2)
  BY <1>1, <1>3, <1>4, <1>5, SoundIs
<1>7. QED
  BY <1>1, <1>6 DEF new, Aged

(* A new leaf, under a new name or in place of an entry: *)
LEMMA LeafKept ==
  ASSUME NEW nodes, NEW next, Typed(nodes, next), NEW lost, Sound(nodes, lost),
         NEW d \in DOMAIN nodes, nodes[d].kind = "dir", NEW n \in AllNames,
         NEW kind \in Kinds, kind # "dir",
         NEW lost2, lost \subseteq lost2,
         \A x \in DOMAIN nodes : <<d, n>> \in To(nodes, x) => x \in lost2,
         Whole(nodes, lost)
  PROVE  /\ Typed(With(PutEntry(nodes, d, n, next), next, Leaf(kind)), next + 1)
         /\ Whole(With(PutEntry(nodes, d, n, next), next, Leaf(kind)), lost2)
         /\ Sound(With(PutEntry(nodes, d, n, next), next, Leaf(kind)), lost2)
         /\ Aged(nodes, next, With(PutEntry(nodes, d, n, next), next, Leaf(kind)))
<1> DEFINE put == PutEntry(nodes, d, n, next)
           new == With(put, next, Leaf(kind))
           k == <<d, n>>
<1>1. next \in Nat /\ next + 1 \in Nat /\ next + 1 >= next /\ next \in 1..(next + 1 - 1)
      /\ next \notin DOMAIN nodes
  BY DEF Typed
<1>2. /\ Typed(put, next) /\ Alike(nodes, put)
      /\ \A x : To(put, x) = IF x = next THEN To(nodes, x) \cup {k}
                             ELSE To(nodes, x) \ {k}
  BY <1>1, PutIs
<1>3. \A x \in DOMAIN nodes : k \in To(nodes, x) => x \in lost2
  OBVIOUS
<1> HIDE DEF put, k
<1>4. Typed(put, next) /\ DOMAIN put = DOMAIN nodes
  BY <1>2 DEF Alike
<1>5. /\ Typed(new, next + 1)
      /\ DOMAIN new = DOMAIN nodes \cup {next}
      /\ new[next].kind = kind /\ new[next].nlink = 1
      /\ \A x \in DOMAIN nodes : new[x] = put[x]
      /\ \A x : To(new, x) = To(put, x)
  BY <1>4, AddLeafIs
<1> HIDE DEF new
<1>6. \A x : To(new, x) = IF x = next THEN To(nodes, x) \cup {k} ELSE To(nodes, x) \ {k}
  BY <1>2, <1>5
<1>7. \A x \in DOMAIN nodes : new[x].kind = nodes[x].kind /\ new[x].nlink = nodes[x].nlink
  BY <1>2, <1>5 DEF Alike
<1>8. /\ Root \in DOMAIN nodes /\ nodes[Root].kind = "dir"
      /\ \A x : To(nodes, x) # {} => x \in DOMAIN nodes \ {Root}
      /\ \A x \in DOMAIN nodes :
           Fine(nodes[x].kind, nodes[x].nlink, To(nodes, x), lost, x)
  BY SoundIs
<1>9. To(new, next) = {k}
  BY <1>1, <1>6, <1>8
<1>10. ASSUME NEW x \in DOMAIN new
       PROVE  Fine(new[x].kind, new[x].nlink, To(new, x), lost2, x)
  <2>1. CASE x = next
    <3>1. new[x].kind = kind /\ new[x].nlink = 1
      BY <2>1, <1>5
    <3>2. Fine(kind, 1, {k}, lost2, x)
      BY FineNew
    <3>3. QED
      BY <2>1, <3>1, <3>2, <1>9
  <2>2. CASE x # next
    <3>1. x \in DOMAIN nodes /\ To(new, x) = To(nodes, x) \ {k}
      BY <2>2, <1>5, <1>6
    <3>2. /\ To(new, x) \in SUBSET To(nodes, x)
          /\ nodes[x].kind = "dir" \/ To(new, x) = To(nodes, x) \/ x \in lost2
      BY <3>1, <1>3
    <3>3. /\ new[x].kind = nodes[x].kind /\ new[x].nlink = nodes[x].nlink
          /\ Fine(nodes[x].kind, nodes[x].nlink, To(nodes, x), lost, x)
      BY <3>1, <1>7, <1>8
    <3>4. QED
      BY <3>1, <3>2, <3>3, FineFewer, NodeIs
  <2>3. QED
    BY <2>1, <2>2
<1>11. \A x : To(new, x) # {} => x \in DOMAIN new \ {Root}
  BY <1>1, <1>5, <1>6, <1>8
<1>12. Sound(new, lost2)
  BY <1>5, <1>7, <1>8, <1>10, <1>11, SoundIs
<1>13. Aged(nodes, next, new)
  BY <1>1, <1>5, <1>7 DEF Aged
<1>14. Whole(new, lost2)
  <2>1. \A x \in DOMAIN nodes : x \in lost2 \/ To(nodes, x) \subseteq To(new, x)
    BY <1>3, <1>6
  <2>2. k \in To(new, next) /\ k[1] \in DOMAIN nodes
    BY <1>9 DEF k
  <2>3. \A x \in DOMAIN new \ DOMAIN nodes : x = next
    BY <1>5
  <2>4. Root \in DOMAIN nodes /\ Root \in DOMAIN new
    BY <1>5, <1>8
  <2>5. QED
    BY <2>1, <2>2, <2>3, <2>4, WholeKept
<1>15. QED
  BY <1>5, <1>12, <1>13, <1>14 DEF new, put
-----------------------------------------------------------------------------
(* What an action makes of the table. *)
Kept == /\ Typed(node', nextIno')
        /\ Sound(node', detached') /\ Whole(node', detached')
        /\ Aged(node, nextIno, node')
-----------------------------------------------------------------------------
LEMMA UnlinkKept ==
  ASSUME Inv, NEW d \in Dirs, NEW n \in AllNames, Unlink(d, n)
  PROVE  Kept
<1> DEFINE i == Child(d, n)
           k == <<d, n>>
           cut == CutEntry(node, d, n)
           new == Unlinked(cut, i)
<1>1. /\ Typed(node, nextIno) /\ Sound(node, detached) /\ Whole(node, detached)
      /\ d \in DOMAIN node /\ node[d].kind = "dir" /\ n \in DOMAIN node[d].kids
      /\ i \in DOMAIN node /\ node[i].kind # "dir"
      /\ node' = new /\ nextIno' = nextIno /\ detached' = detached
  BY DEF Inv, Unlink, Has, Dirs, Live
<1>2. k \in To(node, i) /\ i # Root
  BY <1>1, EntryIs DEF Child
<1>3. \A x : x # i => k \notin To(node, x)
  BY <1>2, OneTarget
<1> HIDE DEF i, k
<1>4. /\ Typed(cut, nextIno) /\ Alike(node, cut)
      /\ \A x : To(cut, x) = To(node, x) \ {k}
  BY <1>1, CutIs DEF k
<1> HIDE DEF cut
<1>5. i \in DOMAIN cut
  BY <1>1, <1>4 DEF Alike
<1>6. \A x \in DOMAIN cut : cut[x].kind = node[x].kind /\ cut[x].nlink = node[x].nlink
                            /\ x \in DOMAIN node
  BY <1>4 DEF Alike
<1>7. \A x : To(new, x) = To(node, x) \ {k}
  <2>1. \A x : To(new, x) = To(cut, x)
    BY <1>1, <1>4, <1>5, <1>6, LeafUnlinked
  <2>2. QED
    BY <2>1, <1>4
<1>8. /\ Typed(new, nextIno)
      /\ DOMAIN new = IF node[i].nlink <= 1 THEN DOMAIN node \ {i} ELSE DOMAIN node
      /\ \A x \in DOMAIN new :
           /\ new[x].kind = node[x].kind
           /\ new[x].nlink = IF x = i THEN node[i].nlink - 1 ELSE node[x].nlink
  <2>1. /\ Typed(new, nextIno)
        /\ DOMAIN new = IF cut[i].nlink <= 1 THEN DOMAIN cut \ {i} ELSE DOMAIN cut
        /\ \A x \in DOMAIN new :
             /\ new[x].kind = cut[x].kind
             /\ new[x].nlink = IF x = i THEN cut[i].nlink - 1 ELSE cut[x].nlink
    BY <1>4, <1>5, UnlinkedIs
  <2>2. QED
    BY <2>1, <1>4, <1>5, <1>6 DEF Alike
<1> HIDE DEF new
<1>9. /\ Root \in DOMAIN node /\ node[Root].kind = "dir"
      /\ \A x : To(node, x) # {} => x \in DOMAIN node \ {Root}
      /\ \A x \in DOMAIN node :
           Fine(node[x].kind, node[x].nlink, To(node, x), detached, x)
  BY <1>1, SoundIs
<1>10. \A x : To(new, x) # {} => x \in DOMAIN new \ {Root}
  <2>1. ASSUME node[i].nlink <= 1 PROVE To(new, i) = {}
    <3>1. To(node, i) = {k}
      BY <2>1, <1>1, <1>2, <1>9, FineLast, NodeIs
    <3>2. QED
      BY <3>1, <1>7
  <2>2. QED
    BY <2>1, <1>7, <1>8, <1>9
<1>11. ASSUME NEW x \in DOMAIN new
       PROVE  Fine(new[x].kind, new[x].nlink, To(new, x), detached, x)
  <2>1. CASE x = i
    BY <2>1, <1>1, <1>2, <1>7, <1>8, <1>9, <1>11, FineLess, NodeIs
  <2>2. CASE x # i
    <3>1. To(new, x) = To(node, x)
      BY <2>2, <1>3, <1>7
    <3>2. QED
      BY <2>2, <3>1, <1>8, <1>9, <1>11
  <2>3. QED
    BY <2>1, <2>2
<1>12. Root \in DOMAIN new /\ new[Root].kind = "dir"
  BY <1>2, <1>8, <1>9
<1>13. Sound(new, detached)
  BY <1>8, <1>10, <1>11, <1>12, SoundIs
<1>14. Aged(node, nextIno, new)
  BY <1>8 DEF Aged
<1>15. Whole(new, detached)
  <2>1. Whole(new, detached \cup {i})
    <3>1. \A x \in DOMAIN node : x \in detached \cup {i} \/ To(node, x) \subseteq To(new, x)
      BY <1>3, <1>7
    <3>2. DOMAIN new \ DOMAIN node = {}
      BY <1>8
    <3>3. QED
      BY <3>1, <3>2, <1>1, <1>9, <1>12, WholeKept
  <2>2. i \in DOMAIN new => new[i].kind # "dir"
    BY <1>1, <1>8
  <2>3. QED
    BY <2>1, <2>2, <1>8, <1>13, LeafRegained
<1>16. QED
  BY <1>1, <1>8, <1>13, <1>14, <1>15 DEF Kept

LEMMA SymlinkKept ==
  ASSUME Inv, NEW d \in Dirs, NEW n \in Names, Symlink(d, n)
  PROVE  Kept
<1>1. /\ Typed(node, nextIno) /\ Sound(node, detached) /\ Whole(node, detached)
      /\ d \in DOMAIN node /\ node[d].kind = "dir" /\ n \in AllNames
      /\ n \notin DOMAIN node[d].kids
      /\ node' = With(PutEntry(node, d, n, nextIno), nextIno, Leaf("symlink"))
      /\ nextIno' = nextIno + 1 /\ detached' = detached
  BY DEF Inv, Symlink, Has, Dirs, Live, AllNames
<1>2. \A x : <<d, n>> \notin To(node, x)
  BY <1>1 DEF To
<1>3. "symlink" \in Kinds /\ "symlink" # "dir"
  BY DEF Kinds
<1>4. QED
  BY <1>1, <1>2, <1>3, LeafKept DEF Kept

LEMMA CreateInsertKept ==
  ASSUME Inv, NEW c \in Callers, CreateInsert(c)
  PROVE  Kept /\ detached' \subseteq 1..nextIno
<1> DEFINE d == creating[c][1]
           n == creating[c][2]
           put == PutEntry(node, d, n, nextIno)
<1>1. /\ Typed(node, nextIno) /\ Sound(node, detached) /\ Whole(node, detached)
      /\ d \in Nat /\ n \in AllNames
      /\ d \in DOMAIN node => node[d].kind = "dir"
      /\ nextIno' = nextIno + 1 /\ detached \subseteq 1..(nextIno - 1)
  BY DEF Inv, CreateInsert, Pending, AllNames
<1>2. /\ node' = With(IF d \in DOMAIN node THEN put ELSE node, nextIno, Leaf("file"))
      /\ detached' = detached \cup
             (IF d \notin DOMAIN node THEN {nextIno}
              ELSE IF Has(d, n) THEN {Child(d, n)} ELSE {})
  BY DEF CreateInsert, Live
<1>3. "file" \in Kinds /\ "file" # "dir" /\ nextIno \in Nat /\ nextIno >= 2
  BY <1>1 DEF Kinds, Typed
<1> HIDE DEF d, n, put
<1>4. CASE d \in DOMAIN node
  <2>1. node' = With(put, nextIno, Leaf("file"))
    BY <1>2, <1>4
  <2>2. \A x \in DOMAIN node : <<d, n>> \in To(node, x) => x \in detached'
    BY <1>1, <1>2, <1>4 DEF To, Has, Child, Dirs, Live
  <2>3. detached \subseteq detached' /\ node[d].kind = "dir"
    BY <1>1, <1>2, <1>4
  <2>4. Kept
    BY <1>1, <1>3, <1>4, <2>1, <2>2, <2>3, LeafKept DEF Kept, put
  <2>5. Has(d, n) => Child(d, n) \in 1..(nextIno - 1)
    <3>1. Has(d, n) => Child(d, n) \in DOMAIN node
      BY <1>1, <1>4, EntryIs DEF Has, Child
    <3>2. QED
      BY <1>1, <3>1 DEF Typed
  <2>6. detached' \subseteq 1..nextIno
    <3>1. 1..(nextIno - 1) \subseteq 1..nextIno
      BY <1>3
    <3>2. detached' = detached \cup (IF Has(d, n) THEN {Child(d, n)} ELSE {})
      BY <1>2, <1>4
    <3>3. detached' \subseteq 1..(nextIno - 1)
      BY <1>1, <2>5, <3>2
    <3>4. QED
      BY <3>1, <3>3
  <2>7. QED
    BY <2>4, <2>6
<1>5. CASE d \notin DOMAIN node
  <2> DEFINE new == With(node, nextIno, Leaf("file"))
  <2>1. node' = new /\ detached' = detached \cup {nextIno}
    BY <1>2, <1>5
  <2>2. /\ Typed(new, nextIno + 1)
        /\ DOMAIN new = DOMAIN node \cup {nextIno}
        /\ new[nextIno].kind = "file" /\ new[nextIno].nlink = 1
        /\ \A j \in DOMAIN node : new[j] = node[j]
        /\ \A x : To(new, x) = To(node, x)
    BY <1>1, <1>3, AddLeafIs
  <2> HIDE DEF new
  <2>3. /\ Root \in DOMAIN node /\ node[Root].kind = "dir"
        /\ \A x : To(node, x) # {} => x \in DOMAIN node \ {Root}
        /\ \A x \in DOMAIN node :
             Fine(node[x].kind, node[x].nlink, To(node, x), detached, x)
    BY <1>1, SoundIs
  <2>4. nextIno \notin DOMAIN node
    BY <1>1, <1>3 DEF Typed
  <2>5. ASSUME NEW x \in DOMAIN new
        PROVE  Fine(new[x].kind, new[x].nlink, To(new, x), detached', x)
    <3>1. CASE x = nextIno
      <4>1. To(new, x) = {}
        BY <3>1, <2>2, <2>3, <2>4
      <4>2. Fine("file", 1, {}, detached', x)
        <5>1. x \in detached'
          BY <3>1, <2>1
        <5>2. QED
          BY <5>1, FineNew
      <4>3. QED
        BY <3>1, <4>1, <4>2, <2>2
    <3>2. CASE x # nextIno
      <4>1. x \in DOMAIN node /\ new[x] = node[x] /\ To(new, x) = To(node, x)
        BY <3>2, <2>2, <2>5
      <4>2. x \in detached => x \in detached'
        BY <2>1
      <4>3. Fine(node[x].kind, node[x].nlink, To(node, x), detached, x)
        BY <4>1, <2>3
      <4>4. Fine(node[x].kind, node[x].nlink, To(node, x), detached', x)
        <5>1. To(node, x) \in SUBSET To(node, x)
          OBVIOUS
        <5>2. QED
          BY <4>1, <4>2, <4>3, <5>1, <1>1, FineFewer, NodeIs
      <4>5. QED
        BY <4>1, <4>4
    <3>3. QED
      BY <3>1, <3>2
  <2>6. Sound(new, detached')
    BY <2>2, <2>3, <2>5, SoundIs
  <2>7. Aged(node, nextIno, new)
    BY <1>3, <2>2 DEF Aged
  <2>8. detached' \subseteq 1..nextIno
    BY <1>1, <1>3, <2>1
  <2>9. Whole(new, detached')
    <3>1. \A x \in DOMAIN node : To(node, x) \subseteq To(new, x)
      BY <2>2
    <3>2. \A x \in DOMAIN new \ DOMAIN node : x \in detached'
      BY <2>1, <2>2
    <3>3. detached \subseteq detached' /\ Root \in DOMAIN new
      BY <2>1, <2>2, <2>3
    <3>4. QED
      BY <3>1, <3>2, <3>3, <1>1, <2>3, WholeKept
  <2>10. QED
    BY <1>1, <2>1, <2>2, <2>6, <2>7, <2>8, <2>9 DEF Kept
<1>6. QED
  BY <1>4, <1>5

LEMMA LinkKept ==
  ASSUME Inv, NEW i \in Live, NEW d \in Dirs, NEW n \in Names, Link(i, d, n)
  PROVE  Kept
<1> DEFINE l == node[i].nlink + 1
           more == Recount(node, i, l)
           new == PutEntry(more, d, n, i)
           k == <<d, n>>
<1>1. /\ Typed(node, nextIno) /\ Sound(node, detached) /\ Whole(node, detached)
      /\ d \in DOMAIN node /\ node[d].kind = "dir" /\ n \in AllNames /\ n # Keep
      /\ n \notin DOMAIN node[d].kids
      /\ i \in DOMAIN node /\ node[i].kind # "dir" /\ i \notin KeepFiles
      /\ node[i].nlink < MaxLinks
      /\ nextIno' = nextIno /\ detached' = detached
  BY MemAssumption DEF Inv, Link, Has, Dirs, Live, AllNames
<1>2. node' = new
  BY DEF Link, Recount
<1>3. k[2] # Keep /\ \A x : k \notin To(node, x)
  BY <1>1 DEF To
<1>4. node[i].nlink \in Nat /\ l \in Nat /\ l \in 1..MaxLinks /\ i \in Nat
  BY <1>1, MemAssumption, NodeIs
<1> HIDE DEF l, k
<1>5. /\ Typed(more, nextIno)
      /\ DOMAIN more = DOMAIN node
      /\ \A x \in DOMAIN node :
           /\ more[x].kind = node[x].kind
           /\ more[x].nlink = IF x = i THEN l ELSE node[x].nlink
      /\ \A x : To(more, x) = To(node, x)
  BY <1>1, <1>4, RecountIs
<1> HIDE DEF more
<1>6. /\ Typed(new, nextIno) /\ Alike(more, new)
      /\ \A x : To(new, x) = IF x = i THEN To(more, x) \cup {k} ELSE To(more, x) \ {k}
  BY <1>1, <1>4, <1>5, PutIs DEF k
<1> HIDE DEF new
<1>7. /\ DOMAIN new = DOMAIN node
      /\ \A x \in DOMAIN node :
           /\ new[x].kind = node[x].kind
           /\ new[x].nlink = IF x = i THEN l ELSE node[x].nlink
  BY <1>5, <1>6 DEF Alike
<1>8. \A x : To(new, x) = IF x = i THEN To(node, x) \cup {k} ELSE To(node, x)
  BY <1>3, <1>5, <1>6
<1>9. /\ Root \in DOMAIN node /\ node[Root].kind = "dir"
      /\ \A x : To(node, x) # {} => x \in DOMAIN node \ {Root}
      /\ \A x \in DOMAIN node :
           Fine(node[x].kind, node[x].nlink, To(node, x), detached, x)
  BY <1>1, SoundIs
<1>10. ASSUME NEW x \in DOMAIN node
       PROVE  Fine(new[x].kind, new[x].nlink, To(new, x), detached, x)
  <2>1. CASE x = i
    <3>1. ASSUME NEW t \in To(node, i) PROVE t[2] # Keep
      <4>1. t[1] \in Dirs
        BY <1>1, LeafHasNone DEF Dirs, Live
      <4>2. t[2] \in DOMAIN node[t[1]].kids /\ node[t[1]].kids[t[2]] = i
        BY DEF To
      <4>3. t[2] = Keep => i \in KeepOf(t[1])
        BY <4>2 DEF KeepOf, Child
      <4>4. QED
        BY <4>1, <4>3, <1>1 DEF KeepFiles
    <3>2. Fine(node[i].kind, node[i].nlink, To(node, i), detached, i)
      BY <1>1, <1>9
    <3>3. Fine(node[i].kind, node[i].nlink + 1, To(node, i) \cup {k}, detached, i)
      BY <3>1, <3>2, <1>1, <1>3, <1>4, FineMore
    <3>4. QED
      BY <2>1, <3>3, <1>1, <1>7, <1>8 DEF l
  <2>2. CASE x # i
    BY <2>2, <1>7, <1>8, <1>9
  <2>3. QED
    BY <2>1, <2>2
<1>11. \A x : To(new, x) # {} => x \in DOMAIN new \ {Root}
  BY <1>1, <1>7, <1>8, <1>9
<1>12. Sound(new, detached)
  BY <1>6, <1>7, <1>9, <1>10, <1>11, SoundIs
<1>13. Aged(node, nextIno, new)
  BY <1>7 DEF Aged
<1>14. Whole(new, detached)
  <2>1. \A x \in DOMAIN node : To(node, x) \subseteq To(new, x)
    BY <1>8
  <2>2. DOMAIN new \ DOMAIN node = {} /\ Root \in DOMAIN new
    BY <1>7, <1>9
  <2>3. QED
    BY <2>1, <2>2, <1>1, <1>9, WholeKept
<1>15. QED
  BY <1>1, <1>2, <1>6, <1>12, <1>13, <1>14 DEF Kept

LEMMA RmdirKept ==
  ASSUME Inv, NEW d \in Dirs, NEW n \in Names, Rmdir(d, n)
  PROVE  Kept
<1> DEFINE i == Child(d, n)
           k == <<d, n>>
           S == {i} \cup KeepOf(i)
           cut == CutEntry(node, d, n)
           rest == Without(cut, S)
           l == Less(rest[d].nlink)
<1>1. /\ Typed(node, nextIno) /\ Sound(node, detached) /\ Whole(node, detached)
      /\ d \in DOMAIN node /\ node[d].kind = "dir"
      /\ n \in DOMAIN node[d].kids /\ n \in AllNames /\ n # Keep
      /\ i \in DOMAIN node /\ node[i].kind = "dir" /\ i # Root
      /\ k \in To(node, i)
      /\ nextIno' = nextIno /\ detached' = detached
  <2>1. /\ Typed(node, nextIno) /\ Sound(node, detached) /\ Whole(node, detached)
        /\ d \in DOMAIN node /\ node[d].kind = "dir"
        /\ n \in DOMAIN node[d].kids /\ n \in AllNames /\ n # Keep
        /\ i \in DOMAIN node /\ node[i].kind = "dir"
        /\ nextIno' = nextIno /\ detached' = detached
    BY MemAssumption DEF Inv, Rmdir, Has, Dirs, Live, AllNames
  <2>2. QED
    BY <2>1, EntryIs DEF Child
<1>2. DOMAIN node[i].kids \subseteq {Keep}
  BY DEF Rmdir, Visible
<1>3. node' = Recount(rest, d, l)
  BY DEF Rmdir, Recount
<1>4. d # i
  BY <1>1, <1>2
<1>5. ASSUME NEW x \in KeepOf(i)
      PROVE  /\ <<i, Keep>> \in To(node, x) /\ x \in DOMAIN node
             /\ node[x].kind # "dir" /\ To(node, x) = {<<i, Keep>>}
  <2>1. Keep \in DOMAIN node[i].kids /\ x = node[i].kids[Keep]
    BY DEF KeepOf, Child
  <2>2. <<i, Keep>> \in To(node, x) /\ x \in DOMAIN node
    BY <2>1, <1>1, EntryIs
  <2>3. Fine(node[x].kind, node[x].nlink, To(node, x), detached, x)
    BY <2>2, <1>1 DEF Sound
  <2>4. QED
    BY <2>2, <2>3 DEF Fine
<1>6. /\ Typed(cut, nextIno) /\ Alike(node, cut)
      /\ \A x : To(cut, x) = To(node, x) \ {k}
  BY <1>1, CutIs
<1>7. Sound(cut, detached)
  <2>1. \A x : k \in To(node, x) => x = i
    BY <1>1, OneTarget
  <2>2. \A x \in DOMAIN node : k \in To(node, x) =>
                                 node[x].kind = "dir" \/ x \in detached
    BY <2>1, <1>1
  <2>3. QED
    BY <2>2, <1>1, CutKept
<1>8. \A x \in S : \A y \in To(cut, x) : y[1] \in S
  <2>1. To(node, i) = {k}
    <3>1. Fine(node[i].kind, node[i].nlink, To(node, i), detached, i)
      BY <1>1 DEF Sound
    <3>2. QED
      BY <3>1, <1>1 DEF Fine
  <2>2. QED
    BY <2>1, <1>5, <1>6
<1>9. \A x \in DOMAIN cut \ S : \A y \in To(cut, x) : y[1] \notin S
  <2>1. SUFFICES ASSUME NEW x \in DOMAIN cut \ S, NEW y \in To(cut, x), y[1] \in S
                 PROVE  FALSE
    OBVIOUS
  <2>2. y \in To(node, x) /\ node[y[1]].kind = "dir"
    BY <1>1, <1>6, LeafHasNone
  <2>3. y[1] = i
    BY <2>1, <2>2, <1>5
  <2>4. y[2] \in DOMAIN node[i].kids /\ node[i].kids[y[2]] = x
    BY <2>2, <2>3 DEF To
  <2>5. x \in KeepOf(i)
    BY <2>4, <1>2 DEF KeepOf, Child
  <2>6. QED
    BY <2>1, <2>5
<1>10. Root \notin S
  <2>1. Root \in DOMAIN node /\ node[Root].kind = "dir"
    BY <1>1 DEF Sound
  <2>2. QED
    BY <2>1, <1>1, <1>5
<1>11. d \notin S
  BY <1>1, <1>4, <1>5
<1> HIDE DEF S, cut
<1>12. /\ Typed(rest, nextIno) /\ DOMAIN rest = DOMAIN cut \ S
       /\ \A x \in DOMAIN cut \ S : rest[x] = cut[x]
       /\ \A x, y : y \in To(rest, x) <=> y \in To(cut, x) /\ y[1] \notin S
  BY <1>6, RemoveIs
<1>13. Sound(rest, detached)
  BY <1>6, <1>7, <1>8, <1>9, <1>10, RemoveKept
<1>14. /\ DOMAIN rest \subseteq DOMAIN node
       /\ \A x \in DOMAIN rest : rest[x].kind = node[x].kind
       /\ d \in DOMAIN rest
  BY <1>1, <1>6, <1>11, <1>12 DEF Alike
<1> HIDE DEF rest
<1>15. l \in Nat /\ l <= nextIno
  <2>1. Good(rest[d], nextIno) /\ nextIno \in Nat
    BY <1>12, <1>14 DEF Typed
  <2>2. rest[d].nlink \in Nat /\ rest[d].nlink <= nextIno
    BY <2>1, <1>1, <1>14 DEF Good
  <2>3. QED
    BY <2>1, <2>2 DEF Less
<1> HIDE DEF l
<1>16. /\ Typed(node', nextIno) /\ Sound(node', detached)
       /\ DOMAIN node' = DOMAIN rest
       /\ \A x \in DOMAIN rest : node'[x].kind = rest[x].kind
       /\ \A x : To(node', x) = To(rest, x)
  <2>1. rest[d].kind = "dir"
    BY <1>1, <1>14
  <2>2. \A x : To(node', x) = To(rest, x)
    BY <2>1, <1>3, <1>12, <1>14, <1>15, RecountIs
  <2>3. QED
    BY <2>1, <2>2, <1>3, <1>12, <1>13, <1>14, <1>15, RecountKept
<1>17. Aged(node, nextIno, node')
  BY <1>14, <1>16 DEF Aged
<1>18. Whole(node', detached)
  <2>1. ASSUME NEW x \in DOMAIN node' PROVE To(node, x) \subseteq To(node', x)
    <3>1. x \in DOMAIN cut \ S /\ x # i
      BY <1>12, <1>16 DEF S
    <3>2. k \notin To(node, x)
      BY <3>1, <1>1, OneTarget
    <3>3. To(cut, x) = To(node, x)
      BY <3>2, <1>6
    <3>4. QED
      BY <3>1, <3>3, <1>9, <1>12, <1>16
  <2>2. DOMAIN node' \ DOMAIN node = {}
    BY <1>14, <1>16
  <2>3. Root \in DOMAIN node /\ Root \in DOMAIN node'
    BY <1>1, <1>16 DEF Sound
  <2>4. QED
    BY <2>1, <2>2, <2>3, <1>1, WholeKept
<1>19. QED
  BY <1>1, <1>16, <1>17, <1>18 DEF Kept

LEMMA RmdirNotEmptyKept ==
  ASSUME Inv, NEW d \in Dirs, NEW n \in Names, RmdirNotEmpty(d, n)
  PROVE  Kept
<1> DEFINE i == Child(d, n)
           f == node[i].kids[Keep]
           k == <<i, Keep>>
           rest == Without(node, {f})
           put == PutEntry(rest, i, Keep, nextIno)
           new == With(put, nextIno, Leaf("file"))
<1>1. /\ Typed(node, nextIno) /\ Sound(node, detached) /\ Whole(node, detached)
      /\ i \in DOMAIN node /\ node[i].kind = "dir" /\ Keep \in DOMAIN node[i].kids
      /\ nextIno' = nextIno + 1 /\ detached' = detached
  BY DEF Inv, RmdirNotEmpty, Has, Dirs, Live, KeepOf
<1>2. node' = new
  <2>1. KeepOf(i) = {f}
    BY <1>1 DEF KeepOf, Child
  <2>2. QED
    BY <2>1 DEF RmdirNotEmpty
<1>3. k \in To(node, f) /\ f \in DOMAIN node
  BY <1>1, EntryIs
<1>4. /\ Root \in DOMAIN node /\ node[Root].kind = "dir"
      /\ \A x : To(node, x) # {} => x \in DOMAIN node \ {Root}
      /\ \A x \in DOMAIN node :
           Fine(node[x].kind, node[x].nlink, To(node, x), detached, x)
  BY <1>1, SoundIs
<1>5. k[2] = Keep /\ Keep \in AllNames
  BY DEF AllNames
<1> HIDE DEF i, f, k
<1>6. node[f].kind # "dir" /\ To(node, f) = {k}
  BY <1>3, <1>4, <1>5 DEF Fine
<1>7. \A x : x # f => k \notin To(node, x)
  BY <1>3, OneTarget
<1>8. /\ Typed(rest, nextIno)
      /\ DOMAIN rest = DOMAIN node \ {f}
      /\ \A x \in DOMAIN node \ {f} : rest[x] = node[x]
  BY <1>1, RemoveIs
<1>9. ASSUME NEW x PROVE To(rest, x) = To(node, x)
  <2>1. \A y : y \in To(rest, x) <=> y \in To(node, x) /\ y[1] \notin {f}
    BY <1>1, RemoveIs
  <2>2. \A y \in To(node, x) : y[1] \notin {f}
    BY <1>1, <1>6, LeafHasNone
  <2> HIDE DEF rest
  <2>3. \A y : y \in To(rest, x) <=> y \in To(node, x)
    BY <2>1, <2>2
  <2>4. QED
    BY <2>3
<1> HIDE DEF rest
<1>10. nextIno \in Nat /\ nextIno \notin DOMAIN node /\ i \in DOMAIN rest /\ rest[i].kind = "dir"
  <2>1. i # f
    BY <1>1, <1>6
  <2>2. QED
    BY <2>1, <1>1, <1>8 DEF Typed
<1>11. /\ Typed(put, nextIno) /\ Alike(rest, put)
       /\ \A x : To(put, x) = IF x = nextIno THEN To(rest, x) \cup {k}
                              ELSE To(rest, x) \ {k}
  BY <1>5, <1>8, <1>10, PutIs DEF k
<1> HIDE DEF put
<1>12. "file" \in Kinds /\ "file" # "dir"
  BY DEF Kinds
<1>13. /\ Typed(new, nextIno + 1)
       /\ DOMAIN new = DOMAIN put \cup {nextIno}
       /\ new[nextIno].kind = "file" /\ new[nextIno].nlink = 1
       /\ \A x \in DOMAIN put : new[x] = put[x]
       /\ \A x : To(new, x) = To(put, x)
  BY <1>11, <1>12, AddLeafIs
<1> HIDE DEF new
<1>14. /\ DOMAIN new = (DOMAIN node \ {f}) \cup {nextIno}
       /\ \A x \in DOMAIN node \ {f} : /\ new[x].kind = node[x].kind
                                       /\ new[x].nlink = node[x].nlink
  BY <1>8, <1>11, <1>13 DEF Alike
<1>15. \A x : To(new, x) = IF x = nextIno THEN To(node, x) \cup {k} ELSE To(node, x) \ {k}
  BY <1>9, <1>11, <1>13
<1>16. To(new, nextIno) = {k} /\ To(new, f) = {}
  BY <1>3, <1>4, <1>6, <1>10, <1>15
<1>17. ASSUME NEW x \in DOMAIN new
       PROVE  Fine(new[x].kind, new[x].nlink, To(new, x), detached, x)
  <2>1. CASE x = nextIno
    <3>1. Fine("file", 1, {k}, detached, x)
      BY FineNew
    <3>2. QED
      BY <2>1, <3>1, <1>13, <1>16
  <2>2. CASE x # nextIno
    <3>1. x \in DOMAIN node \ {f} /\ To(new, x) = To(node, x)
      BY <2>2, <1>7, <1>14, <1>15
    <3>2. QED
      BY <3>1, <1>4, <1>14
  <2>3. QED
    BY <2>1, <2>2
<1>18. \A x : To(new, x) # {} => x \in DOMAIN new \ {Root}
  <2>1. nextIno # Root
    BY <1>4, <1>10
  <2>2. QED
    BY <2>1, <1>4, <1>14, <1>15, <1>16
<1>19. Root \in DOMAIN new /\ new[Root].kind = "dir"
  BY <1>4, <1>6, <1>14
<1>20. Sound(new, detached)
  BY <1>13, <1>17, <1>18, <1>19, SoundIs
<1>21. Aged(node, nextIno, new)
  BY <1>10, <1>14 DEF Aged
<1>22. Whole(new, detached)
  <2>1. \A x \in DOMAIN node \cap DOMAIN new : To(node, x) \subseteq To(new, x)
    BY <1>7, <1>10, <1>14, <1>15
  <2>2. k \in To(new, nextIno) /\ k[1] \in DOMAIN node
    BY <1>1, <1>16 DEF k
  <2>3. \A x \in DOMAIN new \ DOMAIN node : x = nextIno
    BY <1>14
  <2>4. QED
    BY <2>1, <2>2, <2>3, <1>1, <1>4, <1>19, WholeKept
<1>23. QED
  BY <1>1, <1>2, <1>13, <1>20, <1>21, <1>22 DEF Kept

LEMMA MkdirKept ==
  ASSUME Inv, NEW d \in Dirs, NEW n \in Names, Mkdir(d, n)
  PROVE  Kept
<1> DEFINE j == nextIno
           f == nextIno + 1
           l == node[d].nlink + 1
           more == Recount(node, d, l)
           put == PutEntry(more, d, n, j)
           dir == [Dir EXCEPT !.kids = With(<<>>, Keep, f)]
           mid == With(put, j, dir)
           new == With(mid, f, Leaf("file"))
           k == <<d, n>>
           key == <<j, Keep>>
<1>1. /\ Typed(node, j) /\ Sound(node, detached) /\ Whole(node, detached)
      /\ d \in DOMAIN node /\ node[d].kind = "dir" /\ n \in AllNames /\ n # Keep
      /\ n \notin DOMAIN node[d].kids
      /\ nextIno' = f + 1 /\ detached' = detached
  BY MemAssumption DEF Inv, Mkdir, Has, Dirs, Live, AllNames, Typed
<1>2. node' = new
  BY DEF Mkdir, Recount
<1>3. /\ j \in Nat /\ f \in Nat /\ f >= 2 /\ f >= j /\ j # f /\ j < f /\ j >= 2
      /\ j \notin DOMAIN node /\ f \notin DOMAIN node
      /\ j \in 1..(f - 1)
  BY <1>1 DEF Typed
<1>4. Typed(node, f)
  BY <1>1, <1>3, TypedLater
<1>5. l \in Nat /\ l <= f
  BY <1>1, <1>3 DEF Typed, Good
<1>6. k[2] # Keep /\ \A x : k \notin To(node, x)
  BY <1>1 DEF To
<1>7. /\ Good(dir, f) /\ dir.kind = "dir" /\ dir.nlink = 2
      /\ DOMAIN dir.kids = {Keep} /\ dir.kids[Keep] = f
  <2> DEFINE kids == With(<<>>, Keep, f)
  <2>1. kids \in KidTables /\ DOMAIN kids = {Keep} /\ kids[Keep] = f
    <3>1. kids \in KidTables
      BY <1>3, NoKids, KidsWith DEF AllNames
    <3>2. QED
      BY <3>1, NoKids DEF With
  <2> HIDE DEF kids
  <2>2. dir = [kind |-> "dir", nlink |-> 2, kids |-> kids]
    BY DEF Dir, kids
  <2>3. QED
    BY <2>1, <2>2, <1>3 DEF Good, Kinds
<1> HIDE DEF f, l, dir, k
<1>8. /\ Typed(more, f)
      /\ DOMAIN more = DOMAIN node
      /\ \A x \in DOMAIN node :
           /\ more[x].kind = node[x].kind
           /\ more[x].nlink = IF x = d THEN l ELSE node[x].nlink
      /\ \A x : To(more, x) = To(node, x)
  BY <1>1, <1>4, <1>5, RecountIs
<1> HIDE DEF more
<1>9. /\ Typed(put, f) /\ Alike(more, put)
      /\ \A x : To(put, x) = IF x = j THEN To(more, x) \cup {k} ELSE To(more, x) \ {k}
  BY <1>1, <1>3, <1>8, PutIs DEF k
<1> HIDE DEF put, j
<1>10. \A x : To(put, x) = IF x = j THEN To(node, x) \cup {k} ELSE To(node, x)
  BY <1>6, <1>8, <1>9
<1>11. j \notin DOMAIN put /\ DOMAIN put = DOMAIN node
  BY <1>3, <1>8, <1>9 DEF Alike
<1>12. Typed(mid, f)
  BY <1>3, <1>7, <1>9, AddTyped
<1>13. /\ DOMAIN mid = DOMAIN node \cup {j} /\ mid[j] = dir
       /\ \A x \in DOMAIN node : mid[x] = put[x]
  BY <1>11 DEF With
<1>14. \A x, y : y \in To(mid, x) <=>
         \/ y \in To(put, x)
         \/ y \in {j} \X AllNames /\ y[2] \in DOMAIN dir.kids /\ dir.kids[y[2]] = x
  BY <1>11, AddTo
<1> HIDE DEF mid
<1>15. ASSUME NEW x
       PROVE  To(mid, x) = IF x = f THEN To(put, x) \cup {key} ELSE To(put, x)
  <2>1. \A y : y \in {j} \X AllNames /\ y[2] \in DOMAIN dir.kids /\ dir.kids[y[2]] = x
               <=> y = key /\ x = f
    BY <1>7 DEF AllNames
  <2>2. \A y : y \in To(mid, x) <=> y \in To(put, x) \/ (y = key /\ x = f)
    BY <2>1, <1>14
  <2> HIDE DEF key
  <2>3. CASE x = f
    BY <2>2, <2>3
  <2>4. CASE x # f
    <3>1. \A y : y \in To(mid, x) <=> y \in To(put, x)
      BY <2>2, <2>4
    <3>2. QED
      BY <3>1, <2>4
  <2>5. QED
    BY <2>3, <2>4
<1>16. key[1] = j /\ key[2] = Keep
  OBVIOUS
<1> HIDE DEF key
<1>17. "file" \in Kinds /\ "file" # "dir"
  BY DEF Kinds
<1>18. /\ Typed(new, f + 1)
       /\ DOMAIN new = DOMAIN mid \cup {f}
       /\ new[f].kind = "file" /\ new[f].nlink = 1
       /\ \A x \in DOMAIN mid : new[x] = mid[x]
       /\ \A x : To(new, x) = To(mid, x)
  BY <1>12, <1>17, AddLeafIs
<1> HIDE DEF new
<1>19. /\ DOMAIN new = DOMAIN node \cup {j, f}
       /\ new[j].kind = "dir" /\ new[j].nlink = 2
       /\ \A x \in DOMAIN node :
            /\ new[x].kind = node[x].kind
            /\ new[x].nlink = IF x = d THEN l ELSE node[x].nlink
  BY <1>7, <1>8, <1>9, <1>13, <1>18 DEF Alike
<1>20. /\ Root \in DOMAIN node /\ node[Root].kind = "dir"
       /\ \A x : To(node, x) # {} => x \in DOMAIN node \ {Root}
       /\ \A x \in DOMAIN node :
            Fine(node[x].kind, node[x].nlink, To(node, x), detached, x)
  BY <1>1, SoundIs
<1>21. /\ To(new, j) = {k} /\ To(new, f) = {key}
       /\ \A x : x # j /\ x # f => To(new, x) = To(node, x)
  BY <1>3, <1>10, <1>15, <1>18, <1>20
<1>22. ASSUME NEW x \in DOMAIN new
       PROVE  Fine(new[x].kind, new[x].nlink, To(new, x), detached, x)
  <2>1. CASE x = j
    <3>1. Fine("dir", 2, {k}, detached, x)
      BY <1>6, FineNew
    <3>2. QED
      BY <2>1, <3>1, <1>19, <1>21
  <2>2. CASE x = f
    <3>1. Fine("file", 1, {key}, detached, x)
      BY FineNew
    <3>2. QED
      BY <2>2, <3>1, <1>18, <1>21
  <2>3. CASE x # j /\ x # f
    <3>1. /\ x \in DOMAIN node /\ To(new, x) = To(node, x)
          /\ new[x].kind = node[x].kind
          /\ new[x].nlink = node[x].nlink \/ node[x].kind = "dir"
      BY <2>3, <1>1, <1>19, <1>21
    <3>2. Fine(node[x].kind, node[x].nlink, To(node, x), detached, x)
      BY <3>1, <1>20
    <3>3. QED
      BY <3>1, <3>2 DEF Fine
  <2>4. QED
    BY <2>1, <2>2, <2>3
<1>23. \A x : To(new, x) # {} => x \in DOMAIN new \ {Root}
  <2>1. j # Root /\ f # Root
    BY <1>3, <1>20
  <2>2. QED
    BY <2>1, <1>19, <1>20, <1>21
<1>24. Root \in DOMAIN new /\ new[Root].kind = "dir"
  BY <1>19, <1>20
<1>25. Sound(new, detached)
  BY <1>18, <1>22, <1>23, <1>24, SoundIs
<1>26. Aged(node, j, new)
  BY <1>3, <1>19 DEF Aged
<1>27. Whole(new, detached)
  <2>1. \A x \in DOMAIN node : To(node, x) \subseteq To(new, x)
    BY <1>3, <1>21
  <2>2. k \in To(new, j) /\ k[1] \in DOMAIN node
    BY <1>1, <1>21 DEF k
  <2>3. key \in To(new, f) /\ key[1] = j
    BY <1>16, <1>21
  <2>4. \A x \in DOMAIN new \ DOMAIN node : x \in {j, f}
    BY <1>19
  <2>5. QED
    BY <2>1, <2>2, <2>3, <2>4, <1>1, <1>20, <1>24, WholeKept
<1>28. QED
  BY <1>1, <1>2, <1>18, <1>25, <1>26, <1>27 DEF Kept, j

-----------------------------------------------------------------------------
(* Below(S) is such a set: in each round of its recursion an inode is      *)
(* added, or the set is shut.                                              *)
Onward(R) == R \cup UNION {Kids(node, i) : i \in R \cap Dirs}

Reaching(f, S, n) == f = [k \in 0..n |-> IF k = 0 THEN S ELSE Onward(f[k - 1])]

LEMMA BelowFrom ==
  ASSUME NEW S, NEW g, Reaching(g, S, Cardinality(Live))
  PROVE  \E f : Reaching(f, S, Cardinality(Live)) /\ Below(S) = f[Cardinality(Live)]
<1> DEFINE reach[k \in 0..Cardinality(Live)] ==
             IF k = 0 THEN S
             ELSE reach[k - 1] \cup UNION {Kids(node, i) : i \in reach[k - 1] \cap Dirs}
<1>1. Below(S) = reach[Cardinality(Live)]
  BY DEF Below
<1>2. Reaching(reach, S, Cardinality(Live))
  BY DEF Reaching, Onward
<1> HIDE DEF reach
<1>3. QED
  BY <1>1, <1>2

(* Induction, for a set instead of an operator.                            *)
LEMMA Induction ==
  ASSUME NEW T, 0 \in T, \A n \in Nat : n \in T => n + 1 \in T
  PROVE  Nat \subseteq T
<1> SUFFICES ASSUME ~ Nat \subseteq T PROVE FALSE
  OBVIOUS
<1> DEFINE U == Nat \ T
<1>1. PICK x \in U : \A y \in U : ~ (<<y, x>> \in OpToRel(<, Nat))
  BY WFMin, NatLessThanWellFounded, Zenon
<1>2. x \in Nat /\ x # 0 /\ x \notin T
  OBVIOUS
<1>3. x - 1 \in Nat /\ x - 1 < x /\ (x - 1) + 1 = x
  BY <1>2
<1>4. <<x - 1, x>> \in OpToRel(<, Nat)
  BY <1>2, <1>3 DEF OpToRel
<1>5. x - 1 \in T
  BY <1>1, <1>3, <1>4
<1>6. QED
  BY <1>2, <1>3, <1>5

LEMMA ReachingExists ==
  ASSUME NEW S
  PROVE  \A n \in Nat : \E g : Reaching(g, S, n)
<1> DEFINE T == {n \in Nat : \E g : Reaching(g, S, n)}
<1>1. 0 \in T
  <2> DEFINE g == [k \in 0..0 |-> S]
  <2>1. g = [k \in 0..0 |-> IF k = 0 THEN S ELSE Onward(g[k - 1])]
    OBVIOUS
  <2> HIDE DEF g
  <2>2. QED
    BY <2>1 DEF Reaching
<1>2. ASSUME NEW n \in Nat, n \in T PROVE n + 1 \in T
  <2>1. PICK g : Reaching(g, S, n)
    BY <1>2
  <2> DEFINE h == [k \in 0..(n + 1) |-> IF k <= n THEN g[k] ELSE Onward(g[n])]
  <2>2. \A k \in 0..n : g[k] = IF k = 0 THEN S ELSE Onward(g[k - 1])
    BY <2>1 DEF Reaching
  <2>3. ASSUME NEW k \in 0..(n + 1)
        PROVE  h[k] = IF k = 0 THEN S ELSE Onward(h[k - 1])
    <3>1. CASE k <= n
      <4>1. h[k] = g[k] /\ (k # 0 => h[k - 1] = g[k - 1])
        BY <3>1
      <4>2. k \in 0..n
        BY <3>1
      <4> HIDE DEF h
      <4>3. QED
        BY <4>1, <4>2, <2>2
    <3>2. CASE k = n + 1
      <4>1. h[k] = Onward(g[n]) /\ h[k - 1] = g[n] /\ k # 0
        BY <3>2
      <4> HIDE DEF h
      <4>2. QED
        BY <4>1
    <3>3. QED
      BY <3>1, <3>2
  <2>4. h = [k \in 0..(n + 1) |-> h[k]]
    OBVIOUS
  <2> HIDE DEF h
  <2>5. Reaching(h, S, n + 1)
    BY <2>3, <2>4 DEF Reaching
  <2>6. QED
    BY <2>5
<1> HIDE DEF T
<1>3. Nat \subseteq T
  BY <1>1, <1>2, Induction
<1>4. QED
  BY <1>3 DEF T

LEMMA OnwardIs ==
  ASSUME Typed(node, nextIno), Sound(node, detached), NEW R
  PROVE  /\ R \subseteq Onward(R)
         /\ Onward(R) \subseteq R => Shut(node, R)
         /\ Onward(R) \ R \subseteq Live
<1>1. R \subseteq Onward(R)
  BY DEF Onward
<1>2. ASSUME Onward(R) \subseteq R PROVE Shut(node, R)
  <2> SUFFICES ASSUME NEW x \in DOMAIN node, NEW k \in To(node, x), k[1] \in R
               PROVE  x \in R
    BY DEF Shut
  <2>1. k[1] \in Dirs /\ x \in Kids(node, k[1])
    <3>1. k[1] \in DOMAIN node /\ node[k[1]].kind = "dir"
      BY LeafHasNone
    <3>2. QED
      BY <3>1 DEF Dirs, Live, To, Kids
  <2>2. QED
    BY <2>1, <1>2 DEF Onward
<1>3. Onward(R) \ R \subseteq Live
  BY DEF Onward, Dirs, Live, Sound, Closed
<1>4. QED
  BY <1>1, <1>2, <1>3

LEMMA BelowIs ==
  ASSUME Typed(node, nextIno), Sound(node, detached), NEW S
  PROVE  S \subseteq Below(S) /\ Shut(node, Below(S))
<1> DEFINE N == Cardinality(Live)
<1>1. IsFiniteSet(Live) /\ N \in Nat
  <2>1. Live \subseteq 1..(nextIno - 1) /\ nextIno - 1 \in Int /\ 1 \in Int
    BY DEF Typed, Live
  <2>2. IsFiniteSet(1..(nextIno - 1))
    BY <2>1, FS_Interval
  <2>3. QED
    BY <2>1, <2>2, FS_Subset, FS_CardinalityType
<1>2. PICK f : Reaching(f, S, N) /\ Below(S) = f[N]
  <2>1. \E g : Reaching(g, S, N)
    BY <1>1, ReachingExists
  <2>2. QED
    BY <2>1, BelowFrom
<1>3. \A k \in 0..N : f[k] = IF k = 0 THEN S ELSE Onward(f[k - 1])
  BY <1>2 DEF Reaching
<1> HIDE DEF N
<1> DEFINE Grown(n) == Cardinality(f[n] \cap Live) >= n \/ Onward(f[n]) \subseteq f[n]
           T == {n \in Nat : n <= N => S \subseteq f[n] /\ Grown(n)}
<1>4. \A R : IsFiniteSet(R \cap Live) /\ Cardinality(R \cap Live) \in Nat
  BY <1>1, FS_Subset, FS_CardinalityType
<1>5. 0 \in T
  <2>1. f[0] = S
    BY <1>1, <1>3
  <2>2. QED
    BY <2>1, <1>4
<1>6. ASSUME NEW n \in Nat, n \in T PROVE n + 1 \in T
  <2> SUFFICES ASSUME n + 1 <= N PROVE S \subseteq f[n + 1] /\ Grown(n + 1)
    OBVIOUS
  <2>1. S \subseteq f[n] /\ Grown(n)
    BY <1>1, <1>6
  <2>2. f[n + 1] = Onward(f[n])
    <3>1. n + 1 \in 0..N /\ n + 1 # 0 /\ (n + 1) - 1 = n
      BY <1>1
    <3>2. QED
      BY <3>1, <1>3
  <2>3. S \subseteq f[n + 1] /\ f[n] \subseteq f[n + 1]
    BY <2>1, <2>2, OnwardIs
  <2>4. CASE Onward(f[n]) \subseteq f[n]
    <3>1. f[n + 1] = f[n]
      BY <2>2, <2>3, <2>4
    <3>2. Grown(n + 1)
      BY <3>1, <2>4
    <3>3. QED
      BY <3>2, <2>3
  <2>5. CASE ~ (Onward(f[n]) \subseteq f[n])
    <3>1. PICK x \in Live : x \in f[n + 1] /\ x \notin f[n]
      BY <2>2, <2>5, OnwardIs
    <3> DEFINE P == f[n] \cap Live
               Q == f[n + 1] \cap Live
    <3>2. Cardinality(P \cup {x}) = Cardinality(P) + 1 /\ P \cup {x} \subseteq Q
      BY <3>1, <2>3, <1>4, FS_AddElement
    <3>3. Cardinality(P \cup {x}) <= Cardinality(Q)
      BY <3>2, <1>4, FS_Subset
    <3>4. Cardinality(P) >= n
      BY <2>1, <2>5
    <3>5. Cardinality(P) \in Nat /\ Cardinality(Q) \in Nat
      BY <1>4
    <3> HIDE DEF P, Q
    <3>6. Cardinality(Q) >= n + 1
      BY <3>2, <3>3, <3>4, <3>5
    <3>7. QED
      BY <3>6, <2>3 DEF Q
  <2>6. QED
    BY <2>4, <2>5
<1>7. N \in T
  <2> HIDE DEF T
  <2>1. QED
    BY <1>1, <1>5, <1>6, Induction
<1>8. S \subseteq f[N] /\ Grown(N)
  BY <1>1, <1>7
<1>9. CASE Onward(f[N]) \subseteq f[N]
  BY <1>2, <1>8, <1>9, OnwardIs
<1>10. CASE Cardinality(f[N] \cap Live) >= N
  <2>1. f[N] \cap Live = Live
    <3>1. Cardinality(f[N] \cap Live) <= Cardinality(Live)
      BY <1>1, FS_Subset
    <3>2. Cardinality(f[N] \cap Live) = Cardinality(Live)
      BY <3>1, <1>1, <1>4, <1>10 DEF N
    <3>3. f[N] \cap Live \in SUBSET Live
      OBVIOUS
    <3>4. QED
      BY <3>2, <3>3, <1>1, FS_Subset
  <2>2. Onward(f[N]) \subseteq f[N]
    BY <2>1, OnwardIs
  <2>3. QED
    BY <2>2, <1>2, <1>8, OnwardIs
<1>11. QED
  BY <1>8, <1>9, <1>10
-----------------------------------------------------------------------------
(* A rename, up to the point where the entry comes back: dst is what the   *)
(* new name led to, if it led to anything.                                 *)
Over(d, n, e, m) == e \in Dirs /\ m \in DOMAIN CutEntry(node, d, n)[e].kids
Dst(d, n, e, m) == CutEntry(node, d, n)[e].kids[m]
Freed(d, n, e, m) ==
  IF Over(d, n, e, m) THEN Unlinked(CutEntry(node, d, n), Dst(d, n, e, m))
  ELSE CutEntry(node, d, n)
Gone(d, n, e, m) == Over(d, n, e, m) /\ node[Dst(d, n, e, m)].nlink <= 1
Orphans(d, n, e, m) ==
  IF ~ Over(d, n, e, m) \/ Dst(d, n, e, m) \notin Dirs THEN {}
  ELSE IF Dst(d, n, e, m) \in DOMAIN Freed(d, n, e, m) THEN {Dst(d, n, e, m)}
  ELSE {Dst(d, n, e, m)} \cup Kids(CutEntry(node, d, n), Dst(d, n, e, m))

Halfway(i, k, q, e, over, dst, gone, orphans, freed) ==
  /\ i \in DOMAIN node \ {Root} /\ k \in To(node, i)
  /\ over => /\ e \in DOMAIN node /\ dst \in DOMAIN node \ {Root}
             /\ q \in To(node, dst) /\ q # k
  /\ e \in Dirs => \A x : q \in To(node, x) /\ q # k => over /\ x = dst
  /\ Typed(freed, nextIno)
  /\ DOMAIN freed = IF gone THEN DOMAIN node \ {dst} ELSE DOMAIN node
  /\ \A x \in DOMAIN freed :
       /\ freed[x].kind = node[x].kind
       /\ freed[x].nlink = IF over /\ x = dst THEN node[dst].nlink - 1
                           ELSE node[x].nlink
  /\ \A x, y : y \in To(freed, x) <=>
                 y \in To(node, x) /\ y # k /\ (gone => y[1] # dst)
  /\ \A x : \A y \in To(node, x) : y # k /\ gone /\ y[1] = dst => x \in orphans
  /\ orphans \subseteq DOMAIN node

LEMMA RenameCut ==
  ASSUME Inv, NEW d \in Dirs, NEW n \in Names, Has(d, n), NEW e, NEW m \in Names
  PROVE  Halfway(Child(d, n), <<d, n>>, <<e, m>>, e, Over(d, n, e, m), Dst(d, n, e, m),
                 Gone(d, n, e, m), Orphans(d, n, e, m), Freed(d, n, e, m))
<1> DEFINE i == Child(d, n)
           k == <<d, n>>
           q == <<e, m>>
           over == Over(d, n, e, m)
           dst == Dst(d, n, e, m)
           gone == Gone(d, n, e, m)
           orphans == Orphans(d, n, e, m)
           freed == Freed(d, n, e, m)
           cut == CutEntry(node, d, n)
<1>1. /\ Typed(node, nextIno) /\ Sound(node, detached)
      /\ d \in DOMAIN node /\ node[d].kind = "dir"
      /\ n \in DOMAIN node[d].kids /\ n \in AllNames /\ m \in AllNames
  BY DEF Inv, Has, Dirs, Live, AllNames
<1>2. i \in DOMAIN node \ {Root} /\ k \in To(node, i)
  BY <1>1, EntryIs DEF Child
<1>3. /\ Typed(cut, nextIno) /\ Alike(node, cut)
      /\ \A x : To(cut, x) = To(node, x) \ {k}
  BY <1>1, CutIs
<1>4. k = <<d, n>> /\ q = <<e, m>>
  OBVIOUS
<1>5. /\ over = (e \in Dirs /\ m \in DOMAIN cut[e].kids) /\ dst = cut[e].kids[m]
      /\ freed = (IF over THEN Unlinked(cut, dst) ELSE cut)
      /\ gone = (over /\ node[dst].nlink <= 1)
      /\ orphans = (IF ~ over \/ dst \notin Dirs THEN {}
                    ELSE IF dst \in DOMAIN freed THEN {dst}
                    ELSE {dst} \cup Kids(cut, dst))
  BY DEF Over, Dst, Freed, Gone, Orphans
<1>6. /\ Root \in DOMAIN node /\ node[Root].kind = "dir"
      /\ \A x : To(node, x) # {} => x \in DOMAIN node \ {Root}
      /\ \A x \in DOMAIN node :
           Fine(node[x].kind, node[x].nlink, To(node, x), detached, x)
  BY <1>1, SoundIs
<1> HIDE DEF i, k, q, over, dst, gone, orphans, freed, cut
<1>7. /\ DOMAIN cut = DOMAIN node
      /\ \A x \in DOMAIN node : cut[x].kind = node[x].kind /\ cut[x].nlink = node[x].nlink
  BY <1>3 DEF Alike
<1>8. ASSUME over
      PROVE  /\ e \in DOMAIN node /\ dst \in DOMAIN node \ {Root}
             /\ q \in To(node, dst) /\ q # k
  <2>1. e \in DOMAIN node /\ m \in DOMAIN cut[e].kids /\ dst = cut[e].kids[m]
    BY <1>5, <1>8 DEF Dirs, Live
  <2>2. q \in To(cut, dst)
    BY <2>1, <1>1, <1>7, <1>4 DEF To
  <2>3. QED
    BY <2>1, <2>2, <1>3, <1>6
<1>9. ASSUME e \in Dirs, NEW x, q \in To(node, x), q # k
      PROVE  over /\ x = dst
  <2>1. q \in To(cut, x)
    BY <1>3, <1>9
  <2>2. m \in DOMAIN cut[e].kids /\ cut[e].kids[m] = x
    BY <2>1, <1>4 DEF To
  <2>3. QED
    BY <2>2, <1>5, <1>9
<1>10. /\ Typed(freed, nextIno)
       /\ DOMAIN freed = IF gone THEN DOMAIN node \ {dst} ELSE DOMAIN node
       /\ \A x \in DOMAIN freed :
            /\ freed[x].kind = node[x].kind
            /\ freed[x].nlink = IF over /\ x = dst THEN node[dst].nlink - 1
                                ELSE node[x].nlink
       /\ \A x, y : y \in To(freed, x) <=>
                      y \in To(node, x) /\ y # k /\ (gone => y[1] # dst)
  <2>1. CASE over
    <3>1. freed = Unlinked(cut, dst) /\ dst \in DOMAIN cut /\ cut[dst].nlink = node[dst].nlink
          /\ gone = (node[dst].nlink <= 1)
      BY <2>1, <1>5, <1>7, <1>8
    <3> DEFINE less == Unlinked(cut, dst)
    <3>2. /\ Typed(less, nextIno)
          /\ DOMAIN less = IF cut[dst].nlink <= 1 THEN DOMAIN cut \ {dst} ELSE DOMAIN cut
          /\ \A x \in DOMAIN less :
               /\ less[x].kind = cut[x].kind
               /\ less[x].nlink = IF x = dst THEN cut[dst].nlink - 1 ELSE cut[x].nlink
          /\ \A x, y : y \in To(less, x) <=>
                         y \in To(cut, x) /\ (cut[dst].nlink <= 1 => y[1] # dst)
      <4>1. dst \in DOMAIN cut
        BY <3>1
      <4>2. QED
        BY <4>1, <1>3, UnlinkedIs
    <3> HIDE DEF less
    <3>3. gone <=> cut[dst].nlink <= 1
      BY <3>1
    <3>4. freed = less
      BY <3>1 DEF less
    <3>5. DOMAIN freed = IF gone THEN DOMAIN node \ {dst} ELSE DOMAIN node
      BY <3>2, <3>3, <3>4, <1>7
    <3>6. \A x \in DOMAIN freed :
            /\ freed[x].kind = node[x].kind
            /\ freed[x].nlink = IF over /\ x = dst THEN node[dst].nlink - 1
                                ELSE node[x].nlink
      BY <2>1, <3>1, <3>2, <3>4, <3>5, <1>7
    <3>7. \A x, y : y \in To(freed, x) <=>
                      y \in To(node, x) /\ y # k /\ (gone => y[1] # dst)
      BY <3>2, <3>3, <3>4, <1>3
    <3>8. QED
      BY <3>2, <3>4, <3>5, <3>6, <3>7
  <2>2. CASE ~ over
    BY <2>2, <1>3, <1>5, <1>7
  <2>3. QED
    BY <2>1, <2>2
<1>11. ASSUME NEW x, NEW y \in To(node, x), y # k, gone, y[1] = dst
       PROVE  x \in orphans
  <2>1. over /\ dst \notin DOMAIN freed /\ dst \in Dirs
    <3>1. dst \in DOMAIN node /\ node[dst].kind = "dir"
      BY <1>1, <1>11, LeafHasNone
    <3>2. QED
      BY <3>1, <1>5, <1>10, <1>11 DEF Dirs, Live
  <2>2. y \in To(cut, x)
    BY <1>3, <1>11
  <2>3. x \in Kids(cut, dst)
    BY <2>2, <1>11 DEF To, Kids
  <2>4. QED
    BY <2>1, <2>3, <1>5
<1>12. orphans \subseteq DOMAIN node
  <2>1. CASE over
    <3>1. ASSUME NEW x \in Kids(cut, dst) PROVE x \in DOMAIN node
      <4>1. PICK y \in DOMAIN cut[dst].kids : x = cut[dst].kids[y]
        BY DEF Kids
      <4>2. dst \in DOMAIN cut /\ DOMAIN cut[dst].kids \subseteq AllNames
        BY <2>1, <1>3, <1>7, <1>8, KidTableIs DEF Typed, Good
      <4>3. <<dst, y>> \in To(cut, x)
        BY <4>1, <4>2 DEF To
      <4>4. QED
        BY <4>3, <1>3, <1>6
    <3>2. QED
      BY <2>1, <3>1, <1>5, <1>8
  <2>2. CASE ~ over
    BY <2>2, <1>5
  <2>3. QED
    BY <2>1, <2>2
<1>13. QED
  <2>1. Halfway(i, k, q, e, over, dst, gone, orphans, freed)
    BY <1>2, <1>8, <1>9, <1>10, <1>11, <1>12 DEF Halfway
  <2>2. QED
    BY <2>1 DEF i, k, q, over, dst, gone, orphans, freed

LEMMA RenameKept ==
  ASSUME Inv, NEW d \in Dirs, NEW n \in Names, NEW e, NEW m \in Names, Rename(d, n, e, m)
  PROVE  Kept /\ detached' \subseteq detached \cup DOMAIN node
<1> DEFINE i == Child(d, n)
           k == <<d, n>>
           q == <<e, m>>
           over == Over(d, n, e, m)
           dst == Dst(d, n, e, m)
           gone == Gone(d, n, e, m)
           orphans == Orphans(d, n, e, m)
           freed == Freed(d, n, e, m)
           back == e \in Dirs /\ e \in DOMAIN freed
<1>1. /\ Typed(node, nextIno) /\ Sound(node, detached) /\ Whole(node, detached)
      /\ Has(d, n) /\ nextIno' = nextIno
      /\ k[2] # Keep /\ q[2] # Keep /\ m \in AllNames
  BY MemAssumption DEF Inv, Rename, AllNames
<1>2. /\ node' = IF back THEN PutEntry(freed, e, m, i) ELSE freed
      /\ detached \subseteq detached' /\ orphans \subseteq detached'
      /\ detached' \subseteq detached \cup orphans \cup {i}
      /\ ~ back => i \in detached'
      /\ i \in Dirs /\ e \in Below({i}) => i \in detached'
      /\ over /\ dst \in Dirs => dst \in detached'
  <2>1. CASE back
    BY <2>1 DEF Rename, Over, Dst, Freed, Orphans
  <2>2. CASE ~ back
    BY <2>2 DEF Rename, Over, Dst, Freed, Orphans
  <2>3. QED
    BY <2>1, <2>2
<1>3. over => e \in Dirs
  BY DEF Over
<1>4. gone => over
  BY DEF Gone
<1>5. gone <=> over /\ node[dst].nlink <= 1
  BY DEF Gone
<1>6. Halfway(i, k, q, e, over, dst, gone, orphans, freed)
  BY <1>1, RenameCut
<1>7. q[1] = e
  OBVIOUS
<1> HIDE DEF i, k, q, over, dst, gone, orphans, freed
<1>8. i \in DOMAIN node \ {Root} /\ k \in To(node, i)
  BY <1>6 DEF Halfway
<1>9. over => /\ e \in DOMAIN node /\ dst \in DOMAIN node \ {Root}
              /\ q \in To(node, dst) /\ q # k
  BY <1>6 DEF Halfway
<1>10. e \in Dirs => \A x : q \in To(node, x) /\ q # k => over /\ x = dst
  BY <1>6 DEF Halfway
<1>11. /\ Typed(freed, nextIno)
       /\ DOMAIN freed = IF gone THEN DOMAIN node \ {dst} ELSE DOMAIN node
       /\ \A x \in DOMAIN freed :
            /\ freed[x].kind = node[x].kind
            /\ freed[x].nlink = IF over /\ x = dst THEN node[dst].nlink - 1
                                ELSE node[x].nlink
  BY <1>6 DEF Halfway
<1>12. \A x, y : y \in To(freed, x) <=>
                   y \in To(node, x) /\ y # k /\ (gone => y[1] # dst)
  BY <1>6 DEF Halfway
<1>13. \A x : \A y \in To(node, x) : y # k /\ gone /\ y[1] = dst => x \in orphans
  BY <1>6 DEF Halfway
<1>14. orphans \subseteq DOMAIN node /\ i \in Nat
  BY <1>1, <1>6, NodeIs DEF Halfway
<1>15. /\ Root \in DOMAIN node /\ node[Root].kind = "dir"
       /\ \A x : To(node, x) # {} => x \in DOMAIN node \ {Root}
       /\ \A x \in DOMAIN node :
            Fine(node[x].kind, node[x].nlink, To(node, x), detached, x)
  BY <1>1, SoundIs
<1>16. \A x : k \in To(node, x) => x = i
  BY <1>8, OneTarget
<1>17. over /\ i = dst => node[i].kind # "dir" /\ ~ gone
  <2>1. SUFFICES ASSUME over, i = dst PROVE node[i].kind # "dir" /\ ~ gone
    OBVIOUS
  <2>2. Fine(node[i].kind, node[i].nlink, To(node, i), detached, i) /\ node[i].nlink \in Nat
    BY <1>1, <1>8, <1>15, NodeIs
  <2>3. q \in To(node, i) /\ q # k
    BY <2>1, <1>9
  <2>4. node[i].kind # "dir"
    BY <2>2, <2>3, <1>8 DEF Fine
  <2>5. ~ gone
    BY <2>1, <2>2, <2>3, <2>4, <1>5, <1>8, FineLast
  <2>6. QED
    BY <2>4, <2>5
(* The only entry of what is gone is the new name. *)
<1>18. gone => To(node, dst) = {q}
  <2>1. SUFFICES ASSUME gone PROVE To(node, dst) = {q}
    OBVIOUS
  <2>2. /\ Fine(node[dst].kind, node[dst].nlink, To(node, dst), detached, dst)
        /\ node[dst].nlink \in Nat /\ node[dst].nlink <= 1 /\ q \in To(node, dst)
    BY <2>1, <1>1, <1>4, <1>5, <1>9, <1>15, NodeIs
  <2>3. CASE node[dst].kind = "dir"
    BY <2>2, <2>3 DEF Fine
  <2>4. CASE node[dst].kind # "dir"
    BY <2>2, <2>4, FineLast
  <2>5. QED
    BY <2>3, <2>4
(* What is left of the entries of an inode before the entry comes back. *)
<1>19. ASSUME NEW x, x \notin orphans PROVE To(freed, x) = To(node, x) \ {k}
  <2>1. \A y : y \in To(freed, x) <=> y \in To(node, x) \ {k}
    BY <1>12, <1>13, <1>19
  <2>2. QED
    BY <2>1
<1>20. \A x : To(freed, x) \subseteq To(node, x) \ {k}
  BY <1>12
<1>21. Root \in DOMAIN freed /\ freed[Root].kind = "dir"
  BY <1>4, <1>9, <1>11, <1>15
<1>22. detached' \subseteq detached \cup DOMAIN node
  BY <1>2, <1>8, <1>14
<1>23. CASE back
  <2> DEFINE new == PutEntry(freed, e, m, i)
  <2>1. node' = new /\ e \in DOMAIN freed /\ freed[e].kind = "dir"
    BY <1>2, <1>11, <1>23 DEF Dirs, Live
  <2>2. /\ Typed(new, nextIno) /\ Alike(freed, new)
        /\ \A x : To(new, x) = IF x = i THEN To(freed, x) \cup {q} ELSE To(freed, x) \ {q}
    BY <2>1, <1>1, <1>11, <1>14, PutIs DEF q
  <2> HIDE DEF new
  <2>3. /\ DOMAIN new = DOMAIN freed
        /\ \A x \in DOMAIN freed :
             new[x].kind = freed[x].kind /\ new[x].nlink = freed[x].nlink
    BY <2>2 DEF Alike
  <2>4. ASSUME NEW x \in DOMAIN new
        PROVE  Fine(new[x].kind, new[x].nlink, To(new, x), detached', x)
    <3>1. /\ x \in DOMAIN node /\ node[x].nlink \in Nat
          /\ Fine(node[x].kind, node[x].nlink, To(node, x), detached, x)
          /\ new[x].kind = node[x].kind
          /\ new[x].nlink = IF over /\ x = dst THEN node[x].nlink - 1 ELSE node[x].nlink
          /\ x \in detached => x \in detached'
      <4>1. x \in DOMAIN node
        BY <2>3, <2>4, <1>11
      <4>2. QED
        BY <4>1, <2>3, <2>4, <1>1, <1>2, <1>11, <1>15, NodeIs
    <3>2. CASE x = i /\ ~ (over /\ i = dst)
      <4> DEFINE R == To(freed, i)
      <4>1. R \in SUBSET (To(node, i) \ {k}) /\ To(new, x) = R \cup {q}
        BY <3>2, <2>2, <1>20
      <4>2. R = To(node, i) \ {k} \/ x \in detached'
        BY <3>2, <1>2, <1>19
      <4>3. q \notin To(node, i) \ {k}
        BY <3>2, <1>10, <1>23
      <4> HIDE DEF R
      <4>4. Fine(node[i].kind, node[i].nlink, R \cup {q}, detached', i)
        BY <3>1, <3>2, <4>1, <4>2, <4>3, <1>1, <1>8, FineMoved
      <4>5. QED
        BY <3>1, <3>2, <4>1, <4>4
    <3>3. CASE x = i /\ over /\ i = dst
      <4> DEFINE T == To(node, i) \ {k}
      <4>1. node[i].kind # "dir" /\ ~ gone /\ q \in T
        BY <3>3, <1>9, <1>17
      <4>2. To(freed, i) = T
        <5>1. \A y : y \in To(freed, i) <=> y \in T
          BY <4>1, <1>12
        <5>2. QED
          BY <5>1
      <4>3. To(new, x) = T
        BY <3>3, <4>1, <4>2, <2>2
      <4>4. Fine(node[i].kind, node[i].nlink - 1, T, detached, i)
        BY <3>1, <3>3, <4>1, <1>8, FineLess
      <4>5. node[i].nlink - 1 \in Nat
        BY <3>1, <3>3, <4>1, <1>5
      <4> HIDE DEF T
      <4>6. Fine(node[i].kind, node[i].nlink - 1, T, detached', i)
        <5>1. T \in SUBSET T
          OBVIOUS
        <5>2. QED
          BY <5>1, <3>1, <3>3, <4>4, <4>5, FineFewer
      <4>7. QED
        BY <3>1, <3>3, <4>3, <4>6
    <3>4. CASE x # i /\ over /\ x = dst
      <4>1. k \notin To(node, x) /\ q \in To(node, x)
        BY <3>4, <1>9, <1>16
      <4>2. To(new, x) = To(freed, x) \ {q}
        BY <3>4, <2>2
      <4>3. ~ gone
        BY <3>4, <2>3, <2>4, <1>11
      <4>4. To(new, x) = To(node, x) \ {q}
        <5>1. \A y : y \in To(new, x) <=> y \in To(node, x) \ {q}
          BY <4>1, <4>2, <4>3, <1>12
        <5>2. QED
          BY <5>1
      <4>5. CASE node[x].kind = "dir"
        <5>1. To(new, x) \in SUBSET To(node, x)
          BY <4>4
        <5>2. QED
          BY <5>1, <4>5, <3>1, FineFewer
      <4>6. CASE node[x].kind # "dir"
        <5> DEFINE T == To(node, x) \ {q}
                   l == node[x].nlink - 1
        <5>1. Fine(node[x].kind, l, T, detached, x)
          BY <3>1, <4>1, <4>6, FineLess
        <5>2. l \in Nat /\ T \in SUBSET T
          BY <3>1, <3>4, <4>3, <1>5
        <5>3. new[x].nlink = l /\ To(new, x) = T
          BY <3>1, <3>4, <4>4
        <5> HIDE DEF T, l
        <5>4. Fine(node[x].kind, l, T, detached', x)
          BY <5>1, <5>2, <3>1, FineFewer
        <5>5. QED
          BY <5>3, <5>4, <3>1
      <4>7. QED
        BY <4>5, <4>6
    <3>5. CASE x # i /\ ~ (over /\ x = dst)
      <4>1. k \notin To(node, x)
        BY <3>5, <1>16
      <4>2. q \notin To(node, x)
        BY <3>5, <4>1, <1>10, <1>8, <1>23
      <4>3. To(new, x) = To(freed, x) \ {q}
        BY <3>5, <2>2
      <4>4. To(new, x) \in SUBSET To(node, x)
        BY <4>3, <1>20
      <4>5. To(new, x) = To(node, x) \/ x \in detached'
        BY <4>1, <4>2, <4>3, <1>2, <1>19
      <4>6. new[x].nlink = node[x].nlink
        BY <3>1, <3>5
      <4>7. QED
        BY <4>4, <4>5, <4>6, <3>1, FineFewer
    <3>6. QED
      BY <3>2, <3>3, <3>4, <3>5
  <2>5. ASSUME NEW x, To(new, x) # {} PROVE x \in DOMAIN new \ {Root}
    <3>1. CASE x = i
      <4>1. gone => i # dst
        BY <1>4, <1>17
      <4>2. QED
        BY <3>1, <4>1, <2>3, <1>8, <1>11
    <3>2. CASE x # i
      <4>1. To(new, x) = To(freed, x) \ {q}
        BY <3>2, <2>2
      <4>2. To(new, x) \subseteq To(node, x)
        BY <4>1, <1>20
      <4>3. x \in DOMAIN node \ {Root}
        BY <4>2, <2>5, <1>15
      <4>4. gone => x # dst
        BY <4>1, <2>5, <1>18, <1>20
      <4>5. QED
        BY <4>3, <4>4, <2>3, <1>11
    <3>3. QED
      BY <3>1, <3>2
  <2>6. Root \in DOMAIN new /\ new[Root].kind = "dir"
    BY <2>3, <1>21
  <2>7. Sound(new, detached')
    BY <2>2, <2>4, <2>5, <2>6, SoundIs
  <2>8. Aged(node, nextIno, new)
    BY <2>3, <1>11 DEF Aged
  <2>9. Whole(new, detached')
    <3> DEFINE other == IF over THEN dst ELSE i
    <3>1. \A x \in DOMAIN new : x # i => To(new, x) \subseteq To(node, x)
      BY <2>2, <1>20
    <3>2. Whole(new, (detached' \cup {i}) \cup {other})
      <4>1. ASSUME NEW x \in DOMAIN node, x \notin (detached' \cup {i}) \cup {other}
            PROVE  To(node, x) \subseteq To(new, x)
        <5>1. To(freed, x) = To(node, x) \ {k} /\ To(new, x) = To(freed, x) \ {q}
          BY <4>1, <1>2, <1>19, <2>2
        <5>2. k \notin To(node, x)
          BY <4>1, <1>16
        <5>3. q \notin To(node, x)
          BY <4>1, <5>2, <1>10, <1>23
        <5>4. QED
          BY <5>1, <5>2, <5>3
      <4>2. DOMAIN new \ DOMAIN node = {}
        BY <2>3, <1>11
      <4>3. QED
        BY <4>1, <4>2, <2>6, <1>1, <1>2, <1>15, WholeKept
    <3>3. Whole(new, detached' \cup {i})
      <4>1. CASE ~ over \/ other \in detached'
        <5>1. (detached' \cup {i}) \cup {other} = detached' \cup {i}
          BY <4>1
        <5>2. QED
          BY <5>1, <3>2
      <4>2. CASE over /\ other \notin detached'
        <5>1. dst \in DOMAIN new => new[dst].kind # "dir"
          BY <4>2, <2>3, <1>2, <1>9, <1>11 DEF Dirs, Live
        <5>2. other = dst
          BY <4>2
        <5> HIDE DEF other
        <5>3. Whole(new, (detached' \cup {i}) \cup {dst})
          BY <5>2, <3>2
        <5>4. detached' \subseteq detached' \cup {i}
          OBVIOUS
        <5>5. QED
          BY <5>1, <5>3, <5>4, <2>2, <2>7, LeafRegained
      <4>3. QED
        BY <4>1, <4>2
    <3>4. CASE i \in detached'
      <4>1. detached' \cup {i} = detached'
        BY <3>4
      <4>2. QED
        BY <4>1, <3>3
    <3>5. CASE node[i].kind # "dir"
      <4>1. i \in DOMAIN new => new[i].kind # "dir"
        BY <3>5, <2>3, <1>11
      <4>2. QED
        BY <4>1, <3>3, <2>2, <2>7, LeafRegained
    <3>6. CASE i \notin detached' /\ node[i].kind = "dir"
      <4> DEFINE B == Below({i})
      <4>1. i \in B /\ Shut(node, B)
        BY <1>1, BelowIs
      <4>2. e \notin B
        BY <3>6, <1>2, <1>8 DEF Dirs, Live
      <4> HIDE DEF B
      <4>3. i \in DOMAIN new /\ q \in To(new, i)
        BY <1>8, <1>11, <1>4, <1>17, <2>2, <2>3
      <4>4. Shut(new, B)
        <5>1. \A x \in DOMAIN new : x \in DOMAIN node
          BY <2>3, <1>11
        <5>2. QED
          BY <5>1, <4>1, <3>1 DEF Shut
      <4>5. QED
        BY <4>1, <4>2, <4>3, <4>4, <3>3, <1>7, Regained
    <3>7. QED
      BY <3>4, <3>5, <3>6
  <2>10. QED
    BY <2>1, <2>2, <2>7, <2>8, <2>9, <1>1, <1>22 DEF Kept
<1>24. CASE ~ back
  <2>1. node' = freed /\ i \in detached'
    BY <1>2, <1>24
  <2>2. over => gone /\ e = dst
    BY <1>3, <1>9, <1>11, <1>24
  <2>3. ASSUME NEW x \in DOMAIN freed
        PROVE  Fine(freed[x].kind, freed[x].nlink, To(freed, x), detached', x)
    <3>1. x \in DOMAIN node /\ ~ (over /\ x = dst)
      BY <2>2, <2>3, <1>11
    <3>2. /\ freed[x].kind = node[x].kind /\ freed[x].nlink = node[x].nlink
          /\ node[x].nlink \in Nat
          /\ Fine(node[x].kind, node[x].nlink, To(node, x), detached, x)
          /\ x \in detached => x \in detached'
      BY <2>3, <3>1, <1>1, <1>2, <1>11, <1>15, NodeIs
    <3>3. To(freed, x) \in SUBSET To(node, x)
      BY <1>20
    <3>4. To(freed, x) = To(node, x) \/ x \in detached'
      <4>1. CASE x \in orphans \/ x = i
        BY <4>1, <2>1, <1>2
      <4>2. CASE x \notin orphans /\ x # i
        <5>1. k \notin To(node, x)
          BY <4>2, <1>16
        <5>2. QED
          BY <4>2, <5>1, <1>19
      <4>3. QED
        BY <4>1, <4>2
    <3>5. QED
      BY <3>2, <3>3, <3>4, FineFewer
  <2>4. ASSUME NEW x, To(freed, x) # {} PROVE x \in DOMAIN freed \ {Root}
    <3>1. x \in DOMAIN node \ {Root}
      BY <2>4, <1>15, <1>20
    <3>2. gone => x # dst
      <4>1. SUFFICES ASSUME gone, x = dst PROVE FALSE
        OBVIOUS
      <4>2. PICK y : y \in To(freed, dst)
        BY <2>4, <4>1
      <4>3. y \in To(node, dst) /\ y[1] # dst
        BY <4>1, <4>2, <1>12
      <4>4. y = q
        BY <4>1, <4>3, <1>18
      <4>5. QED
        BY <4>1, <4>3, <4>4, <2>2, <1>4, <1>7
    <3>3. QED
      BY <3>1, <3>2, <1>11
  <2>5. Sound(freed, detached')
    BY <2>3, <2>4, <1>11, <1>21, SoundIs
  <2>6. Aged(node, nextIno, freed)
    BY <1>11 DEF Aged
  <2>7. Whole(freed, detached')
    <3>1. ASSUME NEW x \in DOMAIN node, x \notin detached'
          PROVE  To(node, x) \subseteq To(freed, x)
      BY <3>1, <2>1, <1>2, <1>16, <1>19
    <3>2. DOMAIN freed \ DOMAIN node = {}
      BY <1>11
    <3>3. QED
      BY <3>1, <3>2, <1>1, <1>2, <1>15, <1>21, WholeKept
  <2>8. QED
    BY <2>1, <2>5, <2>6, <2>7, <1>1, <1>11, <1>22 DEF Kept
<1>25. QED
  BY <1>23, <1>24
-----------------------------------------------------------------------------
(* The invariant. *)
LEMMA InvInit == Init => Inv
<1> SUFFICES ASSUME Init PROVE Inv
  OBVIOUS
<1>1. /\ node = With(<<>>, Root, Dir) /\ nextIno = 2 /\ detached = {}
      /\ creating = [c \in Callers |-> Nothing] /\ made = [c \in Callers |-> 0]
      /\ MaxIno \in Nat
  BY MemAssumption DEF Init
<1>2. DOMAIN node = {Root} /\ node[Root] = Dir /\ Root = 1
  BY <1>1, NoKids DEF With, Root
<1>3. Dir.kind = "dir" /\ Dir.nlink = 2 /\ Dir.kids = <<>> /\ Good(Dir, 2)
  BY NoKids DEF Dir, Good, Kinds
<1>4. Typed(node, nextIno) /\ nextIno <= MaxIno + 1
  BY <1>1, <1>2, <1>3, MemAssumption DEF Typed
<1>5. \A x : To(node, x) = {}
  BY <1>2, <1>3, NoKids DEF To
<1>6. Fine("dir", 2, {}, detached, Root)
  BY FS_EmptySet DEF Fine
<1>7. Sound(node, detached)
  BY <1>2, <1>3, <1>4, <1>5, <1>6, SoundIs
<1>8. Whole(node, detached)
  BY <1>2 DEF Whole
<1>9. QED
  BY <1>1, <1>4, <1>7, <1>8 DEF Inv, Pending

(* What an action leaves of the invariant apart from the table. *)
LEMMA InvKept ==
  ASSUME Inv, Kept, nextIno' \in Nat, nextIno' >= nextIno, nextIno' <= MaxIno + 1,
         creating' \in [Callers -> (Nat \X Names) \cup {Nothing}],
         made' \in [Callers -> 0..MaxIno],
         \A c \in Callers : creating'[c] # Nothing => creating'[c] = creating[c],
         detached' \subseteq 1..(nextIno' - 1)
  PROVE  Inv'
<1>1. ASSUME NEW c \in Callers, creating'[c] # Nothing
      PROVE  /\ creating'[c] \in (1..(nextIno' - 1)) \X Names
             /\ creating'[c][1] \in DOMAIN node' => node'[creating'[c][1]].kind = "dir"
  <2>1. /\ creating'[c] = creating[c] /\ nextIno \in Nat
        /\ creating[c] \in (1..(nextIno - 1)) \X Names
        /\ creating[c][1] \in DOMAIN node => node[creating[c][1]].kind = "dir"
    BY <1>1 DEF Inv, Pending, Typed
  <2>2. creating[c][1] \in 1..(nextIno - 1) /\ creating[c][2] \in Names
        /\ creating[c] = <<creating[c][1], creating[c][2]>>
    BY <2>1
  <2>3. creating[c][1] \in 1..(nextIno' - 1) /\ creating[c][1] < nextIno
    BY <2>1, <2>2
  <2>4. creating[c][1] \in DOMAIN node' =>
          creating[c][1] \in DOMAIN node /\ node'[creating[c][1]].kind = node[creating[c][1]].kind
    BY <2>3 DEF Kept, Aged
  <2>5. QED
    BY <2>1, <2>2, <2>3, <2>4
<1>2. Pending(node, nextIno)'
  BY <1>1 DEF Pending
<1>3. QED
  BY <1>2 DEF Inv, Kept

LEMMA Wider ==
  ASSUME NEW a \in Nat, NEW b \in Nat, b >= a
  PROVE  1..(a - 1) \subseteq 1..(b - 1)
OBVIOUS

LEMMA InvNext ==
  ASSUME Inv, Next
  PROVE  Inv'
<1>1. /\ Typed(node, nextIno) /\ Sound(node, detached) /\ Whole(node, detached)
      /\ nextIno \in Nat /\ nextIno <= MaxIno + 1 /\ MaxIno \in Nat
      /\ nextIno > 0 /\ creating \in [Callers -> (Nat \X Names) \cup {Nothing}]
      /\ made \in [Callers -> 0..MaxIno]
      /\ detached \subseteq 1..(nextIno - 1) /\ DOMAIN node \subseteq 1..(nextIno - 1)
  BY MemAssumption DEF Inv, Typed
<1>2. ASSUME nextIno' \in Nat, nextIno' >= nextIno, detached' = detached
      PROVE  detached' \subseteq 1..(nextIno' - 1)
  <2>1. 1..(nextIno - 1) \subseteq 1..(nextIno' - 1)
    BY <1>1, <1>2, Wider
  <2>2. QED
    BY <2>1, <1>1, <1>2
<1>3. CASE \E c \in Callers : CreateInsert(c)
  <2>1. PICK c \in Callers : CreateInsert(c)
    BY <1>3
  <2>2. Kept /\ detached' \subseteq 1..nextIno
    BY <2>1, CreateInsertKept
  <2>3. nextIno' = nextIno + 1 /\ nextIno' <= MaxIno + 1
        /\ creating' = [creating EXCEPT ![c] = Nothing] /\ nextIno <= MaxIno
    BY <2>1, <1>1 DEF CreateInsert
  <2>8. made' \in [Callers -> 0..MaxIno]
    <3>1. \/ made' = [made EXCEPT ![c] = nextIno]
          \/ made' = [made EXCEPT ![c] = 0]
      BY <2>1 DEF CreateInsert
    <3>2. nextIno \in 0..MaxIno /\ 0 \in 0..MaxIno
      BY <2>3, <1>1
    <3>3. QED
      BY <3>1, <3>2, <1>1
  <2>4. /\ creating' \in [Callers -> (Nat \X Names) \cup {Nothing}]
        /\ made' \in [Callers -> 0..MaxIno]
        /\ \A x \in Callers : creating'[x] # Nothing => creating'[x] = creating[x]
    BY <2>3, <2>8, <1>1
  <2>5. nextIno' \in Nat /\ nextIno' >= nextIno /\ 1..nextIno = 1..(nextIno' - 1)
    BY <2>3, <1>1
  <2>6. detached' \subseteq 1..(nextIno' - 1)
    BY <2>2, <2>5
  <2>7. QED
    BY <2>2, <2>3, <2>4, <2>5, <2>6, InvKept
<1>4. ASSUME NEW d \in Dirs, NEW n \in Names, Mkdir(d, n) PROVE Inv'
  <2>1. nextIno' = nextIno + 2 /\ nextIno < MaxIno /\ creating' = creating /\ made' = made
        /\ detached' = detached
    BY <1>4 DEF Mkdir
  <2>2. nextIno' \in Nat /\ nextIno' >= nextIno /\ nextIno' <= MaxIno + 1
    BY <2>1, <1>1
  <2>3. QED
    BY <2>1, <2>2, <1>1, <1>2, <1>4, MkdirKept, InvKept
<1>5. ASSUME NEW d \in Dirs, NEW n \in Names, Rmdir(d, n) PROVE Inv'
  <2>1. nextIno' = nextIno /\ creating' = creating /\ made' = made /\ detached' = detached
    BY <1>5 DEF Rmdir
  <2>2. nextIno' \in Nat /\ nextIno' >= nextIno /\ nextIno' <= MaxIno + 1
    BY <2>1, <1>1
  <2>3. QED
    BY <2>1, <2>2, <1>1, <1>2, <1>5, RmdirKept, InvKept
<1>6. ASSUME NEW d \in Dirs, NEW n \in Names, RmdirNotEmpty(d, n) PROVE Inv'
  <2>1. nextIno' = nextIno + 1 /\ nextIno <= MaxIno /\ creating' = creating /\ made' = made
        /\ detached' = detached
    BY <1>6 DEF RmdirNotEmpty
  <2>2. nextIno' \in Nat /\ nextIno' >= nextIno /\ nextIno' <= MaxIno + 1
    BY <2>1, <1>1
  <2>3. QED
    BY <2>1, <2>2, <1>1, <1>2, <1>6, RmdirNotEmptyKept, InvKept
<1>7. ASSUME NEW d \in Dirs, NEW n \in Names, Symlink(d, n) PROVE Inv'
  <2>1. nextIno' = nextIno + 1 /\ nextIno <= MaxIno /\ creating' = creating /\ made' = made
        /\ detached' = detached
    BY <1>7 DEF Symlink
  <2>2. nextIno' \in Nat /\ nextIno' >= nextIno /\ nextIno' <= MaxIno + 1
    BY <2>1, <1>1
  <2>3. QED
    BY <2>1, <2>2, <1>1, <1>2, <1>7, SymlinkKept, InvKept
<1>8. ASSUME NEW d \in Dirs, NEW n \in Names, NEW c \in Callers, CreateCheck(c, d, n)
      PROVE  Inv'
  <2>1. /\ node' = node /\ nextIno' = nextIno /\ detached' = detached /\ made' = made
        /\ creating' = [creating EXCEPT ![c] = <<d, n>>]
        /\ d \in DOMAIN node /\ node[d].kind = "dir"
    BY <1>8 DEF CreateCheck, Dirs, Live
  <2>2. d \in 1..(nextIno - 1) /\ d \in Nat
    BY <2>1, <1>1
  <2>3. creating' \in [Callers -> (Nat \X Names) \cup {Nothing}]
    BY <2>1, <2>2, <1>1
  <2>4. ASSUME NEW x \in Callers, creating'[x] # Nothing
        PROVE  /\ creating'[x] \in (1..(nextIno - 1)) \X Names
               /\ creating'[x][1] \in DOMAIN node => node[creating'[x][1]].kind = "dir"
    <3>1. CASE x = c
      BY <3>1, <2>1, <2>2, <1>1
    <3>2. CASE x # c
      <4>1. creating'[x] = creating[x]
        BY <3>2, <2>1, <1>1
      <4>2. QED
        BY <4>1, <2>4 DEF Inv, Pending
    <3>3. QED
      BY <3>1, <3>2
  <2>5. Pending(node, nextIno)'
    BY <2>1, <2>4 DEF Pending
  <2>6. Typed(node, nextIno)' /\ Sound(node, detached)' /\ Whole(node, detached)'
    BY <2>1, <1>1
  <2>7. QED
    BY <2>1, <2>3, <2>5, <2>6, <1>1 DEF Inv
<1>9. ASSUME NEW d \in Dirs, NEW n \in Names, NEW i \in Live, Link(i, d, n) PROVE Inv'
  <2>1. nextIno' = nextIno /\ creating' = creating /\ made' = made /\ detached' = detached
    BY <1>9 DEF Link
  <2>2. nextIno' \in Nat /\ nextIno' >= nextIno /\ nextIno' <= MaxIno + 1
    BY <2>1, <1>1
  <2>3. QED
    BY <2>1, <2>2, <1>1, <1>2, <1>9, LinkKept, InvKept
<1>10. ASSUME NEW d \in Dirs, NEW n \in Names, NEW e \in 1..MaxIno, NEW m \in Names,
              Rename(d, n, e, m)
       PROVE  Inv'
  <2>1. nextIno' = nextIno /\ creating' = creating /\ made' = made
    BY <1>10 DEF Rename
  <2>2. Kept /\ detached' \subseteq detached \cup DOMAIN node
    BY <1>10, RenameKept
  <2>3. detached' \subseteq 1..(nextIno' - 1)
    BY <2>1, <2>2, <1>1
  <2>4. nextIno' \in Nat /\ nextIno' >= nextIno /\ nextIno' <= MaxIno + 1
    BY <2>1, <1>1
  <2>5. QED
    BY <2>1, <2>2, <2>3, <2>4, <1>1, InvKept
<1>11. ASSUME NEW d \in Dirs, NEW n \in Names \cup {Keep}, Unlink(d, n) PROVE Inv'
  <2>1. /\ nextIno' = nextIno /\ creating' = creating
        /\ made' = made /\ detached' = detached /\ n \in AllNames
    BY <1>11 DEF Unlink, AllNames
  <2>2. nextIno' \in Nat /\ nextIno' >= nextIno /\ nextIno' <= MaxIno + 1
    BY <2>1, <1>1
  <2>3. QED
    BY <2>1, <2>2, <1>1, <1>2, <1>11, UnlinkKept, InvKept
<1>12. CASE \E c \in Callers : CreateAnswer(c)
  <2>1. PICK c \in Callers : CreateAnswer(c)
    BY <1>12
  <2>2. /\ node' = node /\ nextIno' = nextIno /\ detached' = detached /\ creating' = creating
        /\ made' = [made EXCEPT ![c] = 0]
    BY <2>1 DEF CreateAnswer
  <2>3. made' \in [Callers -> 0..MaxIno]
    BY <2>2, <1>1
  <2>4. QED
    BY <2>2, <2>3 DEF Inv, Pending
<1>13. QED
  BY <1>3, <1>4, <1>5, <1>6, <1>7, <1>8, <1>9, <1>10, <1>11, <1>12 DEF Next

LEMMA InvStutter ==
  ASSUME Inv, UNCHANGED vars
  PROVE  Inv'
BY DEF Inv, Pending, vars

(* Every reachable table is sound, and a caller between the two locks of   *)
(* create_file holds the number of a directory, if that is still there.    *)
THEOREM InvHolds == Spec => []Inv
<1>1. Inv /\ [Next]_vars => Inv'
  BY InvNext, InvStutter
<1>2. QED
  BY InvInit, <1>1, PTL DEF Spec
-----------------------------------------------------------------------------
LEMMA InvTypes == Inv => TypeOK
<1> SUFFICES ASSUME Inv PROVE TypeOK
  OBVIOUS
<1>1. /\ Typed(node, nextIno) /\ Sound(node, detached) /\ nextIno \in Nat /\ nextIno >= 2
      /\ nextIno <= MaxIno + 1 /\ MaxIno \in Nat
      /\ creating \in [Callers -> (Nat \X Names) \cup {Nothing}]
      /\ made \in [Callers -> 0..MaxIno] /\ detached \subseteq 1..(nextIno - 1)
  BY MemAssumption DEF Inv, Typed
<1>2. nextIno \in 2..(MaxIno + 1) /\ 1..(nextIno - 1) \subseteq 1..MaxIno
  BY <1>1
<1>3. Root \in Live /\ Live \subseteq 1..(nextIno - 1)
  BY <1>1 DEF Sound, Typed, Live
<1>4. ASSUME NEW i \in Live
      PROVE  /\ node[i].kind \in {"dir", "file", "symlink"}
             /\ node[i].nlink \in (IF i \in Dirs THEN 0..(MaxIno + 2) ELSE 1..MaxLinks)
             /\ DOMAIN node[i].kids \subseteq Names \cup {Keep}
             /\ i \notin Dirs => node[i].kids = <<>>
  <2>1. Good(node[i], nextIno) /\ (i \in Dirs <=> node[i].kind = "dir")
    BY <1>1 DEF Typed, Live, Dirs
  <2>2. /\ node[i].kind \in Kinds /\ node[i].nlink \in Nat /\ node[i].kids \in KidTables
        /\ node[i].kind = "dir" => node[i].nlink <= nextIno
        /\ node[i].kind # "dir" => node[i].nlink \in 1..MaxLinks /\ node[i].kids = <<>>
    BY <2>1 DEF Good
  <2>3. DOMAIN node[i].kids \subseteq Names \cup {Keep}
    BY <2>2, KidTableIs DEF AllNames
  <2>4. node[i].nlink \in (IF i \in Dirs THEN 0..(MaxIno + 2) ELSE 1..MaxLinks)
    <3>1. CASE i \in Dirs
      BY <3>1, <2>1, <2>2, <1>1
    <3>2. CASE i \notin Dirs
      BY <3>2, <2>1, <2>2
    <3>3. QED
      BY <3>1, <3>2
  <2>5. QED
    BY <2>1, <2>2, <2>3, <2>4 DEF Kinds
<1>5. creating \in [Callers -> ((1..MaxIno) \X Names) \cup {Nothing}]
  <2>1. ASSUME NEW c \in Callers, creating[c] # Nothing
        PROVE  creating[c] \in (1..MaxIno) \X Names
    <3>1. creating[c] \in (1..(nextIno - 1)) \X Names
      BY <2>1 DEF Inv, Pending
    <3>2. QED
      BY <3>1, <1>2
  <2>2. QED
    BY <2>1, <1>1
<1>6. detached \subseteq 1..MaxIno /\ made \in [Callers -> 0..MaxIno]
  BY <1>1, <1>2
<1>7. QED
  BY <1>2, <1>3, <1>4, <1>5, <1>6 DEF TypeOK

LEMMA EntriesAre ==
  ASSUME Inv, NEW i
  PROVE  Entries(i) = To(node, i)
<1>1. \A k \in To(node, i) : k[1] \in Dirs
  BY LeafHasNone DEF Inv, Dirs, Live
<1>2. \A k : k \in Entries(i) <=> k \in To(node, i)
  BY <1>1 DEF Entries, To, Dirs, Live, AllNames, Child
<1>3. QED
  BY <1>2

LEMMA InvLinks == Inv => LinksCounted
<1> SUFFICES ASSUME Inv PROVE LinksCounted
  OBVIOUS
<1>1. \A d \in Dirs : \A n \in DOMAIN node[d].kids : Child(d, n) \in Live
  BY DEF Inv, Sound, Closed, Kids, Dirs, Live, Child
<1>2. ASSUME NEW i \in Live \ Dirs
      PROVE  IF i \in detached THEN node[i].nlink >= Links(i) ELSE node[i].nlink = Links(i)
  <2>1. /\ node[i].kind # "dir"
        /\ Fine(node[i].kind, node[i].nlink, To(node, i), detached, i)
    BY <1>2 DEF Inv, Sound, Dirs, Live
  <2>2. Links(i) = Cardinality(To(node, i))
    BY EntriesAre DEF Links
  <2>3. QED
    BY <2>1, <2>2 DEF Fine
<1>3. QED
  BY <1>1, <1>2 DEF LinksCounted

LEMMA InvWhole ==
  ASSUME Inv
  PROVE  NothingLeaks
<1> DEFINE B == Below({Root} \cup detached)
           S == B \cap Live
<1>1. {Root} \cup detached \subseteq B /\ Shut(node, B)
  BY BelowIs DEF Inv
<1> HIDE DEF B
<1>2. Shut(node, S)
  BY <1>1 DEF Shut, Live
<1>3. S \in SUBSET DOMAIN node /\ Root \in S /\ detached \cap DOMAIN node \subseteq S
  BY <1>1 DEF Inv, Live, Sound
<1>4. S = DOMAIN node
  BY <1>2, <1>3 DEF Inv, Whole
<1>5. QED
  BY <1>4 DEF NothingLeaks, Live, B

(* The node table, the allocator and the callers in the middle of          *)
(* create_file keep their types; no link count wraps or reaches zero on a  *)
(* live leaf.                                                              *)
THEOREM TypeCorrect == Spec => []TypeOK
BY InvHolds, InvTypes, PTL

(* No entry leads nowhere, so that the unwrap() of a child found under the *)
(* same lock cannot panic, and a leaf is freed exactly with its last name, *)
(* unless it is detached.                                                  *)
THEOREM LinksRight == Spec => []LinksCounted
BY InvHolds, InvLinks, PTL

(* Nothing leaks: every inode can be reached from the root or from one     *)
(* that lost its entry without being removed. *)
THEOREM NoneLeaks == Spec => []NothingLeaks
BY InvHolds, InvWhole, PTL
=============================================================================
