-------------------------- MODULE NamespaceProofs --------------------------
(***************************************************************************)
(* Proofs about Namespace, for every number of inodes, names, links, rows  *)
(* and cached entries: the tables keep their types, link counts are right  *)
(* until a lookup is answered wrong, fs_remote has the path that the       *)
(* entries give, and a Delete in the queue is for a path no inode has.     *)
(*                                                                         *)
(* A request is several statements, and a pull may come between any two.   *)
(* RequestOK and PullOK say what each actor may rely on at its next        *)
(* statement.  Link counts are out of step with the entries in the midst   *)
(* of a request, so Sound is said of the Ledger: the entries, with a name  *)
(* for each link that is still to be taken away and without the name that  *)
(* is still to be counted.  A request that takes a name away only renames  *)
(* it in the ledger; one that finds the name led elsewhere by a pull loses *)
(* nothing of it.  A directory has at most one entry and two links as long *)
(* as it has that one, so what loses a link is never freed while an entry  *)
(* still leads to it.                                                      *)
(*                                                                         *)
(* Straight is about paths, on top of the others.  Trails stand for the    *)
(* ways up to the root, which Ways looks for a number of times: where a    *)
(* trail leads is said without a recursion, and it is kept unless an entry *)
(* on it goes.  An entry that goes takes the trails of what is below it,   *)
(* and that is what each statement says to stray; that Below reaches all   *)
(* of it, that Ways finds each trail and that none goes in circles         *)
(* (NoLoop) are lemmas of their own.  What a request enters again is kept  *)
(* Apart from where it is entered, until then.                             *)
(*                                                                         *)
(* Spared is about the last operation of a path in the queue, running or   *)
(* pending: a Delete that is still pending behind a Write is covered       *)
(* before DeleteSpares speaks of it.                                       *)
(***************************************************************************)
EXTENDS Namespace, FiniteSetTheorems, SequenceTheorems, WellFoundedInduction,
        TLAPS

AllNames == Names \cup {Private}
Kinds == {"dir", "file", "symlink"}
Most(kind) == IF kind = "dir" THEN 2 ELSE MaxLinks
Door == <<Root, Private>>    (* the entry of private/notes *)

(* The names that a request or a pull can ask for. *)
Keys(next) == (1..(next - 1)) \X Names

(* What holds of the tables even when a lookup was answered wrong. *)
Typed(nodes, next, dents, lru) ==
  /\ next \in Nat /\ next > Notes
  /\ DOMAIN nodes \subseteq 1..(next - 1) /\ Root \in DOMAIN nodes
  /\ \A i \in DOMAIN nodes : /\ nodes[i] \in [kind: Kinds, nlink: Nat \ {0}]
                             /\ nodes[i].nlink <= Most(nodes[i].kind)
  /\ DOMAIN dents \subseteq Keys(next) \cup {Door}
  /\ \A k \in DOMAIN dents : dents[k] \in 2..(next - 1)
  /\ \A k \in DOMAIN lru : lru[k] \in 2..(next - 1)

Named(dents, i) == {k \in DOMAIN dents : dents[k] = i}

Counted(nodes, dents, lost, i) ==
  IF i \in lost THEN nodes[i].nlink >= Cardinality(Named(dents, i))
  ELSE nodes[i].nlink = Cardinality(Named(dents, i))

(* What holds of them until then. *)
Sound(nodes, dents, lost) ==
  /\ IsFiniteSet(DOMAIN dents)
  /\ \A i \in {Root, Notes} : i \in DOMAIN nodes /\ nodes[i].kind = "dir"
  /\ Door \in DOMAIN dents /\ dents[Door] = Notes
  /\ \A k \in DOMAIN dents : dents[k] \in DOMAIN nodes \ {Root}
  /\ \A k \in DOMAIN dents : nodes[dents[k]].kind = "dir" =>
       nodes[dents[k]].nlink = 2 /\ Named(dents, dents[k]) = {k}
  /\ \A i \in DOMAIN nodes :
       nodes[i].kind # "dir" => Counted(nodes, dents, lost, i)
-----------------------------------------------------------------------------
(* The names of an inode after a new entry, and without one. *)
LEMMA NamedWith ==
  ASSUME NEW f, NEW k, NEW i, NEW x
  PROVE  Named(With(f, k, i), x) =
           IF x = i THEN Named(f, x) \cup {k} ELSE Named(f, x) \ {k}
BY DEF Named, With

LEMMA NamedWithout ==
  ASSUME NEW f, NEW k, NEW x
  PROVE  Named(Without(f, {k}), x) = Named(f, x) \ {k}
BY DEF Named, Without

LEMMA NamedFinite ==
  ASSUME NEW f, IsFiniteSet(DOMAIN f), NEW x
  PROVE  IsFiniteSet(Named(f, x)) /\ Cardinality(Named(f, x)) \in Nat
<1>1. Named(f, x) \in SUBSET DOMAIN f
  BY DEF Named
<1>2. IsFiniteSet(Named(f, x))
  BY <1>1, FS_Subset
<1>3. QED
  BY <1>2, FS_CardinalityType

(* The count of one link fewer. *)
Nodes(nodes) == \A j \in DOMAIN nodes : nodes[j] \in [kind: Kinds, nlink: Nat \ {0}]

OneFewer(nodes, i, new) ==
  /\ DOMAIN new = IF i \in DOMAIN nodes /\ nodes[i].nlink <= 1
                  THEN DOMAIN nodes \ {i} ELSE DOMAIN nodes
  /\ \A j \in DOMAIN new :
       /\ new[j] \in [kind: Kinds, nlink: Nat \ {0}]
       /\ new[j].kind = nodes[j].kind
       /\ new[j].nlink = IF j = i THEN nodes[j].nlink - 1 ELSE nodes[j].nlink

LEMMA DroppedIs ==
  ASSUME NEW nodes, NEW i, Nodes(nodes)
  PROVE  OneFewer(nodes, i, Dropped(nodes, i))
<1> USE DEF Nodes, OneFewer
<1>1. CASE i \notin DOMAIN nodes
  BY <1>1 DEF Dropped
<1>2. CASE i \in DOMAIN nodes /\ nodes[i].nlink <= 1
  <2>1. Dropped(nodes, i) = Without(nodes, {i})
    BY <1>2 DEF Dropped
  <2>2. QED
    BY <1>2, <2>1 DEF Without
<1>3. CASE i \in DOMAIN nodes /\ ~ nodes[i].nlink <= 1
  <2>1. Dropped(nodes, i) = [nodes EXCEPT ![i].nlink = @ - 1]
    BY <1>3 DEF Dropped
  <2>2. nodes[i].nlink - 1 \in Nat \ {0}
    BY <1>3
  <2>3. QED
    BY <1>3, <2>1, <2>2
<1>4. QED
  BY <1>1, <1>2, <1>3

(* ... and of one more. *)
OneMore(nodes, i, new) ==
  /\ DOMAIN new = DOMAIN nodes
  /\ \A j \in DOMAIN nodes :
       /\ new[j] \in [kind: Kinds, nlink: Nat \ {0}]
       /\ new[j].kind = nodes[j].kind
       /\ new[j].nlink = IF j = i THEN nodes[i].nlink + 1 ELSE nodes[j].nlink

LEMMA RaisedIs ==
  ASSUME NEW nodes, Nodes(nodes), NEW i \in DOMAIN nodes,
         NEW new, new = [nodes EXCEPT ![i].nlink = @ + 1]
  PROVE  OneMore(nodes, i, new)
<1>1. nodes[i] \in [kind: Kinds, nlink: Nat \ {0}] /\ nodes[i].nlink + 1 \in Nat \ {0}
  BY DEF Nodes
<1>2. QED
  BY <1>1 DEF Nodes, OneMore
-----------------------------------------------------------------------------
(* Each change of the tables keeps their types. *)
LEMMA TypedMake ==
  ASSUME NEW nodes, NEW next, NEW dents, NEW lru, Typed(nodes, next, dents, lru),
         NEW k \in Keys(next), NEW kind \in Kinds
  PROVE  Typed(With(nodes, next, [kind |-> kind, nlink |-> IF kind = "dir" THEN 2 ELSE 1]),
               next + 1, With(dents, k, next), lru)
<1> DEFINE new == [kind |-> kind, nlink |-> IF kind = "dir" THEN 2 ELSE 1]
           nodes2 == With(nodes, next, new)
           dents2 == With(dents, k, next)
<1>1. next \in Nat /\ next > Notes /\ next + 1 \in Nat /\ next + 1 > Notes
  BY DEF Typed, Notes
<1>2. 1..(next - 1) \subseteq 1..(next + 1 - 1) /\ next \in 2..(next + 1 - 1)
      /\ next \in 1..(next + 1 - 1) /\ 2..(next - 1) \subseteq 2..(next + 1 - 1)
  BY <1>1 DEF Notes
<1>3. new \in [kind: Kinds, nlink: Nat \ {0}] /\ new.nlink <= Most(new.kind)
  BY NamespaceAssumption DEF Most
<1> HIDE DEF new
<1>4. /\ DOMAIN nodes2 = DOMAIN nodes \cup {next} /\ nodes2[next] = new
      /\ \A y \in DOMAIN nodes : y # next => nodes2[y] = nodes[y]
  BY DEF With
<1>5. /\ DOMAIN dents2 = DOMAIN dents \cup {k} /\ dents2[k] = next
      /\ \A y \in DOMAIN dents : y # k => dents2[y] = dents[y]
  BY DEF With
<1> HIDE DEF nodes2, dents2
<1>6. \A i \in DOMAIN nodes2 : /\ nodes2[i] \in [kind: Kinds, nlink: Nat \ {0}]
                               /\ nodes2[i].nlink <= Most(nodes2[i].kind)
  BY <1>3, <1>4 DEF Typed
<1>7. DOMAIN nodes2 \subseteq 1..(next + 1 - 1) /\ Root \in DOMAIN nodes2
  BY <1>2, <1>4 DEF Typed
<1>8. DOMAIN dents2 \subseteq Keys(next + 1) \cup {Door}
  BY <1>2, <1>5 DEF Typed, Keys
<1>9. \A y \in DOMAIN dents2 : dents2[y] \in 2..(next + 1 - 1)
  BY <1>2, <1>5 DEF Typed
<1>10. \A y \in DOMAIN lru : lru[y] \in 2..(next + 1 - 1)
  BY <1>2 DEF Typed
<1>11. QED
  BY <1>1, <1>6, <1>7, <1>8, <1>9, <1>10 DEF Typed, nodes2, dents2, new

LEMMA TypedLooked ==
  ASSUME NEW nodes, NEW next, NEW dents, NEW lru, Typed(nodes, next, dents, lru),
         NEW k, NEW S
  PROVE  Typed(nodes, next, dents, Without(FilledIn(k, lru, dents), S))
<1>1. \A y \in DOMAIN FilledIn(k, lru, dents) :
        FilledIn(k, lru, dents)[y] \in 2..(next - 1)
  <2>1. CASE k \in DOMAIN lru \/ k \notin DOMAIN dents
    BY <2>1 DEF FilledIn, Typed
  <2>2. CASE k \notin DOMAIN lru /\ k \in DOMAIN dents
    <3>1. FilledIn(k, lru, dents) = With(lru, k, dents[k])
      BY <2>2 DEF FilledIn
    <3>2. QED
      BY <2>2, <3>1 DEF Typed, With
  <2>3. QED
    BY <2>1, <2>2
<1>2. QED
  BY <1>1 DEF Typed, Without

LEMMA TypedCut ==
  ASSUME NEW nodes, NEW next, NEW dents, NEW lru, Typed(nodes, next, dents, lru), NEW k
  PROVE  Typed(nodes, next, Without(dents, {k}), lru)
BY DEF Typed, Without

LEMMA TypedDropped ==
  ASSUME NEW nodes, NEW next, NEW dents, NEW lru, Typed(nodes, next, dents, lru),
         NEW i, i # Root
  PROVE  Typed(Dropped(nodes, i), next, dents, lru)
<1> DEFINE new == Dropped(nodes, i)
<1>1. Nodes(nodes) /\ Root \in DOMAIN nodes
  BY DEF Typed, Nodes
<1>2. OneFewer(nodes, i, new)
  BY <1>1, DroppedIs
<1> HIDE DEF new
<1>3. ASSUME NEW j \in DOMAIN new PROVE new[j].nlink <= Most(new[j].kind)
  <2>1. /\ nodes[j].nlink \in Nat /\ nodes[j].nlink <= Most(nodes[j].kind)
        /\ new[j].kind = nodes[j].kind
        /\ new[j].nlink = nodes[j].nlink \/ new[j].nlink = nodes[j].nlink - 1
    BY <1>1, <1>2 DEF Typed, Nodes, OneFewer
  <2>2. Most(nodes[j].kind) \in Nat
    BY NamespaceAssumption DEF Most
  <2>3. QED
    BY <2>1, <2>2
<1>4. /\ DOMAIN new \subseteq DOMAIN nodes /\ Root \in DOMAIN new
      /\ \A j \in DOMAIN new : new[j] \in [kind: Kinds, nlink: Nat \ {0}]
  BY <1>1, <1>2 DEF OneFewer
<1>5. QED
  BY <1>3, <1>4 DEF Typed, new

LEMMA TypedEntry ==
  ASSUME NEW nodes, NEW next, NEW dents, NEW lru, Typed(nodes, next, dents, lru),
         NEW k \in Keys(next), NEW i \in 2..(next - 1)
  PROVE  Typed(nodes, next, With(dents, k, i), lru)
<1>1. /\ DOMAIN With(dents, k, i) \subseteq Keys(next) \cup {Door}
      /\ \A y \in DOMAIN With(dents, k, i) : With(dents, k, i)[y] \in 2..(next - 1)
  BY DEF Typed, With
<1>2. QED
  BY <1>1 DEF Typed

LEMMA TypedLinked ==
  ASSUME NEW nodes, NEW next, NEW dents, NEW lru, Typed(nodes, next, dents, lru),
         NEW i \in DOMAIN nodes, nodes[i].kind # "dir", nodes[i].nlink < MaxLinks,
         NEW new, OneMore(nodes, i, new)
  PROVE  Typed(new, next, dents, lru)
<1>1. \A j \in DOMAIN nodes : /\ nodes[j] \in [kind: Kinds, nlink: Nat \ {0}]
                              /\ nodes[j].nlink <= Most(nodes[j].kind)
  BY DEF Typed
<1>2. nodes[i].nlink + 1 <= MaxLinks
  BY <1>1, NamespaceAssumption
<1>3. \A j \in DOMAIN new : new[j].nlink <= Most(new[j].kind)
  BY <1>1, <1>2 DEF Most, OneMore
<1>4. QED
  BY <1>3 DEF Typed, OneMore
-----------------------------------------------------------------------------
(* Each change of the tables keeps them sound.  A new inode, under a new   *)
(* name or over an entry, whose inode loses its name:                      *)
LEMMA SoundMake ==
  ASSUME NEW nodes, NEW next, NEW dents, Nodes(nodes), next \notin DOMAIN nodes,
         NEW lost, Sound(nodes, dents, lost),
         NEW k, k # Door, NEW kind \in Kinds,
         NEW lost2, lost2 = lost \cup (IF k \in DOMAIN dents THEN {dents[k]} ELSE {})
  PROVE  Sound(With(nodes, next, [kind |-> kind, nlink |-> IF kind = "dir" THEN 2 ELSE 1]),
               With(dents, k, next), lost2)
<1> DEFINE new == [kind |-> kind, nlink |-> IF kind = "dir" THEN 2 ELSE 1]
           nodes2 == With(nodes, next, new)
           dents2 == With(dents, k, next)
<1>1. next \notin DOMAIN nodes
  OBVIOUS
<1>2. new.kind = kind /\ new.nlink = IF kind = "dir" THEN 2 ELSE 1
  OBVIOUS
<1> HIDE DEF new
<1>3. /\ DOMAIN nodes2 = DOMAIN nodes \cup {next} /\ nodes2[next] = new
      /\ \A y \in DOMAIN nodes : nodes2[y] = nodes[y]
  BY <1>1 DEF With
<1>4. /\ DOMAIN dents2 = DOMAIN dents \cup {k} /\ dents2[k] = next
      /\ \A y \in DOMAIN dents : y # k => dents2[y] = dents[y]
  BY DEF With
<1>5. \A x : Named(dents2, x) = IF x = next THEN Named(dents, x) \cup {k}
                                ELSE Named(dents, x) \ {k}
  BY NamedWith
<1> HIDE DEF nodes2, dents2
<1>6. IsFiniteSet(DOMAIN dents2)
  BY <1>4, FS_AddElement DEF Sound
<1>7. Named(dents, next) = {}
  BY <1>1 DEF Named, Sound
<1>8. Named(dents2, next) = {k} /\ Cardinality({k}) = 1
  BY <1>5, <1>7, FS_Singleton
<1>9. \A i \in {Root, Notes} : i \in DOMAIN nodes2 /\ nodes2[i].kind = "dir"
  BY <1>3 DEF Sound
<1>10. Door \in DOMAIN dents2 /\ dents2[Door] = Notes
  BY <1>4 DEF Sound
<1>11. \A y \in DOMAIN dents2 : dents2[y] \in DOMAIN nodes2 \ {Root}
  <2>1. next # Root
    BY <1>1 DEF Sound
  <2>2. QED
    BY <2>1, <1>3, <1>4 DEF Sound
<1>12. ASSUME NEW y \in DOMAIN dents2, nodes2[dents2[y]].kind = "dir"
       PROVE  nodes2[dents2[y]].nlink = 2 /\ Named(dents2, dents2[y]) = {y}
  <2>1. CASE y = k
    BY <2>1, <1>2, <1>3, <1>4, <1>8, <1>12
  <2>2. CASE y # k
    <3> DEFINE i == dents[y]
    <3>1. y \in DOMAIN dents /\ dents2[y] = i /\ i \in DOMAIN nodes /\ i # next
      BY <2>2, <1>1, <1>4 DEF Sound
    <3>2. nodes2[i] = nodes[i]
      BY <3>1, <1>3
    <3>3. nodes[i].nlink = 2 /\ Named(dents, i) = {y}
      BY <3>1, <3>2, <1>12 DEF Sound
    <3> HIDE DEF i
    <3>4. QED
      BY <2>2, <3>1, <3>2, <3>3, <1>5
  <2>3. QED
    BY <2>1, <2>2
<1>13. ASSUME NEW i \in DOMAIN nodes2, nodes2[i].kind # "dir"
       PROVE  Counted(nodes2, dents2, lost2, i)
  <2>1. CASE i = next
    BY <2>1, <1>2, <1>3, <1>8, <1>13 DEF Counted
  <2>2. CASE i # next
    <3>1. i \in DOMAIN nodes /\ nodes2[i] = nodes[i] /\ nodes[i].nlink \in Nat
      BY <2>2, <1>3 DEF Nodes
    <3>2. Counted(nodes, dents, lost, i)
      BY <3>1, <1>13 DEF Sound
    <3>3. Named(dents2, i) = Named(dents, i) \ {k} /\ IsFiniteSet(Named(dents, i))
          /\ Cardinality(Named(dents, i)) \in Nat
      BY <2>2, <1>5, NamedFinite DEF Sound
    <3>4. CASE k \in Named(dents, i)
      <4>1. Cardinality(Named(dents2, i)) = Cardinality(Named(dents, i)) - 1
        BY <3>3, <3>4, FS_RemoveElement
      <4>2. i \in lost2
        BY <3>4 DEF Named
      <4>3. nodes[i].nlink >= Cardinality(Named(dents, i))
        BY <3>1, <3>2, <3>3 DEF Counted
      <4>4. QED
        BY <3>1, <3>3, <4>1, <4>2, <4>3 DEF Counted
    <3>5. CASE k \notin Named(dents, i)
      <4>1. Named(dents2, i) = Named(dents, i)
        BY <3>3, <3>5
      <4>2. i \in lost2 <=> i \in lost
        <5>1. k \in DOMAIN dents => dents[k] # i
          BY <3>5 DEF Named
        <5>2. QED
          BY <5>1
      <4>3. QED
        BY <3>1, <3>2, <4>1, <4>2 DEF Counted
    <3>6. QED
      BY <3>4, <3>5
  <2>3. QED
    BY <2>1, <2>2
<1>14. QED
  BY <1>6, <1>9, <1>10, <1>11, <1>12, <1>13 DEF Sound, nodes2, dents2, new

(* An entry goes, and a link of its inode:                                 *)
LEMMA SoundUnlink ==
  ASSUME NEW nodes, NEW dents, Nodes(nodes), NEW lost, Sound(nodes, dents, lost),
         NEW k \in DOMAIN dents, k # Door
  PROVE  Sound(Dropped(nodes, dents[k]), Without(dents, {k}), lost)
<1> DEFINE i == dents[k]
           new == Dropped(nodes, i)
           cut == Without(dents, {k})
<1>1. Nodes(nodes)
  OBVIOUS
<1>2. OneFewer(nodes, i, new)
  BY <1>1, DroppedIs
<1>3. /\ DOMAIN cut = DOMAIN dents \ {k}
      /\ \A y \in DOMAIN cut : cut[y] = dents[y]
  BY DEF Without
<1>4. \A x : Named(cut, x) = Named(dents, x) \ {k}
  BY NamedWithout
<1>5. /\ i \in DOMAIN nodes \ {Root} /\ k \in Named(dents, i)
      /\ \A y \in DOMAIN dents : y \in Named(dents, dents[y])
  BY DEF Sound, Named
<1> HIDE DEF i, new, cut
<1>6. IsFiniteSet(DOMAIN cut)
  BY <1>3, FS_RemoveElement DEF Sound
<1>7. nodes[i].kind = "dir" => nodes[i].nlink = 2 /\ Named(dents, i) = {k}
  BY <1>5 DEF Sound, i
<1>8. i # Notes
  BY <1>5, <1>7 DEF Sound
(* An inode that is freed had no other entry. *)
<1>9. ASSUME NEW y \in DOMAIN cut PROVE cut[y] \in DOMAIN new
  <2>1. y \in DOMAIN dents /\ y # k /\ cut[y] = dents[y]
    BY <1>3
  <2>2. CASE dents[y] # i
    BY <2>1, <2>2, <1>2 DEF OneFewer, Sound
  <2>3. CASE dents[y] = i
    <3>1. y \in Named(dents, i) /\ nodes[i].kind # "dir"
      BY <2>1, <2>3, <1>5, <1>7
    <3>2. Counted(nodes, dents, lost, i)
      BY <3>1, <1>5 DEF Sound
    <3>3. /\ IsFiniteSet(Named(dents, i))
          /\ Cardinality(Named(dents, i)) \in Nat
      BY NamedFinite DEF Sound
    <3>4. Cardinality(Named(dents, i)) >= 2
      <4>1. IsFiniteSet(Named(dents, i) \ {k})
            /\ Cardinality(Named(dents, i) \ {k}) = Cardinality(Named(dents, i)) - 1
        BY <3>3, <1>5, FS_RemoveElement
      <4>2. Named(dents, i) \ {k} # {}
        BY <2>1, <3>1
      <4>3. Cardinality(Named(dents, i) \ {k}) # 0
        BY <4>1, <4>2, FS_EmptySet
      <4>4. Cardinality(Named(dents, i) \ {k}) \in Nat
        BY <4>1, FS_CardinalityType
      <4>5. QED
        BY <4>1, <4>3, <4>4, <3>3
    <3>5. nodes[i].nlink \in Nat
      BY <1>1, <1>5 DEF Nodes
    <3>6. nodes[i].nlink >= 2
      BY <3>2, <3>3, <3>4, <3>5 DEF Counted
    <3>7. QED
      BY <2>1, <2>3, <3>5, <3>6, <1>2, <1>5 DEF OneFewer
  <2>4. QED
    BY <2>2, <2>3
<1>10. \A j \in {Root, Notes} : j \in DOMAIN new /\ new[j].kind = "dir"
  BY <1>2, <1>5, <1>8 DEF Sound, OneFewer
<1>11. Door \in DOMAIN cut /\ cut[Door] = Notes
  BY <1>3 DEF Sound
<1>12. \A y \in DOMAIN cut : cut[y] \in DOMAIN new \ {Root}
  BY <1>3, <1>9 DEF Sound
<1>13. ASSUME NEW y \in DOMAIN cut, new[cut[y]].kind = "dir"
       PROVE  new[cut[y]].nlink = 2 /\ Named(cut, cut[y]) = {y}
  <2> DEFINE j == dents[y]
  <2>1. y \in DOMAIN dents /\ y # k /\ cut[y] = j /\ j \in DOMAIN new
    BY <1>3, <1>9
  <2>2. nodes[j].kind = "dir"
    BY <2>1, <1>2, <1>13 DEF OneFewer
  <2>3. nodes[j].nlink = 2 /\ Named(dents, j) = {y}
    BY <2>1, <2>2 DEF Sound
  <2> HIDE DEF j
  <2>4. j # i
    BY <2>1, <2>3, <1>5
  <2>5. QED
    BY <2>1, <2>3, <2>4, <1>2, <1>4 DEF OneFewer
<1>14. ASSUME NEW j \in DOMAIN new, new[j].kind # "dir"
       PROVE  Counted(new, cut, lost, j)
  <2>1. /\ j \in DOMAIN nodes /\ nodes[j].kind # "dir" /\ nodes[j].nlink \in Nat
        /\ new[j].nlink = IF j = i THEN nodes[j].nlink - 1 ELSE nodes[j].nlink
    BY <1>1, <1>2, <1>14 DEF OneFewer, Nodes
  <2>2. Counted(nodes, dents, lost, j)
    BY <2>1 DEF Sound
  <2>3. /\ IsFiniteSet(Named(dents, j)) /\ Cardinality(Named(dents, j)) \in Nat
        /\ Named(cut, j) = Named(dents, j) \ {k}
    BY <1>4, NamedFinite DEF Sound
  <2>4. k \in Named(dents, j) <=> j = i
    BY <1>5 DEF Named, i
  <2>5. Cardinality(Named(cut, j)) =
          IF j = i THEN Cardinality(Named(dents, j)) - 1 ELSE Cardinality(Named(dents, j))
    BY <2>3, <2>4, FS_RemoveElement
  <2>6. QED
    BY <2>1, <2>2, <2>3, <2>5 DEF Counted
<1>15. QED
  BY <1>6, <1>10, <1>11, <1>12, <1>13, <1>14 DEF Sound, i, new, cut

(* A file gets a further name:                                             *)
LEMMA SoundLink ==
  ASSUME NEW nodes, NEW dents, Nodes(nodes),
         NEW lost, Sound(nodes, dents, lost), NEW k, k \notin DOMAIN dents,
         NEW i \in DOMAIN nodes, nodes[i].kind # "dir",
         NEW new, OneMore(nodes, i, new)
  PROVE  Sound(new, With(dents, k, i), lost)
<1> DEFINE dents2 == With(dents, k, i)
<1>1. /\ DOMAIN new = DOMAIN nodes
      /\ \A j \in DOMAIN nodes : /\ new[j].kind = nodes[j].kind
                                 /\ new[j].nlink = IF j = i THEN nodes[i].nlink + 1
                                                   ELSE nodes[j].nlink
  BY DEF OneMore
<1>2. /\ DOMAIN dents2 = DOMAIN dents \cup {k} /\ dents2[k] = i
      /\ \A y \in DOMAIN dents : dents2[y] = dents[y]
  BY DEF With
<1>3. \A x : Named(dents2, x) = IF x = i THEN Named(dents, x) \cup {k}
                                ELSE Named(dents, x) \ {k}
  BY NamedWith
<1>4. \A x : k \notin Named(dents, x)
  BY DEF Named
<1> HIDE DEF dents2
<1>5. IsFiniteSet(DOMAIN dents2)
  BY <1>2, FS_AddElement DEF Sound
<1>6. \A j \in {Root, Notes} : j \in DOMAIN new /\ new[j].kind = "dir"
  BY <1>1 DEF Sound
<1>7. Door \in DOMAIN dents2 /\ dents2[Door] = Notes
  BY <1>2 DEF Sound
<1>8. \A y \in DOMAIN dents2 : dents2[y] \in DOMAIN new \ {Root}
  BY <1>1, <1>2 DEF Sound
<1>9. ASSUME NEW y \in DOMAIN dents2, new[dents2[y]].kind = "dir"
      PROVE  new[dents2[y]].nlink = 2 /\ Named(dents2, dents2[y]) = {y}
  <2> DEFINE j == dents2[y]
  <2>1. j \in DOMAIN nodes /\ nodes[j].kind = "dir"
    BY <1>1, <1>8, <1>9
  <2>2. y \in DOMAIN dents /\ j = dents[y] /\ j # i
    BY <2>1, <1>2
  <2>3. nodes[j].nlink = 2 /\ Named(dents, j) = {y}
    BY <2>1, <2>2 DEF Sound
  <2> HIDE DEF j
  <2>4. new[j].nlink = 2 /\ Named(dents2, j) = {y}
    BY <2>1, <2>2, <2>3, <1>1, <1>3, <1>4
  <2>5. QED
    BY <2>4 DEF j
<1>10. ASSUME NEW j \in DOMAIN new, new[j].kind # "dir"
       PROVE  Counted(new, dents2, lost, j)
  <2>1. /\ j \in DOMAIN nodes /\ nodes[j].kind # "dir" /\ nodes[j].nlink \in Nat
        /\ new[j].nlink = IF j = i THEN nodes[j].nlink + 1 ELSE nodes[j].nlink
    BY <1>1, <1>10 DEF Nodes
  <2>2. Counted(nodes, dents, lost, j)
    BY <2>1 DEF Sound
  <2>3. IsFiniteSet(Named(dents, j)) /\ Cardinality(Named(dents, j)) \in Nat
    BY NamedFinite DEF Sound
  <2>4. Cardinality(Named(dents2, j)) =
          IF j = i THEN Cardinality(Named(dents, j)) + 1 ELSE Cardinality(Named(dents, j))
    <3>1. CASE j = i
      <4>1. Named(dents2, j) = Named(dents, j) \cup {k}
        BY <3>1, <1>3
      <4>2. QED
        BY <3>1, <4>1, <2>3, <1>4, FS_AddElement
    <3>2. CASE j # i
      <4>1. Named(dents2, j) = Named(dents, j)
        BY <3>2, <1>3, <1>4
      <4>2. QED
        BY <3>2, <4>1
    <3>3. QED
      BY <3>1, <3>2
  <2>5. QED
    BY <2>1, <2>2, <2>3, <2>4 DEF Counted
<1>11. QED
  BY <1>5, <1>6, <1>7, <1>8, <1>9, <1>10 DEF Sound, dents2

(* An entry gets another name:                                             *)
LEMMA SoundRekey ==
  ASSUME NEW nodes, NEW dents, NEW lost, Sound(nodes, dents, lost),
         NEW k \in DOMAIN dents, k # Door, NEW l, l \notin DOMAIN dents
  PROVE  Sound(nodes, With(Without(dents, {k}), l, dents[k]), lost)
<1> DEFINE i == dents[k]
           new == With(Without(dents, {k}), l, i)
<1>1. /\ DOMAIN new = (DOMAIN dents \ {k}) \cup {l} /\ new[l] = i
      /\ \A y \in DOMAIN dents : y # k => y \in DOMAIN new /\ y # l /\ new[y] = dents[y]
  BY DEF With, Without
<1>2. \A x : Named(new, x) = IF x = i THEN (Named(dents, x) \ {k}) \cup {l}
                             ELSE Named(dents, x)
  BY <1>1 DEF Named
<1>3. k \in Named(dents, i) /\ \A x : l \notin Named(dents, x)
  BY DEF Named
<1> HIDE DEF new, i
<1>4. IsFiniteSet(DOMAIN new)
  <2>1. IsFiniteSet(DOMAIN dents \ {k})
    BY FS_RemoveElement DEF Sound
  <2>2. QED
    BY <2>1, <1>1, FS_AddElement
<1>5. Door \in DOMAIN new /\ new[Door] = Notes
  BY <1>1 DEF Sound
<1>6. \A y \in DOMAIN new : new[y] \in DOMAIN nodes \ {Root}
  BY <1>1 DEF Sound, i
<1>7. ASSUME NEW y \in DOMAIN new, nodes[new[y]].kind = "dir"
      PROVE  nodes[new[y]].nlink = 2 /\ Named(new, new[y]) = {y}
  <2>1. CASE y = l
    <3>1. nodes[i].nlink = 2 /\ Named(dents, i) = {k}
      BY <2>1, <1>1, <1>7 DEF Sound, i
    <3>2. Named(new, i) = {l}
      BY <3>1, <1>2
    <3>3. QED
      BY <2>1, <3>1, <3>2, <1>1
  <2>2. CASE y # l
    <3>1. y \in DOMAIN dents /\ y # k /\ new[y] = dents[y]
      BY <2>2, <1>1
    <3>2. nodes[dents[y]].nlink = 2 /\ Named(dents, dents[y]) = {y}
      BY <3>1, <1>7 DEF Sound
    <3>3. dents[y] # i
      BY <3>1, <3>2, <1>3
    <3>4. QED
      BY <3>1, <3>2, <3>3, <1>2
  <2>3. QED
    BY <2>1, <2>2
<1>8. ASSUME NEW j \in DOMAIN nodes, nodes[j].kind # "dir"
      PROVE  Counted(nodes, new, lost, j)
  <2>1. Counted(nodes, dents, lost, j)
    BY <1>8 DEF Sound
  <2>2. Cardinality(Named(new, j)) = Cardinality(Named(dents, j))
    <3>1. IsFiniteSet(Named(dents, j)) /\ Cardinality(Named(dents, j)) \in Nat
      BY NamedFinite DEF Sound
    <3>2. CASE j = i
      <4>1. /\ IsFiniteSet(Named(dents, j) \ {k})
            /\ Cardinality(Named(dents, j) \ {k}) = Cardinality(Named(dents, j)) - 1
        BY <3>1, <3>2, <1>3, FS_RemoveElement
      <4>2. l \notin Named(dents, j) \ {k}
        BY <1>3
      <4>3. Cardinality((Named(dents, j) \ {k}) \cup {l})
              = Cardinality(Named(dents, j) \ {k}) + 1
        BY <4>1, <4>2, FS_AddElement
      <4>4. QED
        BY <3>1, <3>2, <4>1, <4>3, <1>2
    <3>3. CASE j # i
      BY <3>3, <1>2
    <3>4. QED
      BY <3>2, <3>3
  <2>3. QED
    BY <2>1, <2>2 DEF Counted
<1>9. QED
  BY <1>4, <1>5, <1>6, <1>7, <1>8 DEF Sound, new, i

(* More inodes are said to have lost an entry:                             *)
LEMMA SoundMore ==
  ASSUME NEW nodes, NEW dents, Nodes(nodes), NEW lost, Sound(nodes, dents, lost),
         NEW lost2, lost \subseteq lost2
  PROVE  Sound(nodes, dents, lost2)
<1>1. ASSUME NEW j \in DOMAIN nodes, nodes[j].kind # "dir"
      PROVE  Counted(nodes, dents, lost2, j)
  <2>1. Counted(nodes, dents, lost, j) /\ nodes[j].nlink \in Nat
    BY <1>1 DEF Sound, Nodes
  <2>2. Cardinality(Named(dents, j)) \in Nat
    BY NamedFinite DEF Sound
  <2>3. QED
    BY <2>1, <2>2 DEF Counted
<1>2. QED
  BY <1>1 DEF Sound

(* An entry goes, and its inode, unless a directory, is said to have lost  *)
(* it:                                                                     *)
LEMMA SoundLose ==
  ASSUME NEW nodes, NEW dents, Nodes(nodes), NEW lost, Sound(nodes, dents, lost),
         NEW k, k # Door, NEW lost2, lost \subseteq lost2,
         k \in DOMAIN dents => nodes[dents[k]].kind = "dir" \/ dents[k] \in lost2
  PROVE  Sound(nodes, Without(dents, {k}), lost2)
<1> DEFINE new == Without(dents, {k})
<1>1. DOMAIN new = DOMAIN dents \ {k} /\ \A y \in DOMAIN new : new[y] = dents[y]
  BY DEF Without
<1>2. \A x : Named(new, x) = Named(dents, x) \ {k}
  BY NamedWithout
<1>3. Sound(nodes, dents, lost2)
  BY SoundMore
<1> HIDE DEF new
<1>4. IsFiniteSet(DOMAIN new)
  BY <1>1, FS_RemoveElement DEF Sound
<1>5. Door \in DOMAIN new /\ new[Door] = Notes
  BY <1>1 DEF Sound
<1>6. \A y \in DOMAIN new : new[y] \in DOMAIN nodes \ {Root}
  BY <1>1 DEF Sound
<1>7. ASSUME NEW y \in DOMAIN new, nodes[new[y]].kind = "dir"
      PROVE  nodes[new[y]].nlink = 2 /\ Named(new, new[y]) = {y}
  <2>1. y \in DOMAIN dents /\ y # k /\ new[y] = dents[y]
    BY <1>1
  <2>2. nodes[dents[y]].nlink = 2 /\ Named(dents, dents[y]) = {y}
    BY <2>1, <1>7 DEF Sound
  <2>3. QED
    BY <2>1, <2>2, <1>2
<1>8. ASSUME NEW j \in DOMAIN nodes, nodes[j].kind # "dir"
      PROVE  Counted(nodes, new, lost2, j)
  <2>1. Counted(nodes, dents, lost2, j) /\ nodes[j].nlink \in Nat
    BY <1>8, <1>3 DEF Sound, Nodes
  <2>2. IsFiniteSet(Named(dents, j)) /\ Cardinality(Named(dents, j)) \in Nat
    BY NamedFinite DEF Sound
  <2>3. CASE k \in Named(dents, j)
    <3>1. Cardinality(Named(new, j)) = Cardinality(Named(dents, j)) - 1
      BY <2>2, <2>3, <1>2, FS_RemoveElement
    <3>2. j \in lost2
      BY <2>3, <1>8 DEF Named
    <3>3. QED
      BY <2>1, <2>2, <3>1, <3>2 DEF Counted
  <2>4. CASE k \notin Named(dents, j)
    <3>1. Named(new, j) = Named(dents, j)
      BY <2>4, <1>2
    <3>2. QED
      BY <2>1, <3>1 DEF Counted
  <2>5. QED
    BY <2>3, <2>4
<1>9. QED
  BY <1>3, <1>4, <1>5, <1>6, <1>7, <1>8 DEF Sound, new

(* A file that has lost an entry gets a link:                              *)
LEMMA SoundRaise ==
  ASSUME NEW nodes, NEW dents, Nodes(nodes), NEW lost, Sound(nodes, dents, lost),
         NEW i \in DOMAIN nodes, nodes[i].kind # "dir", i \in lost,
         NEW new, OneMore(nodes, i, new)
  PROVE  Sound(new, dents, lost)
<1>1. /\ DOMAIN new = DOMAIN nodes
      /\ \A j \in DOMAIN nodes :
           /\ nodes[j].nlink \in Nat /\ new[j].kind = nodes[j].kind
           /\ new[j].nlink = IF j = i THEN nodes[i].nlink + 1 ELSE nodes[j].nlink
  BY DEF Nodes, OneMore
<1>2. ASSUME NEW j \in DOMAIN new, new[j].kind # "dir"
      PROVE  Counted(new, dents, lost, j)
  <2>1. Counted(nodes, dents, lost, j)
    BY <1>1, <1>2 DEF Sound
  <2>2. Cardinality(Named(dents, j)) \in Nat
    BY NamedFinite DEF Sound
  <2>3. QED
    BY <2>1, <2>2, <1>1 DEF Counted
<1>3. \A k \in DOMAIN dents : new[dents[k]].kind = "dir" =>
        new[dents[k]].nlink = 2 /\ Named(dents, dents[k]) = {k}
  BY <1>1 DEF Sound
<1>4. QED
  BY <1>1, <1>2, <1>3 DEF Sound
-----------------------------------------------------------------------------
(* A request takes a name out of the table and lowers the count of its     *)
(* inode later, or enters a name and counts it later.  The ledger is the   *)
(* table with what the request has in hand: it has a name more for an      *)
(* inode that lost one (or whose name the pull took away before), and is   *)
(* without a name that is not counted yet.                                 *)
HandKey == <<NoIno, NoIno>>   (* the name in hand of req.ino *)
OldKey == <<NoIno, Root>>     (* ... and of req.old          *)

LeadsTo(dents, k, i) == k \in DOMAIN dents /\ dents[k] = i

(* The stages with a name that is looked up, after it went, of a rename,   *)
(* and of a flush.                                                         *)
Keyed == {"check", "path", "find", "forget", "delete", "remove", "cut"}
Taken == {"seek", "clear", "lower", "source", "rename", "move"}
Moving == {"cut"} \cup Taken
Writing == {"record", "write"}
Stages == {"idle", "make", "drop", "link", "count"} \cup Keyed \cup Taken \cup Writing

InoHeld(dents, pos, r) ==
  \/ pos \in {"drop"} \cup Taken
  \/ pos \in Keyed /\ ~ LeadsTo(dents, r.key, r.ino)
OldHeld(dents, pos, r) ==
  \/ pos = "lower"
  \/ pos = "clear" /\ ~ LeadsTo(dents, r.to, r.old)
Uncounted(dents, pos, r) == pos = "count" /\ LeadsTo(dents, r.key, r.ino)

Ledger(dents, pos, r) ==
  [k \in {x \in DOMAIN dents : ~ (Uncounted(dents, pos, r) /\ x = r.key)}
           \cup {x \in {HandKey} : InoHeld(dents, pos, r)}
           \cup {x \in {OldKey} : OldHeld(dents, pos, r)} |->
     IF k = HandKey THEN r.ino ELSE IF k = OldKey THEN r.old ELSE dents[k]]

(* What the session thread knows of its request while no lookup was        *)
(* answered wrong.                                                         *)
Fields == {"key", "to", "ino", "old", "path", "kind"}

RequestOK ==
  /\ DOMAIN req = Fields /\ at \in Stages
  /\ at = "make" => req.kind \in Kinds
  /\ at \in Keyed \cup {"make", "link", "count"} => req.key \in Keys(nextIno)
  /\ at \in Moving => req.to \in Keys(nextIno) /\ ~ LeadsTo(dentry, req.to, req.ino)
  /\ at = "cut" => req.key # req.to
  /\ at \notin {"idle", "make"} => req.ino \in DOMAIN inode \ {Root}
  /\ at \in {"clear", "lower"} => req.old \in DOMAIN inode \ {Root, req.ino}
  /\ at \in {"link", "count"} =>
       inode[req.ino].kind # "dir" /\ inode[req.ino].nlink < MaxLinks
  /\ at = "link" => ~ LeadsTo(dentry, req.key, req.ino)
  /\ at = "count" => LeadsTo(dentry, req.key, req.ino) \/ req.ino \in replaced
  /\ at = "check" => inode[req.ino].kind = "dir"
  /\ at \in Writing => inode[req.ino].kind = "file"
  /\ at \in {"find", "forget", "delete", "rename"} \cup Writing => IsPath(req.path)

(* What the pull knows of its document. *)
PullOK ==
  /\ DOMAIN pull = {"path", "level", "dir", "ino"}
  /\ stage \in {"idle", "ensure", "mkdir", "resolve", "insert", "record"}
  /\ stage # "idle" =>
       /\ IsPath(pull.path) /\ pull.level \in 2..Len(pull.path)
       /\ pull.dir \in 1..(nextIno - 1)
  /\ stage = "mkdir" => ~ AtName
  /\ stage \in {"insert", "record"} => AtName
  /\ stage = "record" =>
       /\ pull.ino \in 2..(nextIno - 1)
       /\ pull.ino \in DOMAIN inode => inode[pull.ino].kind = "file"

Tabled ==
  /\ Typed(inode, nextIno, dentry, cache) /\ nextIno <= MaxIno + 1
  /\ DOMAIN remote \subseteq 2..(nextIno - 1)
  /\ misled \in BOOLEAN

Balanced == Sound(inode, Ledger(dentry, at, req), replaced)

-----------------------------------------------------------------------------
(* What a lookup answers. *)
LEMMA SeenIs ==
  ASSUME NEW nodes, NEW next, NEW dents, NEW lru, Typed(nodes, next, dents, lru), NEW k
  PROVE  /\ SeenIn(k, lru, dents) = NoIno \/ SeenIn(k, lru, dents) \in 2..(next - 1)
         /\ SeenIn(k, lru, dents) = NoIno => k \notin DOMAIN lru /\ k \notin DOMAIN dents
         /\ ~ WrongIn(k, lru, dents) =>
              SeenIn(k, lru, dents) = IF k \in DOMAIN dents THEN dents[k] ELSE NoIno
<1>1. NoIno \notin 2..(next - 1)
  BY DEF NoIno
<1>2. CASE k \in DOMAIN lru
  <2>1. SeenIn(k, lru, dents) = lru[k] /\ lru[k] \in 2..(next - 1)
    BY <1>2 DEF SeenIn, Typed
  <2>2. QED
    BY <1>1, <1>2, <2>1 DEF WrongIn
<1>3. CASE k \notin DOMAIN lru /\ k \in DOMAIN dents
  <2>1. SeenIn(k, lru, dents) = dents[k] /\ dents[k] \in 2..(next - 1)
    BY <1>3 DEF SeenIn, Typed
  <2>2. QED
    BY <1>1, <1>3, <2>1
<1>4. CASE k \notin DOMAIN lru /\ k \notin DOMAIN dents
  BY <1>4 DEF SeenIn
<1>5. QED
  BY <1>2, <1>3, <1>4

(* A name that a request asks for is not that of private/notes, and        *)
(* neither is a name outside the table.                                    *)
LEMMA KeyIs ==
  ASSUME NEW next \in Nat, NEW k \in Keys(next)
  PROVE  k # Door /\ k # HandKey /\ k # OldKey /\ k[1] \in 1..(next - 1)
<1>1. k[1] \in 1..(next - 1) /\ k[2] \in Names
  BY DEF Keys
<1>2. k[1] # NoIno /\ k[2] # Private
  BY <1>1, NamespaceAssumption DEF NoIno
<1>3. Door[2] = Private /\ HandKey[1] = NoIno /\ OldKey[1] = NoIno
  BY DEF Door, HandKey, OldKey
<1>4. QED
  BY <1>1, <1>2, <1>3

LEMMA HandKeys ==
  ASSUME NEW nodes, NEW next, NEW dents, NEW lru, Typed(nodes, next, dents, lru)
  PROVE  /\ HandKey \notin DOMAIN dents /\ OldKey \notin DOMAIN dents
         /\ HandKey # OldKey /\ HandKey # Door /\ OldKey # Door
<1>1. next \in Nat /\ DOMAIN dents \subseteq Keys(next) \cup {Door}
  BY DEF Typed
<1>2. HandKey[1] = 0 /\ OldKey[1] = 0 /\ Door[1] = 1 /\ HandKey[2] = 0 /\ OldKey[2] = 1
  BY DEF HandKey, OldKey, Door, NoIno, Root
<1>3. HandKey # OldKey /\ HandKey # Door /\ OldKey # Door
  BY <1>2
<1>4. QED
  BY <1>1, <1>3, KeyIs
-----------------------------------------------------------------------------
(* The same entries are as sound. *)
LEMMA SoundSame ==
  ASSUME NEW nodes, NEW dents, NEW lost, Sound(nodes, dents, lost),
         NEW new, DOMAIN new = DOMAIN dents, \A k \in DOMAIN dents : new[k] = dents[k]
  PROVE  Sound(nodes, new, lost)
<1>1. \A i : Named(new, i) = Named(dents, i)
  BY DEF Named
<1>2. \A i : Counted(nodes, new, lost, i) <=> Counted(nodes, dents, lost, i)
  BY <1>1 DEF Counted
<1>3. \A k \in DOMAIN new : nodes[new[k]].kind = "dir" =>
        nodes[new[k]].nlink = 2 /\ Named(new, new[k]) = {k}
  BY <1>1 DEF Sound
<1>4. QED
  BY <1>2, <1>3 DEF Sound

(* Name k is taken from the table into the hand, at h: if it led to i it   *)
(* does so there, and if not, i is in the hand already.                    *)
IsTaken(dents, k, h, i, lost, new) ==
  /\ k # Door /\ h # k
  /\ IF LeadsTo(dents, k, i) THEN h \notin DOMAIN dents ELSE LeadsTo(dents, h, i)
  /\ k \in DOMAIN dents /\ dents[k] # i => dents[k] \in lost
  /\ DOMAIN new = (DOMAIN dents \ {k}) \cup {h}
  /\ \A y \in DOMAIN new : new[y] = IF y = h THEN i ELSE dents[y]

LEMMA SoundTaken ==
  ASSUME NEW nodes, NEW dents, Nodes(nodes), NEW lost, Sound(nodes, dents, lost),
         NEW k, NEW h, NEW i, NEW lost2, lost \subseteq lost2,
         NEW new, IsTaken(dents, k, h, i, lost2, new)
  PROVE  Sound(nodes, new, lost2)
<1> USE DEF IsTaken
<1>1. CASE LeadsTo(dents, k, i)
  <2> DEFINE moved == With(Without(dents, {k}), h, dents[k])
  <2>1. k \in DOMAIN dents /\ dents[k] = i /\ h \notin DOMAIN dents
    BY <1>1 DEF LeadsTo
  <2>2. Sound(nodes, moved, lost)
    BY <2>1, SoundRekey
  <2>3. DOMAIN new = DOMAIN moved /\ \A y \in DOMAIN moved : new[y] = moved[y]
    BY <2>1 DEF With, Without
  <2> HIDE DEF moved
  <2>4. Sound(nodes, new, lost)
    BY <2>2, <2>3, SoundSame
  <2>5. QED
    BY <2>4, SoundMore
<1>2. CASE ~ LeadsTo(dents, k, i)
  <2>1. h \in DOMAIN dents /\ dents[h] = i /\ (k \in DOMAIN dents => dents[k] \in lost2)
    BY <1>2 DEF LeadsTo
  <2>2. Sound(nodes, Without(dents, {k}), lost2)
    BY <2>1, SoundLose
  <2>3. /\ DOMAIN new = DOMAIN Without(dents, {k})
        /\ \A y \in DOMAIN Without(dents, {k}) : new[y] = Without(dents, {k})[y]
    BY <2>1 DEF Without
  <2>4. QED
    BY <2>2, <2>3, SoundSame
<1>3. QED
  BY <1>1, <1>2

(* A new inode is entered under k, and what k led to is in hand, at h.     *)
IsOusted(dents, k, h, next, new) ==
  /\ k \in DOMAIN dents /\ k # Door /\ h # k /\ h \notin DOMAIN dents
  /\ DOMAIN new = DOMAIN dents \cup {h}
  /\ \A y \in DOMAIN new :
       new[y] = IF y = h THEN dents[k] ELSE IF y = k THEN next ELSE dents[y]

LEMMA SoundOusted ==
  ASSUME NEW nodes, NEW next, NEW dents, Nodes(nodes), next \notin DOMAIN nodes,
         NEW lost, Sound(nodes, dents, lost), NEW kind \in Kinds,
         NEW lost2, lost \subseteq lost2,
         NEW k, NEW h, NEW new, IsOusted(dents, k, h, next, new)
  PROVE  Sound(With(nodes, next, [kind |-> kind, nlink |-> IF kind = "dir" THEN 2 ELSE 1]),
               new, lost2)
<1> USE DEF IsOusted
<1> DEFINE moved == With(Without(dents, {k}), h, dents[k])
           nodes2 == With(nodes, next, [kind |-> kind, nlink |-> IF kind = "dir" THEN 2 ELSE 1])
<1>1. Sound(nodes, moved, lost)
  BY SoundRekey
<1>2. k \notin DOMAIN moved
  BY DEF With, Without
<1>3. DOMAIN new = DOMAIN With(moved, k, next)
      /\ \A y \in DOMAIN With(moved, k, next) : new[y] = With(moved, k, next)[y]
  BY DEF With, Without
<1> HIDE DEF moved
<1>4. lost = lost \cup (IF k \in DOMAIN moved THEN {moved[k]} ELSE {})
  BY <1>2
<1>5. Sound(nodes2, With(moved, k, next), lost)
  BY <1>1, <1>4, SoundMake
<1>6. Nodes(nodes2)
  <2>1. [kind |-> kind, nlink |-> IF kind = "dir" THEN 2 ELSE 1]
          \in [kind: Kinds, nlink: Nat \ {0}]
    OBVIOUS
  <2>2. QED
    BY <2>1 DEF Nodes, With
<1> HIDE DEF nodes2
<1>7. Sound(nodes2, new, lost)
  BY <1>3, <1>5, SoundSame
<1>8. Sound(nodes2, new, lost2)
  BY <1>6, <1>7, SoundMore
<1>9. QED
  BY <1>8 DEF nodes2
-----------------------------------------------------------------------------
(* Each kind of statement keeps the types of the tables. *)
LEMMA LooksTabled ==
  ASSUME Tabled, NEW k, Looks(k), UNCHANGED <<tree, remote>>
  PROVE  Tabled'
<1>1. PICK S : cache' = Without(FilledIn(k, cache, dentry), S)
  BY DEF Looks, Filled
<1>2. misled' = (misled \/ WrongIn(k, cache, dentry)) /\ misled' \in BOOLEAN
  BY DEF Looks, Wrong, WrongIn
<1>3. Typed(inode, nextIno, dentry, cache')
  BY <1>1, TypedLooked DEF Tabled
<1>4. QED
  BY <1>2, <1>3 DEF Tabled, tree

LEMMA MakesTabled ==
  ASSUME Tabled, NEW k \in Keys(nextIno), NEW kind \in Kinds, Makes(k, kind),
         UNCHANGED <<cache, remote, misled>>
  PROVE  Tabled'
<1>1. Typed(inode', nextIno', dentry', cache')
  BY TypedMake DEF Tabled, Makes, Inserts
<1>2. nextIno \in Nat /\ nextIno' = nextIno + 1 /\ nextIno <= MaxIno /\ MaxIno \in Nat
  BY NamespaceAssumption DEF Tabled, Typed, Makes
<1>3. 2..(nextIno - 1) \subseteq 2..(nextIno' - 1) /\ nextIno' <= MaxIno + 1
  BY <1>2
<1>4. QED
  BY <1>1, <1>3 DEF Tabled

LEMMA CutTabled ==
  ASSUME Tabled, NEW k, dentry' = Without(dentry, {k}),
         UNCHANGED <<inode, nextIno, cache, remote, misled>>
  PROVE  Tabled'
<1>1. Typed(inode', nextIno', dentry', cache')
  BY TypedCut DEF Tabled
<1>2. QED
  BY <1>1 DEF Tabled

LEMMA EntryTabled ==
  ASSUME Tabled, NEW k \in Keys(nextIno), NEW i \in DOMAIN inode \ {Root},
         dentry' = With(dentry, k, i),
         UNCHANGED <<inode, nextIno, cache, remote, misled>>
  PROVE  Tabled'
<1>1. i \in 2..(nextIno - 1)
  <2>1. i \in 1..(nextIno - 1) /\ nextIno \in Nat /\ i # 1
    BY DEF Tabled, Typed, Root
  <2>2. QED
    BY <2>1
<1>2. Typed(inode', nextIno', dentry', cache')
  BY <1>1, TypedEntry DEF Tabled
<1>3. QED
  BY <1>2 DEF Tabled

LEMMA DropsTabled ==
  ASSUME Tabled, NEW i \in DOMAIN inode \ {Root}, Drops(i),
         UNCHANGED <<nextIno, dentry, cache, misled>>
  PROVE  Tabled'
<1>1. inode' = Dropped(inode, i) /\ remote' = Forgotten(remote, i)
  BY DEF Drops
<1>2. Typed(inode', nextIno', dentry', cache')
  BY <1>1, TypedDropped DEF Tabled
<1>3. DOMAIN remote' \subseteq DOMAIN remote
  BY <1>1 DEF Forgotten, Without
<1>4. QED
  BY <1>2, <1>3 DEF Tabled

LEMMA CountTabled ==
  ASSUME Tabled, NEW i \in DOMAIN inode, inode[i].kind # "dir", inode[i].nlink < MaxLinks,
         inode' = [inode EXCEPT ![i].nlink = @ + 1],
         UNCHANGED <<nextIno, dentry, cache, remote, misled>>
  PROVE  Tabled' /\ OneMore(inode, i, inode')
<1>1. Typed(inode, nextIno, dentry, cache) /\ Nodes(inode)
  BY DEF Tabled, Typed, Nodes
<1>2. OneMore(inode, i, inode')
  BY <1>1, RaisedIs
<1>3. Typed(inode', nextIno, dentry, cache)
  BY <1>1, <1>2, TypedLinked
<1>4. QED
  BY <1>2, <1>3 DEF Tabled

LEMMA RemoteTabled ==
  ASSUME Tabled, UNCHANGED <<tree, cache, misled>>,
         DOMAIN remote' \subseteq 2..(nextIno - 1)
  PROVE  Tabled'
BY DEF Tabled, tree

(* The name that the pull is at. *)
LEMMA ComponentIs ==
  ASSUME Tabled, PullOK, stage # "idle"
  PROVE  Component \in Keys(nextIno)
<1>1. /\ pull.path \in Seq(AllNames) /\ pull.level \in 2..Len(pull.path)
      /\ \A c \in 2..Len(pull.path) : pull.path[c] \in Names
      /\ pull.dir \in 1..(nextIno - 1)
  BY DEF PullOK, IsPath, AllNames
<1>2. pull.path[pull.level] \in Names
  BY <1>1
<1>3. QED
  BY <1>1, <1>2 DEF Component, Keys

LEMMA KeyOf ==
  ASSUME Tabled, NEW d \in Dirs, NEW n \in Names
  PROVE  <<d, n>> \in Keys(nextIno)
BY DEF Tabled, Typed, Dirs, Live, Keys

LEMMA RequestTabled ==
  ASSUME Tabled, Request
  PROVE  Tabled'
<1>1. ASSUME NEW k, Looks(k), UNCHANGED <<tree, remote>> PROVE Tabled'
  BY <1>1, LooksTabled
<1>2. ASSUME NEW d \in Dirs, NEW n \in Names,
             \/ Lookup(d, n) \/ Mkdir(d, n) \/ CreateFile(d, n) \/ Symlink(d, n)
             \/ Rmdir(d, n) \/ Unlink(d, n)
      PROVE  Tabled'
  <2>1. Looks(<<d, n>>) /\ UNCHANGED <<tree, remote>>
    BY <1>2 DEF Lookup, Mkdir, CreateFile, Symlink, MakeLooks, Rmdir, Unlink
  <2>2. QED
    BY <2>1, <1>1
<1>3. ASSUME NEW d, NEW n, NEW i, Link(i, d, n) PROVE Tabled'
  BY <1>1, <1>3 DEF Link
<1>4. ASSUME NEW d, NEW n, NEW e, NEW m, Rename(d, n, e, m) PROVE Tabled'
  BY <1>1, <1>4 DEF Rename
<1>5. ASSUME NEW i, Flush(i) PROVE Tabled'
  BY <1>5, RemoteTabled DEF Flush, Tabled
<1>6. QED
  BY <1>2, <1>3, <1>4, <1>5 DEF Request

LEMMA ProceedTabled ==
  ASSUME Tabled, RequestOK, Proceed
  PROVE  Tabled'
<1>1. CASE MakeInserts
  BY <1>1, MakesTabled DEF MakeInserts, RequestOK
<1>2. CASE \/ RmdirChecks \/ UnlinkPath \/ UnlinkFinds \/ UnlinkForgets \/ UnlinkEnqueues
           \/ RenamePath \/ RenameEnqueues \/ FlushEnqueues
  <2>1. UNCHANGED <<tree, cache, misled>> /\ DOMAIN remote' \subseteq DOMAIN remote
    BY <1>2 DEF RmdirChecks, UnlinkPath, UnlinkFinds, UnlinkForgets, UnlinkEnqueues,
       RenamePath, RenameEnqueues, FlushEnqueues, Without
  <2>2. QED
    BY <2>1, RemoteTabled DEF Tabled
<1>3. CASE RequestRemoves \/ RenameRemoves \/ RenameClears
  BY <1>3, CutTabled DEF RequestRemoves, RenameRemoves, RenameClears, Removes
<1>4. CASE RequestDrops
  BY <1>4, DropsTabled DEF RequestDrops, RequestOK
<1>5. CASE RenameDrops
  BY <1>5, DropsTabled DEF RenameDrops, RequestOK
<1>6. CASE LinkInserts
  BY <1>6, EntryTabled DEF LinkInserts, Inserts, RequestOK
<1>7. CASE LinkCounts
  BY <1>7, CountTabled DEF LinkCounts, RequestOK
<1>8. CASE RenameSeeks
  BY <1>8, LooksTabled DEF RenameSeeks
<1>9. CASE RenameInserts
  BY <1>9, EntryTabled DEF RenameInserts, Inserts, RequestOK, Moving, Taken
<1>10. CASE FlushRecords
  <2>1. DOMAIN remote' = DOMAIN remote \cup {req.ino} /\ UNCHANGED <<tree, cache, misled>>
    BY <1>10 DEF FlushRecords, With
  <2>2. req.ino \in DOMAIN inode \ {Root}
    BY <1>10 DEF FlushRecords, RequestOK
  <2>3. req.ino \in 1..(nextIno - 1) /\ nextIno \in Nat /\ req.ino # 1
    BY <2>2 DEF Tabled, Typed, Root
  <2>4. QED
    BY <2>1, <2>3, RemoteTabled DEF Tabled
<1>11. QED
  BY <1>1, <1>2, <1>3, <1>4, <1>5, <1>6, <1>7, <1>8, <1>9, <1>10 DEF Proceed

LEMMA PullingTabled ==
  ASSUME Tabled, PullOK, Pulling
  PROVE  Tabled'
<1>1. CASE (\E p \in brain : PullBegins(p)) \/ PullEnsured
  BY <1>1, RemoteTabled DEF PullBegins, PullEnsured, Tabled
<1>2. CASE PullEnsures \/ PullResolves \/ PullLooks
  BY <1>2, LooksTabled DEF PullEnsures, PullResolves, PullLooks
<1>3. CASE PullMakesDir
  BY <1>3, ComponentIs, MakesTabled DEF PullMakesDir, Kinds
<1>4. CASE PullInserts
  BY <1>4, ComponentIs, MakesTabled DEF PullInserts, Kinds
<1>5. CASE PullRecords
  <2>1. DOMAIN remote' = DOMAIN remote \cup {pull.ino} /\ UNCHANGED <<tree, cache, misled>>
    BY <1>5 DEF PullRecords, With
  <2>2. pull.ino \in 2..(nextIno - 1)
    BY <1>5 DEF PullRecords, PullOK
  <2>3. QED
    BY <2>1, <2>2, RemoteTabled DEF Tabled
<1>6. QED
  BY <1>1, <1>2, <1>3, <1>4, <1>5 DEF Pulling

LEMMA PushingTabled ==
  ASSUME Tabled, Pushing
  PROVE  Tabled'
<1>1. UNCHANGED <<tree, cache, misled>> /\ DOMAIN remote' \subseteq DOMAIN remote
  BY DEF Pushing, PushClaim, PushExecutes, PushFinalizes, PushFinds, PushForgets, Without
<1>2. QED
  BY <1>1, RemoteTabled DEF Tabled
-----------------------------------------------------------------------------
(* No inode is below itself: of any inodes with names one has none in      *)
(* another of them.                                                        *)
NoLoop(dents) ==
  \A S \in SUBSET {dents[k] : k \in DOMAIN dents} :
    (\A x \in S : \E k \in Named(dents, x) : k[1] \in S) => S = {}

(* With an inode a set has all that is in it. *)
Shut(dents, B) == \A k \in DOMAIN dents : k[1] \in B => dents[k] \in B

(* Entries are not lost. *)
Kept(dents, new) == \A k \in DOMAIN dents : k \in DOMAIN new /\ new[k] = dents[k]

LEMMA LoopIs ==
  ASSUME NEW dents, NoLoop(dents), NEW S,
         \A x \in S : \E k \in Named(dents, x) : k[1] \in S
  PROVE  S = {}
<1>1. S \in SUBSET {dents[k] : k \in DOMAIN dents}
  BY DEF Named
<1>2. QED
  BY <1>1 DEF NoLoop

LEMMA LoopCut ==
  ASSUME NEW dents, NoLoop(dents), NEW k
  PROVE  NoLoop(Without(dents, {k}))
<1> SUFFICES ASSUME NEW S, \A x \in S :
                      \E e \in Named(Without(dents, {k}), x) : e[1] \in S
             PROVE  S = {}
  BY DEF NoLoop
<1>1. \A x : Named(Without(dents, {k}), x) \subseteq Named(dents, x)
  BY DEF Named, Without
<1>2. \A x \in S : \E e \in Named(dents, x) : e[1] \in S
  BY <1>1
<1>3. QED
  BY <1>2, LoopIs

(* A new entry for an inode makes no loop when it is not below that inode. *)
LEMMA LoopPut ==
  ASSUME NEW dents, NoLoop(dents), NEW B, Shut(dents, B),
         NEW i \in B, NEW l, l[1] \notin B
  PROVE  NoLoop(With(dents, l, i))
<1> DEFINE new == With(dents, l, i)
<1>1. \A x : Named(new, x) = IF x = i THEN Named(dents, x) \cup {l}
                             ELSE Named(dents, x) \ {l}
  BY NamedWith
<1> HIDE DEF new
<1> SUFFICES ASSUME NEW S, \A x \in S : \E e \in Named(new, x) : e[1] \in S
             PROVE  S = {}
  BY DEF NoLoop, new
<1>2. ASSUME NEW x \in S \ B
      PROVE  \E e \in Named(dents, x) : e[1] \in S \ B
  <2>1. PICK e \in Named(new, x) : e[1] \in S
    OBVIOUS
  <2>2. e \in Named(dents, x)
    BY <2>1, <1>1
  <2>3. e[1] \notin B
    BY <2>2 DEF Named, Shut
  <2>4. QED
    BY <2>1, <2>2, <2>3
<1>3. S \subseteq B
  <2>1. S \ B = {}
    BY <1>2, LoopIs
  <2>2. QED
    BY <2>1
<1>4. ASSUME NEW x \in S
      PROVE  \E e \in Named(dents, x) : e[1] \in S
  BY <1>1, <1>3
<1>5. QED
  BY <1>4, LoopIs

(* Such as one for a new inode. *)
LEMMA LoopNew ==
  ASSUME NEW nodes, NEW next, NEW dents, NEW lru, Typed(nodes, next, dents, lru),
         NoLoop(dents), NEW k, k[1] # next
  PROVE  NoLoop(With(dents, k, next))
<1>1. next \in Nat /\ next > 2
  BY DEF Typed, Notes
<1>2. \A x \in DOMAIN dents : x[1] # next
  <2>1. \A x \in Keys(next) : x[1] \in 1..(next - 1)
    BY DEF Keys
  <2>2. Door[1] = 1
    BY DEF Door, Root
  <2>3. QED
    BY <1>1, <2>1, <2>2 DEF Typed
<1>3. Shut(dents, {next})
  BY <1>2 DEF Shut
<1>4. QED
  BY <1>3, LoopPut
(* Induction, for a set instead of an operator.                            *)
LEMMA Induction ==
  ASSUME NEW T, 0 \in T, \A n \in Nat : n \in T => n + 1 \in T
  PROVE  Nat \subseteq T
<1> SUFFICES ASSUME ~ Nat \subseteq T PROVE FALSE
  OBVIOUS
<1> DEFINE U == Nat \ T
<1>1. PICK x \in U : \A y \in U : ~ (<<y, x>> \in OpToRel(<, Nat))
  BY WFMin, NatLessThanWellFounded, Zenon
<1>2. x \in Nat /\ x # 0 /\ x \notin T
  OBVIOUS
<1>3. x - 1 \in Nat /\ x - 1 < x /\ (x - 1) + 1 = x
  BY <1>2
<1>4. <<x - 1, x>> \in OpToRel(<, Nat)
  BY <1>2, <1>3 DEF OpToRel
<1>5. x - 1 \in T
  BY <1>1, <1>3, <1>4
<1>6. QED
  BY <1>2, <1>3, <1>5

-----------------------------------------------------------------------------
(* Below takes the step from a directory to its entries often enough: of   *)
(* MaxIno inodes none is left that has not been reached.                   *)
Onward(R) == R \cup {dentry[e] : e \in {x \in DOMAIN dentry : x[1] \in R}}

Reaching(f, i, n) == f = [k \in 0..n |-> IF k = 0 THEN {i} ELSE Onward(f[k - 1])]

LEMMA ReachingExists ==
  ASSUME NEW i
  PROVE  \A n \in Nat : \E g : Reaching(g, i, n)
<1> DEFINE T == {n \in Nat : \E g : Reaching(g, i, n)}
<1>1. 0 \in T
  <2> DEFINE g == [k \in 0..0 |-> {i}]
  <2>1. \A k \in 0..0 : k = 0 /\ g[k] = {i}
    OBVIOUS
  <2>2. g = [k \in 0..0 |-> g[k]]
    OBVIOUS
  <2> HIDE DEF g
  <2>3. Reaching(g, i, 0)
    BY <2>1, <2>2 DEF Reaching
  <2>4. QED
    BY <2>3
<1>2. ASSUME NEW n \in Nat, n \in T PROVE n + 1 \in T
  <2>1. PICK g : Reaching(g, i, n)
    BY <1>2
  <2> DEFINE h == [k \in 0..(n + 1) |-> IF k <= n THEN g[k] ELSE Onward(g[n])]
  <2>2. \A k \in 0..n : g[k] = IF k = 0 THEN {i} ELSE Onward(g[k - 1])
    BY <2>1 DEF Reaching
  <2>3. ASSUME NEW k \in 0..(n + 1)
        PROVE  h[k] = IF k = 0 THEN {i} ELSE Onward(h[k - 1])
    <3>1. CASE k <= n
      <4>1. h[k] = g[k] /\ (k # 0 => h[k - 1] = g[k - 1])
        BY <3>1
      <4>2. k \in 0..n
        BY <3>1
      <4> HIDE DEF h
      <4>3. QED
        BY <4>1, <4>2, <2>2
    <3>2. CASE k = n + 1
      <4>1. h[k] = Onward(g[n]) /\ h[k - 1] = g[n] /\ k # 0
        BY <3>2
      <4> HIDE DEF h
      <4>2. QED
        BY <4>1
    <3>3. QED
      BY <3>1, <3>2
  <2>4. h = [k \in 0..(n + 1) |-> h[k]]
    OBVIOUS
  <2> HIDE DEF h
  <2>5. Reaching(h, i, n + 1)
    BY <2>3, <2>4 DEF Reaching
  <2>6. QED
    BY <2>5
<1> HIDE DEF T
<1>3. Nat \subseteq T
  BY <1>1, <1>2, Induction
<1>4. QED
  BY <1>3 DEF T

LEMMA BelowFrom ==
  ASSUME NEW i, NEW g, Reaching(g, i, MaxIno)
  PROVE  \E f : Reaching(f, i, MaxIno) /\ Below(i) = f[MaxIno]
<1> DEFINE reach[k \in 0..MaxIno] ==
             IF k = 0 THEN {i}
             ELSE LET r == reach[k - 1]
                  IN r \cup {dentry[e] : e \in {x \in DOMAIN dentry : x[1] \in r}}
<1>1. Below(i) = reach[MaxIno]
  BY DEF Below
<1>2. Reaching(reach, i, MaxIno)
  BY DEF Reaching, Onward
<1> HIDE DEF reach
<1>3. QED
  BY <1>1, <1>2

LEMMA OnwardIs ==
  ASSUME Tabled, NEW R \in SUBSET (1..MaxIno)
  PROVE  /\ R \subseteq Onward(R) /\ Onward(R) \in SUBSET (1..MaxIno)
         /\ Onward(R) \subseteq R => Shut(dentry, R)
         /\ \A y \in Onward(R) \ R : \E k \in Named(dentry, y) : k[1] \in R
<1>1. R \subseteq Onward(R)
  BY DEF Onward
<1>2. \A k \in DOMAIN dentry : dentry[k] \in 1..MaxIno
  <2>1. \A k \in DOMAIN dentry : dentry[k] \in 2..(nextIno - 1)
    BY DEF Tabled, Typed
  <2>2. nextIno \in Nat /\ nextIno <= MaxIno + 1
    BY DEF Tabled, Typed
  <2>3. QED
    BY <2>1, <2>2, NamespaceAssumption
<1>3. Onward(R) \in SUBSET (1..MaxIno)
  BY <1>2 DEF Onward
<1>4. Onward(R) \subseteq R => Shut(dentry, R)
  BY DEF Onward, Shut
<1>5. \A y \in Onward(R) \ R : \E k \in Named(dentry, y) : k[1] \in R
  BY DEF Onward, Named
<1>6. QED
  BY <1>1, <1>3, <1>4, <1>5

(* Below(i) has i and all that is in it, and of the rest only what is in   *)
(* something of it.                                                        *)
LEMMA BelowIs ==
  ASSUME Tabled, NEW i \in 1..MaxIno
  PROVE  /\ i \in Below(i) /\ Shut(dentry, Below(i))
         /\ \A y \in Below(i) \ {i} : \E k \in Named(dentry, y) : k[1] \in Below(i)
<1>1. MaxIno \in Nat
  BY NamespaceAssumption
<1>2. PICK f : Reaching(f, i, MaxIno) /\ Below(i) = f[MaxIno]
  <2>1. \E g : Reaching(g, i, MaxIno)
    BY <1>1, ReachingExists
  <2>2. QED
    BY <2>1, BelowFrom
<1>3. \A k \in 0..MaxIno : f[k] = IF k = 0 THEN {i} ELSE Onward(f[k - 1])
  BY <1>2 DEF Reaching
<1> DEFINE Good(R) == /\ i \in R /\ R \in SUBSET (1..MaxIno)
                      /\ \A y \in R \ {i} : \E k \in Named(dentry, y) : k[1] \in R
           Full(R, n) == Cardinality(R) >= n + 1 \/ Onward(R) \subseteq R
           T == {n \in Nat : n <= MaxIno => Good(f[n]) /\ Full(f[n], n)}
<1>4. IsFiniteSet(1..MaxIno) /\ Cardinality(1..MaxIno) = MaxIno
  BY <1>1, FS_Interval
<1>5. \A R \in SUBSET (1..MaxIno) :
        IsFiniteSet(R) /\ Cardinality(R) \in Nat /\ Cardinality(R) <= MaxIno
  BY <1>4, FS_Subset, FS_CardinalityType
<1>6. 0 \in T
  <2>1. f[0] = {i}
    BY <1>1, <1>3
  <2>2. Good({i}) /\ Cardinality({i}) = 1
    BY FS_Singleton
  <2>3. QED
    BY <2>1, <2>2
<1>7. ASSUME NEW n \in Nat, n \in T PROVE n + 1 \in T
  <2> SUFFICES ASSUME n + 1 <= MaxIno PROVE Good(f[n + 1]) /\ Full(f[n + 1], n + 1)
    OBVIOUS
  <2> DEFINE R == f[n]
  <2>1. f[n + 1] = Onward(R)
    <3>1. n + 1 \in 0..MaxIno /\ n + 1 # 0 /\ (n + 1) - 1 = n
      BY <1>1
    <3>2. QED
      BY <1>3, <3>1
  <2>2. Good(R) /\ Full(R, n)
    <3>1. n <= MaxIno
      BY <1>1
    <3>2. QED
      BY <3>1, <1>7
  <2> HIDE DEF R
  <2>3. /\ R \subseteq Onward(R) /\ Onward(R) \in SUBSET (1..MaxIno)
        /\ \A y \in Onward(R) \ R : \E k \in Named(dentry, y) : k[1] \in R
    BY <2>2, OnwardIs
  <2>4. Good(Onward(R))
    <3>1. \A y \in Onward(R) \ {i} : \E k \in Named(dentry, y) : k[1] \in R
      BY <2>2, <2>3
    <3>2. QED
      BY <3>1, <2>2, <2>3
  <2>5. Full(Onward(R), n + 1)
    <3>1. CASE Onward(R) \subseteq R
      <4>1. Onward(R) = R
        BY <3>1, <2>3
      <4>2. QED
        BY <4>1
    <3>2. CASE ~ (Onward(R) \subseteq R)
      <4>1. Cardinality(R) >= n + 1
        BY <2>2, <3>2
      <4>2. R \subseteq Onward(R) /\ R # Onward(R)
        BY <2>3, <3>2
      <4>3. Cardinality(R) < Cardinality(Onward(R))
        BY <4>2, <2>3, <1>5, FS_Subset
      <4>4. Cardinality(R) \in Nat /\ Cardinality(Onward(R)) \in Nat
        BY <2>2, <2>3, <1>5
      <4>5. Cardinality(Onward(R)) >= (n + 1) + 1
        BY <4>1, <4>3, <4>4
      <4>6. QED
        BY <4>5
    <3>3. QED
      BY <3>1, <3>2
  <2>6. QED
    BY <2>1, <2>4, <2>5
<1> HIDE DEF T
<1>8. MaxIno \in T
  BY <1>1, <1>6, <1>7, Induction
<1>9. Good(f[MaxIno]) /\ Full(f[MaxIno], MaxIno)
  <2>1. MaxIno <= MaxIno
    BY <1>1
  <2>2. QED
    BY <1>8, <2>1 DEF T
<1>10. Onward(f[MaxIno]) \subseteq f[MaxIno]
  <2>1. Cardinality(f[MaxIno]) \in Nat /\ Cardinality(f[MaxIno]) <= MaxIno
    BY <1>5, <1>9
  <2>2. ~ Cardinality(f[MaxIno]) >= MaxIno + 1
    BY <1>1, <2>1
  <2>3. QED
    BY <1>9, <2>2
<1>11. Shut(dentry, f[MaxIno])
  BY <1>9, <1>10, OnwardIs
<1>12. QED
  BY <1>2, <1>9, <1>11

LEMMA NotBelow ==
  ASSUME Tabled, NoLoop(dentry), NEW k \in DOMAIN dentry
  PROVE  k[1] \notin Below(dentry[k])
<1> DEFINE i == dentry[k]
           B == Below(i)
<1>1. i \in 1..MaxIno
  <2>1. i \in 2..(nextIno - 1) /\ nextIno \in Nat /\ nextIno <= MaxIno + 1
    BY DEF Tabled, Typed
  <2>2. QED
    BY <2>1, NamespaceAssumption
<1>2. k \in Named(dentry, i)
  BY DEF Named
<1> HIDE DEF i
<1>3. i \in B /\ \A y \in B \ {i} : \E e \in Named(dentry, y) : e[1] \in B
  BY <1>1, BelowIs
<1> HIDE DEF B
<1>4. SUFFICES ASSUME k[1] \in B PROVE FALSE
  BY DEF B, i
<1>5. \A y \in B : \E e \in Named(dentry, y) : e[1] \in B
  BY <1>2, <1>3, <1>4
<1>6. QED
  BY <1>3, <1>5, LoopIs
-----------------------------------------------------------------------------
(* A trail: the inodes that the names of w lead to from the root. *)
Trail(dents, w, via) ==
  /\ via[0] = Root
  /\ \A c \in 1..Len(w) : /\ <<via[c - 1], w[c]>> \in DOMAIN dents
                          /\ dents[<<via[c - 1], w[c]>>] = via[c]

Leads(dents, w, i) ==
  /\ w \in Seq(AllNames) /\ Len(w) >= 1
  /\ \E via : Trail(dents, w, via) /\ via[Len(w)] = i

(* A trail stays one when only entries go that its end is not below.       *)
LEMMA TrailKept ==
  ASSUME NEW dents, NEW w, NEW i, Leads(dents, w, i),
         NEW B, Shut(dents, B), i \notin B,
         NEW new, \A k \in DOMAIN dents :
           dents[k] \in B \/ (k \in DOMAIN new /\ new[k] = dents[k])
  PROVE  Leads(new, w, i)
<1>1. w \in Seq(AllNames) /\ Len(w) \in Nat /\ Len(w) >= 1
  BY DEF Leads
<1>2. PICK via : Trail(dents, w, via) /\ via[Len(w)] = i
  BY DEF Leads
<1> DEFINE n == Len(w)
           T == {c \in Nat : c <= n => via[n - c] \notin B}
<1>3. n \in Nat /\ n >= 1 /\ via[n] \notin B
  BY <1>1, <1>2
<1>4. \A c \in 1..n : /\ <<via[c - 1], w[c]>> \in DOMAIN dents
                      /\ dents[<<via[c - 1], w[c]>>] = via[c]
  BY <1>2 DEF Trail
<1> HIDE DEF n
<1>5. 0 \in T
  BY <1>3
<1>6. ASSUME NEW c \in Nat, c \in T PROVE c + 1 \in T
  <2> SUFFICES ASSUME c + 1 <= n PROVE via[n - (c + 1)] \notin B
    OBVIOUS
  <2>1. via[n - c] \notin B /\ n - c \in 1..n /\ (n - c) - 1 = n - (c + 1)
    BY <1>3, <1>6
  <2> DEFINE e == <<via[n - (c + 1)], w[n - c]>>
  <2>2. e \in DOMAIN dents /\ dents[e] = via[n - c]
    BY <1>4, <2>1
  <2>3. e[1] = via[n - (c + 1)]
    OBVIOUS
  <2> HIDE DEF e
  <2>4. QED
    BY <2>1, <2>2, <2>3 DEF Shut
<1> HIDE DEF T
<1>7. Nat \subseteq T
  BY <1>5, <1>6, Induction
<1>8. ASSUME NEW c \in 1..n PROVE via[c] \notin B
  <2>1. n - c \in Nat /\ n - c <= n /\ n - (n - c) = c
    BY <1>3
  <2>2. n - c \in T
    BY <1>7, <2>1
  <2>3. QED
    BY <2>1, <2>2 DEF T
<1>9. \A c \in 1..n : /\ <<via[c - 1], w[c]>> \in DOMAIN new
                      /\ new[<<via[c - 1], w[c]>>] = via[c]
  BY <1>4, <1>8
<1>10. Trail(new, w, via)
  BY <1>2, <1>9 DEF Trail, n
<1>11. QED
  BY <1>1, <1>2, <1>10 DEF Leads

(* A name at the root, or a further name. *)
LEMMA LeadsOne ==
  ASSUME NEW dents, NEW n \in AllNames, <<Root, n>> \in DOMAIN dents
  PROVE  Leads(dents, <<n>>, dents[<<Root, n>>])
<1> DEFINE via == [c \in 0..1 |-> IF c = 0 THEN Root ELSE dents[<<Root, n>>]]
<1>1. <<n>> \in Seq(AllNames) /\ Len(<<n>>) = 1 /\ <<n>>[1] = n
  OBVIOUS
<1>2. via[0] = Root /\ via[1] = dents[<<Root, n>>]
  OBVIOUS
<1> HIDE DEF via
<1>3. Trail(dents, <<n>>, via)
  BY <1>1, <1>2 DEF Trail
<1>4. QED
  BY <1>1, <1>2, <1>3 DEF Leads

LEMMA LeadsOn ==
  ASSUME NEW dents, NEW v, NEW d, Leads(dents, v, d),
         NEW n \in AllNames, <<d, n>> \in DOMAIN dents
  PROVE  Leads(dents, Append(v, n), dents[<<d, n>>])
<1>1. v \in Seq(AllNames) /\ Len(v) \in Nat /\ Len(v) >= 1
  BY DEF Leads
<1>2. PICK via : Trail(dents, v, via) /\ via[Len(v)] = d
  BY DEF Leads
<1> DEFINE w == Append(v, n)
           m == Len(v)
           to == [c \in 0..(m + 1) |-> IF c <= m THEN via[c] ELSE dents[<<d, n>>]]
<1>3. /\ w \in Seq(AllNames) /\ Len(w) = m + 1
      /\ \A c \in 1..m : w[c] = v[c]
      /\ w[m + 1] = n
  BY <1>1, AppendProperties
<1>4. /\ \A c \in 0..m : to[c] = via[c]
      /\ to[m + 1] = dents[<<d, n>>]
  BY <1>1
<1>5. \A c \in 1..m : /\ <<via[c - 1], v[c]>> \in DOMAIN dents
                      /\ dents[<<via[c - 1], v[c]>>] = via[c]
  BY <1>2 DEF Trail
<1>6. m \in Nat /\ via[m] = d /\ via[0] = Root
  BY <1>1, <1>2 DEF Trail
<1> HIDE DEF w, m, to
<1>7. to[0] = Root
  BY <1>4, <1>6
<1>8. ASSUME NEW c \in 1..(m + 1)
      PROVE  /\ <<to[c - 1], w[c]>> \in DOMAIN dents
             /\ dents[<<to[c - 1], w[c]>>] = to[c]
  <2>1. CASE c <= m
    <3>1. c \in 1..m /\ c \in 0..m /\ c - 1 \in 0..m
      BY <2>1, <1>6
    <3>2. to[c - 1] = via[c - 1] /\ to[c] = via[c] /\ w[c] = v[c]
      BY <3>1, <1>3, <1>4
    <3>3. QED
      BY <3>1, <3>2, <1>5
  <2>2. CASE c = m + 1
    <3>1. c - 1 = m /\ m \in 0..m
      BY <2>2, <1>6
    <3>2. to[c - 1] = d /\ w[c] = n /\ to[c] = dents[<<d, n>>]
      BY <2>2, <3>1, <1>3, <1>4, <1>6
    <3>3. QED
      BY <3>2
  <2>3. QED
    BY <2>1, <2>2, <1>6
<1>9. Trail(dents, w, to)
  BY <1>3, <1>7, <1>8 DEF Trail
<1>10. QED
  BY <1>1, <1>3, <1>4, <1>9 DEF Leads, w, m

(* A trail from its last name back: that is in d, the root or where the    *)
(* other names lead to.                                                    *)
LastStep(dents, w, i, d, n) ==
  /\ n \in AllNames /\ <<d, n>> \in DOMAIN dents /\ dents[<<d, n>>] = i
  /\ Len(w) = 1 => d = Root /\ w = <<n>>
  /\ Len(w) # 1 => \E v : /\ Leads(dents, v, d) /\ w = Append(v, n)
                          /\ Len(v) = Len(w) - 1
                          /\ \E k \in DOMAIN dents : d = dents[k]

LEMMA LeadsBack ==
  ASSUME NEW dents, NEW w, NEW i, Leads(dents, w, i)
  PROVE  \E d : LastStep(dents, w, i, d, w[Len(w)])
<1>1. w \in Seq(AllNames) /\ Len(w) \in Nat /\ Len(w) >= 1
  BY DEF Leads
<1>2. PICK via : Trail(dents, w, via) /\ via[Len(w)] = i
  BY DEF Leads
<1> DEFINE m == Len(w)
           n == w[m]
           d == via[m - 1]
           v == SubSeq(w, 1, m - 1)
<1>3. m \in 1..m /\ m \in Nat /\ m >= 1 /\ n \in AllNames
  BY <1>1
<1>4. /\ via[0] = Root /\ via[m] = i
      /\ \A c \in 1..m : /\ <<via[c - 1], w[c]>> \in DOMAIN dents
                          /\ dents[<<via[c - 1], w[c]>>] = via[c]
  BY <1>2 DEF Trail
<1>5. CASE m = 1
  <2>1. d = Root
    BY <1>4, <1>5
  <2>2. w = <<n>>
    BY <1>1, <1>5
  <2>3. QED
    BY <1>3, <1>4, <1>5, <2>1, <2>2 DEF LastStep
<1>6. CASE m # 1
  <2>1. /\ m - 1 \in Nat /\ m - 1 >= 1 /\ m - 1 \in 1..m /\ m \in Nat
        /\ 1..(m - 1) \subseteq 1..m
    <3> HIDE DEF m
    <3>1. QED
      BY <1>3, <1>6
  <2>2. /\ v \in Seq(AllNames) /\ Len(v) = m - 1
        /\ \A c \in 1..(m - 1) : v[c] = w[c]
    <3>1. \A c \in 1..(m - 1) : w[c] \in AllNames
      BY <1>1, <2>1
    <3>2. 1 \in Int /\ m - 1 \in Int
      BY <2>1
    <3>3. /\ v \in Seq(AllNames)
          /\ Len(v) = IF 1 <= m - 1 THEN (m - 1) - 1 + 1 ELSE 0
          /\ \A c \in 1..((m - 1) - 1 + 1) : v[c] = w[1 + c - 1]
      BY <3>1, <3>2, SubSeqProperties
    <3> HIDE DEF v, m
    <3>4. QED
      BY <3>3, <2>1
  <2>3. w = Append(v, n)
    <3> HIDE DEF v
    <3>1. v \in Seq(AllNames) /\ n \in AllNames /\ w \in Seq(AllNames)
      BY <1>1, <1>3, <2>2
    <3>2. /\ Append(v, n) \in Seq(AllNames) /\ Len(Append(v, n)) = (m - 1) + 1
          /\ \A c \in 1..(m - 1) : Append(v, n)[c] = v[c]
          /\ Append(v, n)[(m - 1) + 1] = n
      BY <3>1, <2>2, AppendProperties
    <3>3. (m - 1) + 1 = m
      BY <2>1
    <3>4. \A c \in 1..m : w[c] = Append(v, n)[c]
      BY <2>1, <2>2, <3>2, <3>3
    <3>5. QED
      BY <3>1, <3>2, <3>3, <3>4, SeqEqual
  <2>4. Leads(dents, v, d)
    <3> HIDE DEF v
    <3>1. \A c \in 1..Len(v) : /\ <<via[c - 1], v[c]>> \in DOMAIN dents
                                /\ dents[<<via[c - 1], v[c]>>] = via[c]
      BY <1>4, <2>1, <2>2
    <3>2. Trail(dents, v, via)
      BY <1>4, <3>1 DEF Trail
    <3>3. QED
      BY <2>1, <2>2, <3>2 DEF Leads
  <2>5. \E k \in DOMAIN dents : d = dents[k]
    BY <1>4, <2>1
  <2> HIDE DEF v, n, d
  <2>6. LastStep(dents, w, i, d, n)
    BY <1>3, <1>4, <1>6, <2>2, <2>3, <2>4, <2>5 DEF LastStep, d
  <2>7. QED
    BY <2>6 DEF n
<1>7. QED
  BY <1>5, <1>6

(* Without loops a trail goes through each inode once, so it is no longer  *)
(* than there are inodes.                                                  *)
LEMMA TrailShort ==
  ASSUME Tabled, NoLoop(dentry), NEW w, NEW i, Leads(dentry, w, i)
  PROVE  Len(w) + 2 <= nextIno
<1>1. w \in Seq(AllNames) /\ Len(w) \in Nat /\ Len(w) >= 1
  BY DEF Leads
<1>2. PICK via : Trail(dentry, w, via)
  BY DEF Leads
<1> DEFINE n == Len(w)
<1>3. \A c \in 1..n : /\ <<via[c - 1], w[c]>> \in DOMAIN dentry
                      /\ dentry[<<via[c - 1], w[c]>>] = via[c]
  BY <1>2 DEF Trail
<1>4. n \in Nat /\ nextIno \in Nat /\ nextIno > 2
  BY <1>1 DEF Tabled, Typed, Notes
<1> HIDE DEF n
<1>5. ASSUME NEW a \in 1..n, NEW b \in 1..n, a < b, via[a] = via[b] PROVE FALSE
  <2> DEFINE S == {via[c] : c \in a..b}
  <2>1. ASSUME NEW c \in 1..n, c - 1 \in a..b
        PROVE  \E k \in Named(dentry, via[c]) : k[1] \in S
    <3> DEFINE k == <<via[c - 1], w[c]>>
    <3>1. k \in Named(dentry, via[c])
      BY <1>3 DEF Named
    <3>2. k[1] \in S
      BY <2>1
    <3>3. QED
      BY <3>1, <3>2
  <2>2. ASSUME NEW x \in S
        PROVE  \E k \in Named(dentry, x) : k[1] \in S
    <3>1. PICK c \in a..b : x = via[c]
      OBVIOUS
    <3> HIDE DEF S
    <3>2. CASE c = a
      <4>1. x = via[b] /\ b - 1 \in a..b
        BY <1>5, <3>1, <3>2
      <4>2. QED
        BY <4>1, <2>1
    <3>3. CASE c # a
      <4>1. c \in 1..n /\ c - 1 \in a..b
        BY <3>3, <1>4
      <4>2. QED
        BY <3>1, <4>1, <2>1
    <3>4. QED
      BY <3>2, <3>3
  <2>3. via[a] \in S
    <3>1. a \in a..b
      BY <1>5
    <3>2. QED
      BY <3>1
  <2> HIDE DEF S
  <2>4. QED
    BY <2>2, <2>3, LoopIs
<1> DEFINE f == [c \in 1..n |-> via[c]]
           V == 2..(nextIno - 1)
<1>6. f \in [1..n -> V]
  <2>1. \A c \in 1..n : via[c] \in V
    BY <1>3 DEF Tabled, Typed
  <2>2. QED
    BY <2>1
<1>7. \A a \in 1..n : \A b \in 1..n : a # b => f[a] # f[b]
  <2> SUFFICES ASSUME NEW a \in 1..n, NEW b \in 1..n, a # b, f[a] = f[b] PROVE FALSE
    OBVIOUS
  <2>1. via[a] = via[b]
    OBVIOUS
  <2>2. a < b \/ b < a
    BY <1>4
  <2>3. QED
    BY <2>1, <2>2, <1>5
<1>8. /\ IsFiniteSet(1..n) /\ Cardinality(1..n) = n
      /\ IsFiniteSet(V) /\ Cardinality(V) = nextIno - 2
  <2>1. IsFiniteSet(1..n) /\ Cardinality(1..n) = IF 1 > n THEN 0 ELSE n - 1 + 1
    BY <1>4, FS_Interval
  <2>2. IsFiniteSet(V) /\ Cardinality(V) = IF 2 > nextIno - 1 THEN 0 ELSE (nextIno - 1) - 2 + 1
    BY <1>4, FS_Interval
  <2> HIDE DEF V
  <2>3. QED
    BY <1>4, <2>1, <2>2
<1> HIDE DEF f, V
<1>9. ~ (nextIno - 2 < n)
  BY <1>6, <1>7, <1>8, FS_PigeonHole
<1>10. QED
  BY <1>4, <1>9 DEF n
-----------------------------------------------------------------------------
(* The paths of a file: sequences of names, and a bare one is below        *)
(* private/notes.                                                          *)
Nowhere == [j \in 1..MaxIno |-> {}]

Climbing(g, n) ==
  g = [k \in 0..n |-> IF k = 0 THEN Nowhere ELSE Further(g[k - 1])]

LEMMA ClimbExists == \A n \in Nat : \E g : Climbing(g, n)
<1> DEFINE T == {n \in Nat : \E g : Climbing(g, n)}
<1>1. 0 \in T
  <2> DEFINE g == [k \in 0..0 |-> Nowhere]
  <2>1. \A k \in 0..0 : k = 0 /\ g[k] = Nowhere
    OBVIOUS
  <2>2. g = [k \in 0..0 |-> g[k]]
    OBVIOUS
  <2> HIDE DEF g
  <2>3. Climbing(g, 0)
    BY <2>1, <2>2 DEF Climbing
  <2>4. QED
    BY <2>3
<1>2. ASSUME NEW n \in Nat, n \in T PROVE n + 1 \in T
  <2>1. PICK g : Climbing(g, n)
    BY <1>2
  <2> DEFINE h == [k \in 0..(n + 1) |-> IF k <= n THEN g[k] ELSE Further(g[n])]
  <2>2. \A k \in 0..n : g[k] = IF k = 0 THEN Nowhere ELSE Further(g[k - 1])
    BY <2>1 DEF Climbing
  <2>3. ASSUME NEW k \in 0..(n + 1)
        PROVE  h[k] = IF k = 0 THEN Nowhere ELSE Further(h[k - 1])
    <3>1. CASE k <= n
      <4>1. h[k] = g[k] /\ (k # 0 => h[k - 1] = g[k - 1])
        BY <3>1
      <4>2. k \in 0..n
        BY <3>1
      <4> HIDE DEF h
      <4>3. QED
        BY <4>1, <4>2, <2>2
    <3>2. CASE k = n + 1
      <4>1. h[k] = Further(g[n]) /\ h[k - 1] = g[n] /\ k # 0
        BY <3>2
      <4> HIDE DEF h
      <4>2. QED
        BY <4>1
    <3>3. QED
      BY <3>1, <3>2
  <2>4. h = [k \in 0..(n + 1) |-> h[k]]
    OBVIOUS
  <2> HIDE DEF h
  <2>5. Climbing(h, n + 1)
    BY <2>3, <2>4 DEF Climbing
  <2>6. QED
    BY <2>5
<1> HIDE DEF T
<1>3. Nat \subseteq T
  BY <1>1, <1>2, Induction
<1>4. QED
  BY <1>3 DEF T

LEMMA WaysFrom ==
  ASSUME NEW i, NEW g, Climbing(g, MaxIno)
  PROVE  \E f : Climbing(f, MaxIno) /\ Ways(i) = f[MaxIno][i]
<1> DEFINE up[k \in 0..MaxIno] ==
             IF k = 0 THEN [j \in 1..MaxIno |-> {}] ELSE Further(up[k - 1])
<1>1. Ways(i) = up[MaxIno][i]
  BY DEF Ways
<1>2. Climbing(up, MaxIno)
  BY DEF Climbing, Nowhere
<1> HIDE DEF up
<1>3. QED
  BY <1>1, <1>2

(* Ways finds the trails of at most MaxIno names: after n rounds those of  *)
(* at most n.                                                              *)
WaysUpTo(ways, n) ==
  \A j \in 1..MaxIno : \A w : w \in ways[j] <=> Leads(dentry, w, j) /\ Len(w) <= n

LEMMA EntryInos ==
  ASSUME Tabled, NEW e \in DOMAIN dentry
  PROVE  /\ e = <<e[1], e[2]>> /\ e[2] \in AllNames /\ e[1] \in 1..MaxIno
         /\ dentry[e] \in 1..MaxIno /\ dentry[e] # Root
         /\ e[2] \in Names \/ (e[1] = Root /\ e[2] = Private)
<1>1. e \in Keys(nextIno) \cup {Door} /\ dentry[e] \in 2..(nextIno - 1)
  BY DEF Tabled, Typed
<1>2. nextIno \in Nat /\ nextIno <= MaxIno + 1 /\ MaxIno \in Nat /\ MaxIno >= 2
  BY NamespaceAssumption DEF Tabled, Typed, Notes
<1>3. 1..(nextIno - 1) \subseteq 1..MaxIno /\ 2..(nextIno - 1) \subseteq 2..MaxIno
  BY <1>2
<1>4. dentry[e] \in 2..MaxIno
  BY <1>1, <1>3
<1>5. dentry[e] \in 1..MaxIno /\ dentry[e] # Root
  BY <1>2, <1>4 DEF Root
<1>6. /\ e = <<e[1], e[2]>> /\ e[1] \in 1..MaxIno
      /\ e[2] \in Names \/ (e[1] = Root /\ e[2] = Private)
  <2>1. CASE e \in Keys(nextIno)
    <3>1. PICK d \in 1..(nextIno - 1), n \in Names : e = <<d, n>>
      BY <2>1 DEF Keys
    <3>2. e[1] = d /\ e[2] = n /\ d \in 1..MaxIno
      BY <3>1, <1>3
    <3>3. e = <<e[1], e[2]>>
      BY <3>1
    <3>4. e[1] \in 1..MaxIno /\ e[2] \in Names
      BY <3>2
    <3>5. QED
      BY <3>3, <3>4, Zenon
  <2>2. CASE e = Door
    <3>1. e[1] = Root /\ e[2] = Private /\ Root \in 1..MaxIno
      BY <1>2, <2>2 DEF Door, Root
    <3>2. e = <<e[1], e[2]>>
      BY <2>2 DEF Door
    <3>3. QED
      BY <3>1, <3>2
  <2>3. QED
    BY <1>1, <2>1, <2>2
<1>7. e[2] \in AllNames
  BY <1>6 DEF AllNames
<1>8. QED
  BY <1>5, <1>6, <1>7

LEMMA FurtherLeads ==
  ASSUME Tabled, NEW n \in Nat, NEW ways, WaysUpTo(ways, n)
  PROVE  WaysUpTo(Further(ways), n + 1)
<1> SUFFICES ASSUME NEW j \in 1..MaxIno, NEW w
             PROVE  w \in Further(ways)[j] <=> Leads(dentry, w, j) /\ Len(w) <= n + 1
  BY DEF WaysUpTo
<1>1. w \in Further(ways)[j] <=>
        \E e \in Entries(j) :
          w \in IF e[1] = Root THEN {<<e[2]>>} ELSE {Append(v, e[2]) : v \in ways[e[1]]}
  BY DEF Further
<1>2. ASSUME NEW e \in Entries(j),
             w \in IF e[1] = Root THEN {<<e[2]>>} ELSE {Append(v, e[2]) : v \in ways[e[1]]}
      PROVE  Leads(dentry, w, j) /\ Len(w) <= n + 1
  <2>1. e \in DOMAIN dentry /\ dentry[e] = j
    BY DEF Entries
  <2>2. e = <<e[1], e[2]>> /\ e[2] \in AllNames /\ e[1] \in 1..MaxIno
    BY <2>1, EntryInos
  <2>3. CASE e[1] = Root
    <3>1. w = <<e[2]>> /\ Len(<<e[2]>>) = 1 /\ e = <<Root, e[2]>>
      BY <2>2, <2>3, <1>2
    <3>2. Leads(dentry, <<e[2]>>, dentry[<<Root, e[2]>>])
      BY <2>1, <2>2, <3>1, LeadsOne
    <3>3. QED
      BY <2>1, <3>1, <3>2
  <2>4. CASE e[1] # Root
    <3>1. PICK v \in ways[e[1]] : w = Append(v, e[2])
      BY <2>4, <1>2
    <3>2. Leads(dentry, v, e[1]) /\ Len(v) <= n
      BY <2>2, <3>1 DEF WaysUpTo
    <3>3. Leads(dentry, Append(v, e[2]), dentry[<<e[1], e[2]>>])
      BY <2>1, <2>2, <3>2, LeadsOn
    <3>4. v \in Seq(AllNames) /\ Len(v) \in Nat /\ Len(w) = Len(v) + 1
      BY <2>2, <3>1, <3>2, AppendProperties DEF Leads
    <3>5. <<e[1], e[2]>> = e
      BY <2>2
    <3>6. Leads(dentry, w, j)
      BY <2>1, <3>1, <3>3, <3>5
    <3>7. QED
      BY <3>2, <3>4, <3>6
  <2>5. QED
    BY <2>3, <2>4
<1>3. ASSUME Leads(dentry, w, j), Len(w) <= n + 1
      PROVE  \E e \in Entries(j) :
               w \in IF e[1] = Root THEN {<<e[2]>>}
                     ELSE {Append(v, e[2]) : v \in ways[e[1]]}
  <2> DEFINE x == w[Len(w)]
  <2>1. PICK d : LastStep(dentry, w, j, d, x)
    BY <1>3, LeadsBack
  <2> HIDE DEF x
  <2> DEFINE e == <<d, x>>
  <2>2. e \in Entries(j) /\ e[1] = d /\ e[2] = x
    BY <2>1 DEF Entries, LastStep
  <2>3. CASE Len(w) = 1
    BY <2>1, <2>2, <2>3 DEF LastStep
  <2>4. CASE Len(w) # 1
    <3>1. PICK v : /\ Leads(dentry, v, d) /\ w = Append(v, x)
                   /\ Len(v) = Len(w) - 1
                   /\ \E k \in DOMAIN dentry : d = dentry[k]
      BY <2>1, <2>4 DEF LastStep
    <3>2. d \in 1..MaxIno /\ d # Root
      BY <3>1, EntryInos
    <3>3. Len(v) <= n
      <4>1. w \in Seq(AllNames)
        BY <1>3 DEF Leads
      <4>2. Len(w) \in Nat
        BY <4>1
      <4>3. QED
        BY <1>3, <3>1, <4>2
    <3>4. v \in ways[d]
      BY <3>1, <3>2, <3>3 DEF WaysUpTo
    <3>5. QED
      BY <2>2, <3>1, <3>2, <3>4
  <2>5. QED
    BY <2>3, <2>4
<1>4. QED
  BY <1>1, <1>2, <1>3

LEMMA WaysLead ==
  ASSUME Tabled, NEW i \in 1..MaxIno, NEW w
  PROVE  w \in Ways(i) <=> Leads(dentry, w, i) /\ Len(w) <= MaxIno
<1>0. MaxIno \in Nat
  BY NamespaceAssumption
<1>1. PICK f : Climbing(f, MaxIno) /\ Ways(i) = f[MaxIno][i]
  <2>1. \E g : Climbing(g, MaxIno)
    BY <1>0, ClimbExists
  <2>2. QED
    BY <2>1, WaysFrom
<1>2. \A k \in 0..MaxIno : f[k] = IF k = 0 THEN Nowhere ELSE Further(f[k - 1])
  BY <1>1 DEF Climbing
<1> DEFINE T == {n \in Nat : n <= MaxIno => WaysUpTo(f[n], n)}
<1>3. 0 \in T
  <2>1. f[0] = Nowhere
    BY <1>0, <1>2
  <2>2. ASSUME NEW j \in 1..MaxIno, NEW v
        PROVE  v \in Nowhere[j] <=> Leads(dentry, v, j) /\ Len(v) <= 0
    <3>1. v \notin Nowhere[j]
      BY DEF Nowhere
    <3>2. Leads(dentry, v, j) => Len(v) \in Nat /\ Len(v) >= 1
      BY DEF Leads
    <3>3. QED
      BY <3>1, <3>2
  <2>3. WaysUpTo(Nowhere, 0)
    BY <2>2 DEF WaysUpTo
  <2>4. QED
    BY <2>1, <2>3
<1>4. ASSUME NEW n \in Nat, n \in T PROVE n + 1 \in T
  <2> SUFFICES ASSUME n + 1 <= MaxIno PROVE WaysUpTo(f[n + 1], n + 1)
    OBVIOUS
  <2>1. WaysUpTo(f[n], n)
    BY <1>0, <1>4
  <2>2. n + 1 \in 0..MaxIno /\ n + 1 # 0 /\ (n + 1) - 1 = n
    BY <1>0
  <2>3. f[n + 1] = Further(f[n])
    BY <1>2, <2>2
  <2>4. QED
    BY <2>1, <2>3, FurtherLeads
<1> HIDE DEF T
<1>5. MaxIno \in T
  BY <1>0, <1>3, <1>4, Induction
<1>6. WaysUpTo(f[MaxIno], MaxIno)
  BY <1>0, <1>5 DEF T
<1>7. QED
  BY <1>1, <1>6 DEF WaysUpTo

(* A way of one name to an inode; only Notes has one by the name Private,  *)
(* which leads nowhere but from the root.                                  *)
IsWay(w, j) ==
  /\ w \in Seq(AllNames) /\ Len(w) >= 1 /\ (w = <<Private>> => j = Notes)
  /\ \A c \in 1..Len(w) : c # 1 \/ w[1] # Private => w[c] \in Names

LEMMA WaysAre ==
  ASSUME Tabled, dentry[Door] = Notes, NEW i \in 1..MaxIno, NEW w \in Ways(i)
  PROVE  IsWay(w, i)
<1>1. Leads(dentry, w, i)
  BY WaysLead
<1>2. PICK via : Trail(dentry, w, via) /\ via[Len(w)] = i
  BY <1>1 DEF Leads
<1>3. ASSUME w = <<Private>> PROVE i = Notes
  <2>1. Len(w) = 1 /\ w[1] = Private
    BY <1>3
  <2>2. via[1] = i /\ dentry[<<via[1 - 1], Private>>] = via[1] /\ via[0] = Root
    BY <1>2, <2>1 DEF Trail
  <2>3. dentry[Door] = i
    BY <2>2 DEF Door
  <2>4. QED
    BY <2>3
<1>4. w \in Seq(AllNames) /\ Len(w) >= 1 /\ Len(w) \in Nat
  BY <1>1 DEF Leads
<1>5. ASSUME NEW c \in 1..Len(w), c # 1 \/ w[1] # Private PROVE w[c] \in Names
  <2> DEFINE e == <<via[c - 1], w[c]>>
  <2>1. e \in DOMAIN dentry /\ e[1] = via[c - 1] /\ e[2] = w[c]
    BY <1>2 DEF Trail
  <2>2. c # 1 => via[c - 1] # Root
    <3>1. SUFFICES ASSUME c # 1 PROVE via[c - 1] # Root
      OBVIOUS
    <3>2. c - 1 \in 1..Len(w)
      BY <1>4, <3>1
    <3>3. /\ <<via[(c - 1) - 1], w[c - 1]>> \in DOMAIN dentry
          /\ dentry[<<via[(c - 1) - 1], w[c - 1]>>] = via[c - 1]
      BY <1>2, <3>2 DEF Trail
    <3>4. QED
      BY <3>3, EntryInos
  <2> HIDE DEF e
  <2>3. e[2] \in Names \/ (e[1] = Root /\ e[2] = Private)
    BY <2>1, EntryInos
  <2>4. QED
    BY <2>1, <2>2, <2>3, <1>5
<1>6. QED
  BY <1>3, <1>4, <1>5 DEF IsWay

LEMMA BuiltPaths ==
  ASSUME Tabled, dentry[Door] = Notes, inode[Notes].kind = "dir",
         NEW i \in Files, NEW p \in BuildPaths(i)
  PROVE  IsPath(p)
<1>1. i \in DOMAIN inode /\ inode[i].kind = "file"
  BY DEF Files, Live
<1>2. i # Notes
  BY <1>1
<1>3. i \in 1..MaxIno
  <2>1. i \in 1..(nextIno - 1) /\ nextIno \in Nat /\ nextIno <= MaxIno + 1
    BY <1>1 DEF Tabled, Typed
  <2>2. QED
    BY <2>1, NamespaceAssumption
<1>4. PICK w \in Ways(i) : p = IF Head(w) = Private THEN w ELSE <<Private>> \o w
  BY DEF BuildPaths
<1>5. /\ w \in Seq(AllNames) /\ Len(w) \in Nat /\ Len(w) >= 1 /\ w # <<Private>>
      /\ \A c \in 1..Len(w) : c # 1 \/ w[1] # Private => w[c] \in Names
  <2>1. IsWay(w, i)
    BY <1>3, WaysAre
  <2>2. QED
    BY <1>2, <2>1 DEF IsWay
<1>6. Head(w) = w[1]
  BY <1>5
<1>7. CASE Head(w) = Private
  <2>1. Len(w) # 1
    BY <1>5, <1>6, <1>7
  <2>2. p = w /\ Len(w) >= 2
    <3> DEFINE m == Len(w)
    <3>1. m \in Nat /\ m >= 1 /\ m # 1
      BY <1>5, <2>1
    <3> HIDE DEF m
    <3>2. m >= 2
      BY <3>1
    <3>3. QED
      BY <1>4, <1>7, <3>2 DEF m
  <2>3. \A c \in 2..Len(w) : w[c] \in Names
    BY <1>5
  <2>4. QED
    BY <1>5, <1>6, <1>7, <2>2, <2>3 DEF IsPath, AllNames
<1>8. CASE Head(w) # Private
  <2>1. <<Private>> \in Seq(AllNames) /\ Len(<<Private>>) = 1 /\ <<Private>>[1] = Private
    BY DEF AllNames
  <2>2. p = <<Private>> \o w
    BY <1>4, <1>8
  <2>3. /\ p \in Seq(AllNames) /\ Len(p) = 1 + Len(w) /\ p[1] = Private
        /\ \A c \in 2..Len(p) : p[c] = w[c - 1]
    BY <1>5, <2>1, <2>2
  <2>4. \A c \in 2..Len(p) : p[c] \in Names
    <3>1. \A c \in 2..Len(p) : c - 1 \in 1..Len(w)
      BY <1>5, <2>3
    <3>2. QED
      BY <3>1, <2>3, <1>5, <1>6, <1>8
  <2>5. QED
    BY <1>5, <2>3, <2>4 DEF IsPath, AllNames
<1>9. QED
  BY <1>7, <1>8
-----------------------------------------------------------------------------
(* The ledger while the request has nothing in hand is the table. *)
NoneHeld(dents, pos, r) ==
  ~ InoHeld(dents, pos, r) /\ ~ OldHeld(dents, pos, r) /\ ~ Uncounted(dents, pos, r)

LEMMA LedgerNone ==
  ASSUME NEW nodes, NEW next, NEW dents, NEW lru, Typed(nodes, next, dents, lru),
         NEW pos, NEW r, NoneHeld(dents, pos, r), NEW lost
  PROVE  Sound(nodes, Ledger(dents, pos, r), lost) <=> Sound(nodes, dents, lost)
<1> DEFINE led == Ledger(dents, pos, r)
<1>1. HandKey \notin DOMAIN dents /\ OldKey \notin DOMAIN dents
  BY HandKeys
<1>2. DOMAIN led = DOMAIN dents /\ \A k \in DOMAIN dents : led[k] = dents[k]
  BY <1>1 DEF Ledger, NoneHeld
<1> HIDE DEF led
<1>3. Sound(nodes, led, lost) => Sound(nodes, dents, lost)
  BY <1>2, SoundSame
<1>4. Sound(nodes, dents, lost) => Sound(nodes, led, lost)
  BY <1>2, SoundSame
<1>5. QED
  BY <1>3, <1>4 DEF led

(* ... and the same as long as the same is in hand.                        *)
LEMMA LedgerStill ==
  ASSUME NEW dents, OldKey \notin DOMAIN dents, NEW pos, NEW r, NEW pos2, NEW r2,
         InoHeld(dents, pos2, r2) <=> InoHeld(dents, pos, r),
         OldHeld(dents, pos2, r2) <=> OldHeld(dents, pos, r),
         ~ Uncounted(dents, pos, r), ~ Uncounted(dents, pos2, r2),
         r2.ino = r.ino, OldHeld(dents, pos, r) => r2.old = r.old
  PROVE  \A nodes, lost : Sound(nodes, Ledger(dents, pos, r), lost) =>
                          Sound(nodes, Ledger(dents, pos2, r2), lost)
<1> DEFINE led == Ledger(dents, pos, r)
           led2 == Ledger(dents, pos2, r2)
<1>1. DOMAIN led = DOMAIN dents \cup {x \in {HandKey} : InoHeld(dents, pos, r)}
                     \cup {x \in {OldKey} : OldHeld(dents, pos, r)}
  BY DEF Ledger
<1>2. DOMAIN led2 = DOMAIN dents \cup {x \in {HandKey} : InoHeld(dents, pos2, r2)}
                      \cup {x \in {OldKey} : OldHeld(dents, pos2, r2)}
  BY DEF Ledger
<1>3. DOMAIN led2 = DOMAIN led
  BY <1>1, <1>2
<1>4. ASSUME NEW k \in DOMAIN led PROVE led2[k] = led[k]
  <2>1. /\ led[k] = IF k = HandKey THEN r.ino ELSE IF k = OldKey THEN r.old ELSE dents[k]
        /\ led2[k] = IF k = HandKey THEN r2.ino ELSE IF k = OldKey THEN r2.old ELSE dents[k]
    BY <1>3, <1>4 DEF Ledger
  <2>2. k = OldKey => OldHeld(dents, pos, r) \/ k \in DOMAIN dents
    BY <1>1, <1>4 DEF HandKey, OldKey, NoIno, Root
  <2>3. QED
    BY <2>1, <2>2
<1> HIDE DEF led, led2
<1>5. \A nodes, lost : Sound(nodes, led, lost) => Sound(nodes, led2, lost)
  BY <1>3, <1>4, SoundSame
<1>6. QED
  BY <1>5 DEF led, led2

(* What the table says while it is balanced, whatever is in hand. *)
LEMMA BalancedIs ==
  ASSUME Tabled, RequestOK, Balanced
  PROVE  /\ Root \in DOMAIN inode /\ Notes \in DOMAIN inode
         /\ inode[Root].kind = "dir" /\ inode[Notes].kind = "dir"
         /\ Door \in DOMAIN dentry /\ dentry[Door] = Notes
         /\ \A k \in DOMAIN dentry : dentry[k] \in DOMAIN inode \ {Root}
<1> DEFINE led == Ledger(dentry, at, req)
<1>1. HandKey \notin DOMAIN dentry /\ OldKey \notin DOMAIN dentry
      /\ Door # HandKey /\ Door # OldKey
  BY HandKeys DEF Tabled
<1>2. Sound(inode, led, replaced)
  BY DEF Balanced
<1>3. Door \in DOMAIN dentry /\ led[Door] = dentry[Door]
  <2>1. Door \in DOMAIN led
    BY <1>2 DEF Sound
  <2>2. QED
    BY <1>1, <2>1 DEF Ledger
<1>4. ASSUME NEW k \in DOMAIN dentry
      PROVE  dentry[k] \in DOMAIN inode \ {Root}
  <2>1. CASE k \in DOMAIN led
    <3>1. led[k] = dentry[k]
      BY <1>1, <2>1 DEF Ledger
    <3>2. QED
      BY <2>1, <3>1, <1>2 DEF Sound
  <2>2. CASE k \notin DOMAIN led
    <3>1. at = "count" /\ dentry[k] = req.ino
      BY <2>2 DEF Ledger, Uncounted, LeadsTo
    <3>2. QED
      BY <3>1 DEF RequestOK
  <2>3. QED
    BY <2>1, <2>2
<1>5. QED
  BY <1>2, <1>3, <1>4 DEF Sound

(* What a lookup that is not answered wrong says. *)
LEMMA SeenRight ==
  ASSUME Tabled, NEW k, Looks(k), ~ misled'
  PROVE  /\ NoIno \notin DOMAIN inode
         /\ IF Seen(k) = NoIno THEN k \notin DOMAIN dentry ELSE LeadsTo(dentry, k, Seen(k))
<1>1. ~ WrongIn(k, cache, dentry)
  BY DEF Looks, Wrong
<1>2. Typed(inode, nextIno, dentry, cache)
  BY DEF Tabled
<1>3. /\ Seen(k) = IF k \in DOMAIN dentry THEN dentry[k] ELSE NoIno
      /\ Seen(k) = NoIno => k \notin DOMAIN dentry
  BY <1>1, <1>2, SeenIs DEF Seen
<1>4. NoIno \notin DOMAIN inode
  BY <1>2 DEF Typed, NoIno
<1>5. QED
  BY <1>3, <1>4 DEF LeadsTo
-----------------------------------------------------------------------------
(* The paths of documents that the tables have. *)
RemotePaths == \A i \in DOMAIN remote : IsPath(remote[i])

(* A request begins: nothing is in hand, and what is known is right. *)
LEMMA BeginsBalanced ==
  ASSUME Tabled, Tabled', Balanced, at = "idle",
         UNCHANGED <<inode, dentry, replaced>>, NoneHeld(dentry, at', req')
  PROVE  Balanced'
<1>1. NoneHeld(dentry, at, req)
  BY DEF NoneHeld, InoHeld, OldHeld, Uncounted, Taken, Keyed
<1>2. Sound(inode, dentry, replaced)
  BY <1>1, LedgerNone DEF Balanced, Tabled
<1>3. Sound(inode, Ledger(dentry, at', req'), replaced)
  BY <1>2, LedgerNone DEF Tabled
<1>4. QED
  BY <1>3 DEF Balanced

LEMMA MakeLooksOK ==
  ASSUME Tabled, Tabled', RequestOK, Balanced, NEW d \in Dirs, NEW n \in Names,
         NEW kind \in Kinds, MakeLooks(d, n, kind)
  PROVE  RequestOK' /\ Balanced'
<1>1. /\ at = "idle" /\ at' = "make" /\ req' = [NoReq EXCEPT !.key = <<d, n>>, !.kind = kind]
      /\ UNCHANGED <<inode, nextIno, dentry, replaced>>
  BY DEF MakeLooks, Begins, tree, history
<1>2. req'.key = <<d, n>> /\ req'.kind = kind /\ DOMAIN req' = Fields
  BY <1>1 DEF NoReq, Fields
<1>3. RequestOK'
  BY <1>1, <1>2, KeyOf DEF RequestOK, Stages, Keyed, Taken, Moving, Writing
<1>4. NoneHeld(dentry, at', req')
  BY <1>1 DEF NoneHeld, InoHeld, OldHeld, Uncounted, Taken, Keyed
<1>5. QED
  BY <1>1, <1>3, <1>4, BeginsBalanced

(* rmdir, unlink. *)
LEMMA RemovalOK ==
  ASSUME Tabled, Tabled', RequestOK, Balanced, ~ misled', NEW d \in Dirs, NEW n \in Names,
         Rmdir(d, n) \/ Unlink(d, n)
  PROVE  RequestOK' /\ Balanced'
<1> DEFINE k == <<d, n>>
           i == Seen(k)
<1>1. /\ at = "idle" /\ at' \in {"check", "path"} /\ i \in DOMAIN inode
      /\ at' = "check" => inode[i].kind = "dir"
      /\ req' = [NoReq EXCEPT !.key = k, !.ino = i]
      /\ UNCHANGED <<inode, nextIno, dentry, replaced>> /\ Looks(k)
  BY DEF Rmdir, Unlink, Begins, tree, history, Live, Dirs
<1>2. k \in Keys(nextIno)
  BY KeyOf
<1> HIDE DEF k, i
<1>3. req'.key = k /\ req'.ino = i /\ DOMAIN req' = Fields
  BY <1>1 DEF NoReq, Fields
<1>4. LeadsTo(dentry, k, i)
  BY <1>1, SeenRight DEF i
<1>5. i \in DOMAIN inode \ {Root}
  BY <1>1, <1>4, BalancedIs DEF LeadsTo
<1>6. RequestOK'
  BY <1>1, <1>2, <1>3, <1>5 DEF RequestOK, Stages, Keyed, Taken, Moving, Writing
<1>7. NoneHeld(dentry, at', req')
  BY <1>1, <1>3, <1>4 DEF NoneHeld, InoHeld, OldHeld, Uncounted, Taken, Keyed
<1>8. QED
  BY <1>1, <1>6, <1>7, BeginsBalanced

LEMMA LinkOK ==
  ASSUME Tabled, Tabled', RequestOK, Balanced, ~ misled', NEW i \in Live,
         NEW d \in Dirs, NEW n \in Names, Link(i, d, n)
  PROVE  RequestOK' /\ Balanced'
<1> DEFINE k == <<d, n>>
<1>1. /\ at = "idle" /\ at' = "link" /\ i \in DOMAIN inode
      /\ inode[i].kind # "dir" /\ inode[i].nlink < MaxLinks
      /\ req' = [NoReq EXCEPT !.key = k, !.ino = i]
      /\ UNCHANGED <<inode, nextIno, dentry, replaced>> /\ Looks(k) /\ Seen(k) = NoIno
  BY DEF Link, Begins, tree, history, Live, Dirs
<1>2. k \in Keys(nextIno)
  BY KeyOf
<1> HIDE DEF k
<1>3. req'.key = k /\ req'.ino = i /\ DOMAIN req' = Fields
  BY <1>1 DEF NoReq, Fields
<1>4. ~ LeadsTo(dentry, k, i)
  BY <1>1, SeenRight DEF LeadsTo
<1>5. i # Root
  BY <1>1, BalancedIs
<1>6. RequestOK'
  BY <1>1, <1>2, <1>3, <1>4, <1>5 DEF RequestOK, Stages, Keyed, Taken, Moving, Writing
<1>7. NoneHeld(dentry, at', req')
  BY <1>1 DEF NoneHeld, InoHeld, OldHeld, Uncounted, Taken, Keyed
<1>8. QED
  BY <1>1, <1>6, <1>7, BeginsBalanced

LEMMA RenameOK ==
  ASSUME Tabled, Tabled', RequestOK, Balanced, ~ misled', NEW d \in Dirs, NEW n \in Names,
         NEW e \in Dirs, NEW m \in Names, Rename(d, n, e, m)
  PROVE  RequestOK' /\ Balanced'
<1> DEFINE k == <<d, n>>
           l == <<e, m>>
           i == Seen(k)
<1>1. /\ at = "idle" /\ at' = "cut" /\ i # NoIno /\ k # l
      /\ l \in DOMAIN dentry => dentry[l] # i
      /\ req' = [NoReq EXCEPT !.key = k, !.to = l, !.ino = i]
      /\ UNCHANGED <<inode, nextIno, dentry, replaced>> /\ Looks(k)
  BY DEF Rename, Begins, tree, history
<1>2. k \in Keys(nextIno) /\ l \in Keys(nextIno)
  BY KeyOf
<1> HIDE DEF k, l, i
<1>3. req'.key = k /\ req'.to = l /\ req'.ino = i /\ DOMAIN req' = Fields
  BY <1>1 DEF NoReq, Fields
<1>4. LeadsTo(dentry, k, i) /\ ~ LeadsTo(dentry, l, i)
  BY <1>1, SeenRight DEF i, LeadsTo
<1>5. i \in DOMAIN inode \ {Root}
  BY <1>4, BalancedIs DEF LeadsTo
<1>6. RequestOK'
  BY <1>1, <1>2, <1>3, <1>4, <1>5 DEF RequestOK, Stages, Keyed, Taken, Moving, Writing
<1>7. NoneHeld(dentry, at', req')
  BY <1>1, <1>3, <1>4 DEF NoneHeld, InoHeld, OldHeld, Uncounted, Taken, Keyed
<1>8. QED
  BY <1>1, <1>6, <1>7, BeginsBalanced

LEMMA FlushOK ==
  ASSUME Tabled, Tabled', RequestOK, Balanced, RemotePaths, NEW i, Flush(i)
  PROVE  RequestOK' /\ Balanced'
<1>1. i \in DOMAIN inode /\ inode[i].kind = "file"
  BY DEF Flush, Files, Live
<1>2. /\ i # Root /\ dentry[Door] = Notes /\ inode[Notes].kind = "dir"
  BY <1>1, BalancedIs
<1>3. \A p \in BuildPaths(i) : IsPath(p)
  BY <1>2, BuiltPaths DEF Flush
<1>4. PICK p : /\ at = "idle" /\ at' \in Writing /\ IsPath(p)
               /\ req' = [NoReq EXCEPT !.ino = i, !.path = p]
               /\ UNCHANGED <<inode, nextIno, dentry, replaced>>
  BY <1>3 DEF Flush, Begins, tree, history, RemotePaths, Writing
<1>5. req'.ino = i /\ req'.path = p /\ DOMAIN req' = Fields
  BY <1>4 DEF NoReq, Fields
<1>6. RequestOK'
  BY <1>1, <1>2, <1>4, <1>5 DEF RequestOK, Stages, Keyed, Taken, Moving, Writing
<1>7. NoneHeld(dentry, at', req')
  BY <1>4 DEF NoneHeld, InoHeld, OldHeld, Uncounted, Taken, Keyed, Writing
<1>8. QED
  BY <1>4, <1>6, <1>7, BeginsBalanced

LEMMA RequestBegins ==
  ASSUME Tabled, RequestOK, PullOK, Balanced, RemotePaths, ~ misled', Request
  PROVE  RequestOK' /\ PullOK' /\ Balanced'
<1>1. Tabled'
  BY RequestTabled
<1>2. PullOK'
  <2>1. ASSUME NEW d, NEW n, \/ Lookup(d, n) \/ Mkdir(d, n) \/ CreateFile(d, n)
                            \/ Symlink(d, n) \/ Rmdir(d, n) \/ Unlink(d, n)
        PROVE  UNCHANGED <<tree, puller>>
    BY <2>1 DEF Lookup, Mkdir, CreateFile, Symlink, MakeLooks, Rmdir, Unlink
  <2>2. ASSUME NEW d, NEW n, NEW i, Link(i, d, n) PROVE UNCHANGED <<tree, puller>>
    BY <2>2 DEF Link
  <2>3. ASSUME NEW d, NEW n, NEW e, NEW m, Rename(d, n, e, m)
        PROVE  UNCHANGED <<tree, puller>>
    BY <2>3 DEF Rename
  <2>4. ASSUME NEW i, Flush(i) PROVE UNCHANGED <<tree, puller>>
    BY <2>4 DEF Flush
  <2>5. UNCHANGED <<tree, puller>>
    BY <2>1, <2>2, <2>3, <2>4 DEF Request
  <2>6. QED
    BY <2>5 DEF PullOK, AtName, tree, puller
<1>3. ASSUME NEW d, NEW n, Lookup(d, n) PROVE RequestOK' /\ Balanced'
  <2>1. UNCHANGED <<inode, nextIno, dentry, at, req, replaced>>
    BY <1>3 DEF Lookup, tree, session, history
  <2>2. QED
    BY <2>1 DEF RequestOK, Balanced
<1>4. ASSUME NEW d \in Dirs, NEW n \in Names,
             Mkdir(d, n) \/ CreateFile(d, n) \/ Symlink(d, n)
      PROVE  RequestOK' /\ Balanced'
  <2>1. PICK kind \in Kinds : MakeLooks(d, n, kind)
    BY <1>4 DEF Mkdir, CreateFile, Symlink, Kinds
  <2>2. QED
    BY <1>1, <2>1, MakeLooksOK
<1>5. ASSUME NEW d \in Dirs, NEW n \in Names, Rmdir(d, n) \/ Unlink(d, n)
      PROVE  RequestOK' /\ Balanced'
  BY <1>1, <1>5, RemovalOK
<1>6. ASSUME NEW d \in Dirs, NEW n \in Names, NEW i \in Live, Link(i, d, n)
      PROVE  RequestOK' /\ Balanced'
  BY <1>1, <1>6, LinkOK
<1>7. ASSUME NEW d \in Dirs, NEW n \in Names, NEW e \in Dirs, NEW m \in Names,
             Rename(d, n, e, m)
      PROVE  RequestOK' /\ Balanced'
  BY <1>1, <1>7, RenameOK
<1>8. ASSUME NEW i \in Live, Flush(i)
      PROVE  RequestOK' /\ Balanced'
  BY <1>1, <1>8, FlushOK
<1>9. QED
  BY <1>2, <1>3, <1>4, <1>5, <1>6, <1>7, <1>8 DEF Request
-----------------------------------------------------------------------------
(* The request goes on.  What the ledger is while every name is counted:   *)
LEMMA LedgerIs ==
  ASSUME NEW dents, NEW pos, NEW r, ~ Uncounted(dents, pos, r)
  PROVE  /\ \A k : k \in DOMAIN Ledger(dents, pos, r) <=>
                    \/ k \in DOMAIN dents
                    \/ (k = HandKey /\ InoHeld(dents, pos, r))
                    \/ (k = OldKey /\ OldHeld(dents, pos, r))
         /\ \A k \in DOMAIN Ledger(dents, pos, r) :
              Ledger(dents, pos, r)[k] =
                IF k = HandKey THEN r.ino ELSE IF k = OldKey THEN r.old ELSE dents[k]
BY DEF Ledger

(* A statement that leaves the tables alone, and a request that ends with  *)
(* nothing in hand.                                                        *)
LEMMA StillBalanced ==
  ASSUME Tabled, Balanced, UNCHANGED <<inode, dentry, replaced>>,
         InoHeld(dentry, at', req') <=> InoHeld(dentry, at, req),
         OldHeld(dentry, at', req') <=> OldHeld(dentry, at, req),
         ~ Uncounted(dentry, at, req), ~ Uncounted(dentry, at', req'),
         req'.ino = req.ino, OldHeld(dentry, at, req) => req'.old = req.old
  PROVE  Balanced'
<1>1. OldKey \notin DOMAIN dentry
  BY HandKeys DEF Tabled
<1>2. Sound(inode, Ledger(dentry, at', req'), replaced)
  BY <1>1, LedgerStill DEF Balanced
<1>3. QED
  BY <1>2 DEF Balanced

LEMMA EmptyHands ==
  ASSUME Tabled', at' = "idle", Sound(inode', dentry', replaced')
  PROVE  Balanced'
<1>1. NoneHeld(dentry', at', req')
  BY DEF NoneHeld, InoHeld, OldHeld, Uncounted, Taken, Keyed
<1>2. Sound(inode', Ledger(dentry', at', req'), replaced')
  BY <1>1, LedgerNone DEF Tabled
<1>3. QED
  BY <1>2 DEF Balanced

LEMMA OverOK ==
  ASSUME at' = "idle", req' = NoReq
  PROVE  RequestOK'
BY DEF RequestOK, NoReq, Fields, Stages, Keyed, Taken, Moving, Writing

(* The table itself is sound before a request has taken a name. *)
LEMMA BeforeHands ==
  ASSUME Tabled, Balanced, at \in {"idle", "make", "link", "record", "write"}
  PROVE  Sound(inode, dentry, replaced)
<1>1. NoneHeld(dentry, at, req)
  BY DEF NoneHeld, InoHeld, OldHeld, Uncounted, Taken, Keyed
<1>2. QED
  BY <1>1, LedgerNone DEF Balanced, Tabled

LEMMA NodesTyped ==
  ASSUME Tabled PROVE Nodes(inode) /\ nextIno \notin DOMAIN inode /\ nextIno \in Nat
BY DEF Tabled, Typed, Nodes
-----------------------------------------------------------------------------
LEMMA MakeInsertsOK ==
  ASSUME Tabled, Tabled', RequestOK, Balanced, MakeInserts
  PROVE  RequestOK' /\ Balanced'
<1>1. /\ at = "make" /\ at' = "idle" /\ req' = NoReq /\ Makes(req.key, req.kind)
      /\ req.key \in Keys(nextIno) /\ req.kind \in Kinds
  BY DEF MakeInserts, Done, Knows, RequestOK
<1>2. req.key # Door
  BY <1>1, NodesTyped, KeyIs
<1>3. replaced' = replaced \cup (IF req.key \in DOMAIN dentry THEN {dentry[req.key]} ELSE {})
  BY <1>1 DEF Makes, Inserts, Bearer
<1>4. Sound(inode', dentry', replaced')
  BY <1>1, <1>2, <1>3, NodesTyped, BeforeHands, SoundMake DEF Makes, Inserts
<1>5. QED
  BY <1>1, <1>4, EmptyHands, OverOK

(* rmdir, unlink up to the removal of the name. *)
LEMMA ChecksOK ==
  ASSUME Tabled, Tabled', RequestOK, Balanced, RmdirChecks
  PROVE  RequestOK' /\ Balanced'
<1>1. at = "check" /\ UNCHANGED <<inode, nextIno, dentry, replaced>>
  BY DEF RmdirChecks, tree, history
<1>2. CASE Goes("remove")
  <2>1. at' = "remove" /\ req' = req
    BY <1>2 DEF Goes, Knows
  <2>2. RequestOK'
    BY <1>1, <2>1 DEF RequestOK, Stages, Keyed, Taken, Moving, Writing
  <2>3. Balanced'
    BY <1>1, <2>1, StillBalanced DEF InoHeld, OldHeld, Uncounted, Keyed, Taken
  <2>4. QED
    BY <2>2, <2>3
<1>3. CASE Done
  <2> DEFINE led == Ledger(dentry, at, req)
  <2>1. at' = "idle" /\ req' = NoReq
    BY <1>3 DEF Done, Knows
  <2>2. ~ OldHeld(dentry, at, req) /\ ~ Uncounted(dentry, at, req)
    BY <1>1 DEF OldHeld, Uncounted
  <2>3. /\ \A k : k \in DOMAIN led <=> \/ k \in DOMAIN dentry
                                    \/ (k = HandKey /\ InoHeld(dentry, at, req))
        /\ \A k \in DOMAIN led : led[k] = IF k = HandKey THEN req.ino
                                          ELSE IF k = OldKey THEN req.old ELSE dentry[k]
    BY <2>2, LedgerIs
  <2> HIDE DEF led
  <2>4. HandKey \notin DOMAIN dentry /\ OldKey \notin DOMAIN dentry /\ HandKey # Door
    BY HandKeys DEF Tabled
  <2>5. Sound(inode, led, replaced)
    BY DEF Balanced, led
  <2>6. HandKey \in DOMAIN led => inode[led[HandKey]].kind = "dir"
    BY <1>1, <2>3 DEF RequestOK
  <2>7. Sound(inode, Without(led, {HandKey}), replaced)
    BY <2>4, <2>5, <2>6, NodesTyped, SoundLose
  <2>8. /\ DOMAIN dentry = DOMAIN Without(led, {HandKey})
        /\ \A k \in DOMAIN Without(led, {HandKey}) : dentry[k] = Without(led, {HandKey})[k]
    BY <2>3, <2>4 DEF Without
  <2>9. Sound(inode, dentry, replaced)
    BY <2>7, <2>8, SoundSame
  <2>10. QED
    BY <1>1, <2>1, <2>9, EmptyHands, OverOK
<1>4. QED
  BY <1>2, <1>3 DEF RmdirChecks

LEMMA UnlinkOK ==
  ASSUME Tabled, Tabled', RequestOK, Balanced, RemotePaths,
         UnlinkPath \/ UnlinkFinds \/ UnlinkForgets \/ UnlinkEnqueues
  PROVE  RequestOK' /\ Balanced'
<1>1. UNCHANGED <<inode, nextIno, dentry, replaced>>
  BY DEF UnlinkPath, UnlinkFinds, UnlinkForgets, UnlinkEnqueues, tree, history
<1>2. DOMAIN req = Fields
  BY DEF RequestOK
<1>3. /\ at \in {"path", "find", "forget", "delete"}
      /\ at' \in {"find", "forget", "delete", "remove"}
      /\ req'.key = req.key /\ req'.ino = req.ino /\ DOMAIN req' = Fields
      /\ at' \in {"find", "forget", "delete"} => IsPath(req'.path)
  <2>1. CASE UnlinkPath
    <3>1. CASE req.ino \in DOMAIN remote
      <4>1. at = "path" /\ at' = "find" /\ req' = [req EXCEPT !.path = remote[req.ino]]
        BY <2>1, <3>1 DEF UnlinkPath, Knows
      <4>2. QED
        BY <3>1, <4>1, <1>2 DEF Fields, RemotePaths
    <3>2. CASE req.ino \notin DOMAIN remote
      <4>1. at = "path" /\ at' = "remove" /\ req' = req
        BY <2>1, <3>2 DEF UnlinkPath, Knows, Goes
      <4>2. QED
        BY <4>1, <1>2
    <3>3. QED
      BY <3>1, <3>2
  <2>2. CASE UnlinkFinds
    <3>1. /\ at = "find" /\ at' \in {"forget", "delete"}
          /\ req' = req \/ \E j : req' = [req EXCEPT !.old = j]
      BY <2>2 DEF UnlinkFinds, Knows, Goes
    <3>2. QED
      BY <3>1, <1>2 DEF Fields, RequestOK
  <2>3. CASE UnlinkForgets
    <3>1. at = "forget" /\ at' = "delete" /\ req' = [req EXCEPT !.old = NoIno]
      BY <2>3 DEF UnlinkForgets, Knows
    <3>2. QED
      BY <3>1, <1>2 DEF Fields, RequestOK
  <2>4. CASE UnlinkEnqueues
    <3>1. at = "delete" /\ at' = "remove" /\ req' = req
      BY <2>4 DEF UnlinkEnqueues, Knows, Goes
    <3>2. QED
      BY <3>1, <1>2
  <2>5. QED
    BY <2>1, <2>2, <2>3, <2>4
<1>4. RequestOK'
  BY <1>1, <1>3 DEF RequestOK, Stages, Keyed, Taken, Moving, Writing
<1>5. Balanced'
  BY <1>1, <1>3, StillBalanced DEF InoHeld, OldHeld, Uncounted, Keyed, Taken
<1>6. QED
  BY <1>4, <1>5
-----------------------------------------------------------------------------
(* The name goes, and is in hand. *)
LEMMA TakesBalanced ==
  ASSUME Tabled, Tabled', Balanced, NEW k \in Keys(nextIno),
         UNCHANGED inode, dentry' = Without(dentry, {k}),
         NEW h, NEW i,
         ~ Uncounted(dentry, at, req), ~ Uncounted(dentry', at', req'),
         req'.ino = req.ino, req'.old = req.old,
         \/ /\ h = HandKey /\ i = req.ino
            /\ InoHeld(dentry, at, req) <=> ~ LeadsTo(dentry, k, i)
            /\ InoHeld(dentry', at', req')
            /\ ~ OldHeld(dentry, at, req) /\ ~ OldHeld(dentry', at', req')
         \/ /\ h = OldKey /\ i = req.old
            /\ OldHeld(dentry, at, req) <=> ~ LeadsTo(dentry, k, i)
            /\ OldHeld(dentry', at', req')
            /\ InoHeld(dentry, at, req) /\ InoHeld(dentry', at', req'),
         replaced' = replaced \cup (Bearer(k) \ {i})
  PROVE  Balanced'
<1> DEFINE led == Ledger(dentry, at, req)
           led2 == Ledger(dentry', at', req')
<1>1. /\ \A y : y \in DOMAIN led <=> \/ y \in DOMAIN dentry
                                  \/ (y = HandKey /\ InoHeld(dentry, at, req))
                                  \/ (y = OldKey /\ OldHeld(dentry, at, req))
      /\ \A y \in DOMAIN led : led[y] = IF y = HandKey THEN req.ino
                                        ELSE IF y = OldKey THEN req.old ELSE dentry[y]
  BY LedgerIs
<1>2. /\ \A y : y \in DOMAIN led2 <=> \/ y \in DOMAIN dentry'
                                   \/ (y = HandKey /\ InoHeld(dentry', at', req'))
                                   \/ (y = OldKey /\ OldHeld(dentry', at', req'))
      /\ \A y \in DOMAIN led2 : led2[y] = IF y = HandKey THEN req'.ino
                                          ELSE IF y = OldKey THEN req'.old ELSE dentry'[y]
  BY LedgerIs
<1>3. /\ DOMAIN dentry' = DOMAIN dentry \ {k}
      /\ \A y \in DOMAIN dentry' : dentry'[y] = dentry[y]
  BY DEF Without
<1>4. Sound(inode, led, replaced)
  BY DEF Balanced
<1> HIDE DEF led, led2
<1>5. /\ HandKey \notin DOMAIN dentry /\ OldKey \notin DOMAIN dentry /\ HandKey # OldKey
      /\ k # Door /\ k # HandKey /\ k # OldKey
  BY HandKeys, KeyIs, NodesTyped DEF Tabled
<1>6. LeadsTo(led, k, i) <=> LeadsTo(dentry, k, i)
  BY <1>1, <1>5 DEF LeadsTo
<1>7. IF LeadsTo(led, k, i) THEN h \notin DOMAIN led ELSE LeadsTo(led, h, i)
  <2>1. CASE h = HandKey
    BY <2>1, <1>1, <1>5, <1>6 DEF LeadsTo
  <2>2. CASE h = OldKey
    BY <2>2, <1>1, <1>5, <1>6 DEF LeadsTo
  <2>3. QED
    BY <2>1, <2>2
<1>8. DOMAIN led2 = (DOMAIN led \ {k}) \cup {h}
  <2>1. CASE h = HandKey
    BY <2>1, <1>1, <1>2, <1>3, <1>5
  <2>2. CASE h = OldKey
    BY <2>2, <1>1, <1>2, <1>3, <1>5
  <2>3. QED
    BY <2>1, <2>2
<1>9. ASSUME NEW y \in DOMAIN led2 PROVE led2[y] = IF y = h THEN i ELSE led[y]
  <2>1. CASE y = h
    BY <2>1, <1>2, <1>5
  <2>2. CASE y # h
    <3>1. y \in DOMAIN led /\ y # k
      BY <2>2, <1>8, <1>5, <1>9
    <3>2. y # HandKey /\ y # OldKey => y \in DOMAIN dentry'
      BY <1>2, <1>9
    <3>3. QED
      BY <2>2, <3>1, <3>2, <1>1, <1>2, <1>3
  <2>3. QED
    BY <2>1, <2>2
<1>10. k \in DOMAIN led /\ led[k] # i => led[k] \in replaced'
  BY <1>1, <1>5 DEF Bearer
<1>11. h # k
  BY <1>5
<1>12. Sound(inode, led2, replaced')
  <2>1. IsTaken(led, k, h, i, replaced', led2)
    BY <1>5, <1>7, <1>8, <1>9, <1>10, <1>11 DEF IsTaken
  <2>2. replaced \subseteq replaced'
    OBVIOUS
  <2>3. QED
    BY <2>1, <2>2, <1>4, NodesTyped, SoundTaken
<1>13. QED
  BY <1>12 DEF Balanced, led2

LEMMA TakesOK ==
  ASSUME Tabled, Tabled', RequestOK, Balanced,
         RequestRemoves \/ RenameRemoves \/ RenameClears
  PROVE  RequestOK' /\ Balanced'
<1>1. UNCHANGED <<inode, nextIno, req>>
  BY DEF RequestRemoves, RenameRemoves, RenameClears, Goes, Knows
<1>2. ASSUME NEW k, dentry' = Without(dentry, {k}), NEW l, NEW i,
             ~ LeadsTo(dentry, l, i)
      PROVE  ~ LeadsTo(dentry', l, i)
  BY <1>2 DEF LeadsTo, Without
<1>3. ASSUME NEW k, dentry' = Without(dentry, {k}), NEW i
      PROVE  ~ LeadsTo(dentry', k, i)
  BY <1>3 DEF LeadsTo, Without
<1>4. CASE RequestRemoves
  <2>1. /\ at = "remove" /\ at' = "drop" /\ dentry' = Without(dentry, {req.key})
        /\ replaced' = replaced \cup (Bearer(req.key) \ {req.ino})
    BY <1>4 DEF RequestRemoves, Removes, Goes, Knows
  <2>2. RequestOK'
    BY <1>1, <2>1 DEF RequestOK, Stages, Keyed, Taken, Moving, Writing
  <2>3. req.key \in Keys(nextIno)
    BY <2>1 DEF RequestOK, Keyed
  <2>4. Balanced'
    BY <1>1, <2>1, <2>3, TakesBalanced DEF InoHeld, OldHeld, Uncounted, Keyed, Taken
  <2>5. QED
    BY <2>2, <2>4
<1>5. CASE RenameRemoves
  <2>1. /\ at = "cut" /\ at' = "seek" /\ dentry' = Without(dentry, {req.key})
        /\ replaced' = replaced \cup (Bearer(req.key) \ {req.ino})
    BY <1>5 DEF RenameRemoves, Goes, Knows
  <2>2. ~ LeadsTo(dentry', req.to, req.ino)
    BY <1>2, <2>1 DEF RequestOK, Moving
  <2>3. RequestOK'
    BY <1>1, <2>1, <2>2 DEF RequestOK, Stages, Keyed, Taken, Moving, Writing
  <2>4. req.key \in Keys(nextIno)
    BY <2>1 DEF RequestOK, Keyed
  <2>5. Balanced'
    BY <1>1, <2>1, <2>4, TakesBalanced DEF InoHeld, OldHeld, Uncounted, Keyed, Taken
  <2>6. QED
    BY <2>3, <2>5
<1>6. CASE RenameClears
  <2>1. /\ at = "clear" /\ at' = "lower" /\ dentry' = Without(dentry, {req.to})
        /\ replaced' = replaced \cup (Bearer(req.to) \ {req.old})
    BY <1>6 DEF RenameClears, Removes, Goes, Knows
  <2>2. ~ LeadsTo(dentry', req.to, req.ino)
    BY <1>3, <2>1
  <2>3. RequestOK'
    BY <1>1, <2>1, <2>2 DEF RequestOK, Stages, Keyed, Taken, Moving, Writing
  <2>4. req.to \in Keys(nextIno)
    BY <2>1 DEF RequestOK, Moving, Taken
  <2>5. Balanced'
    BY <1>1, <2>1, <2>4, TakesBalanced DEF InoHeld, OldHeld, Uncounted, Keyed, Taken
  <2>6. QED
    BY <2>3, <2>5
<1>7. QED
  BY <1>4, <1>5, <1>6
-----------------------------------------------------------------------------
(* The link in hand goes. *)
LEMMA DropsOK ==
  ASSUME Tabled, Tabled', RequestOK, Balanced, RequestDrops \/ RenameDrops
  PROVE  RequestOK' /\ Balanced'
<1> DEFINE led == Ledger(dentry, at, req)
<1>1. ~ Uncounted(dentry, at, req)
  BY DEF RequestDrops, RenameDrops, Uncounted
<1>2. /\ \A y : y \in DOMAIN led <=> \/ y \in DOMAIN dentry
                                  \/ (y = HandKey /\ InoHeld(dentry, at, req))
                                  \/ (y = OldKey /\ OldHeld(dentry, at, req))
      /\ \A y \in DOMAIN led : led[y] = IF y = HandKey THEN req.ino
                                        ELSE IF y = OldKey THEN req.old ELSE dentry[y]
  BY <1>1, LedgerIs
<1>3. Sound(inode, led, replaced)
  BY DEF Balanced
<1> HIDE DEF led
<1>4. /\ HandKey \notin DOMAIN dentry /\ OldKey \notin DOMAIN dentry /\ HandKey # OldKey
      /\ HandKey # Door /\ OldKey # Door
  BY HandKeys DEF Tabled
<1>5. ASSUME NEW h \in DOMAIN led, h # Door, NEW i, led[h] = i, inode' = Dropped(inode, i)
      PROVE  Sound(inode', Without(led, {h}), replaced)
  BY <1>3, <1>5, NodesTyped, SoundUnlink
<1>6. CASE RequestDrops
  <2>1. /\ at = "drop" /\ at' = "idle" /\ req' = NoReq /\ inode' = Dropped(inode, req.ino)
        /\ UNCHANGED <<dentry, replaced>>
    BY <1>6 DEF RequestDrops, Done, Knows, Drops
  <2>2. InoHeld(dentry, at, req) /\ ~ OldHeld(dentry, at, req)
    BY <2>1 DEF InoHeld, OldHeld
  <2>3. Sound(inode', Without(led, {HandKey}), replaced)
    BY <2>1, <2>2, <1>2, <1>4, <1>5
  <2>4. /\ DOMAIN dentry = DOMAIN Without(led, {HandKey})
        /\ \A k \in DOMAIN Without(led, {HandKey}) : dentry[k] = Without(led, {HandKey})[k]
    BY <2>2, <1>2, <1>4 DEF Without
  <2>5. Sound(inode', dentry, replaced)
    BY <2>3, <2>4, SoundSame
  <2>6. QED
    BY <2>1, <2>5, EmptyHands, OverOK
<1>7. CASE RenameDrops
  <2> DEFINE led2 == Ledger(dentry', at', req')
  <2>1. /\ at = "lower" /\ at' = "source" /\ req' = [req EXCEPT !.old = NoIno]
        /\ inode' = Dropped(inode, req.old) /\ UNCHANGED <<nextIno, dentry, replaced>>
    BY <1>7 DEF RenameDrops, Knows, Drops
  <2>2. InoHeld(dentry, at, req) /\ OldHeld(dentry, at, req)
    BY <2>1 DEF InoHeld, OldHeld, Taken
  <2>3. /\ ~ Uncounted(dentry', at', req') /\ InoHeld(dentry', at', req')
        /\ ~ OldHeld(dentry', at', req')
    BY <2>1 DEF InoHeld, OldHeld, Uncounted, Taken
  <2>4. /\ req'.ino = req.ino /\ req'.to = req.to /\ DOMAIN req' = Fields
    BY <2>1 DEF RequestOK, Fields
  <2>5. /\ \A y : y \in DOMAIN led2 <=> \/ y \in DOMAIN dentry
                                     \/ y = HandKey
        /\ \A y \in DOMAIN led2 : led2[y] = IF y = HandKey THEN req.ino
                                            ELSE IF y = OldKey THEN req'.old ELSE dentry[y]
    BY <2>1, <2>3, <2>4, LedgerIs
  <2> HIDE DEF led2
  <2>6. Sound(inode', Without(led, {OldKey}), replaced)
    BY <2>1, <2>2, <1>2, <1>4, <1>5
  <2>7. /\ DOMAIN led2 = DOMAIN Without(led, {OldKey})
        /\ \A k \in DOMAIN Without(led, {OldKey}) : led2[k] = Without(led, {OldKey})[k]
    BY <2>2, <2>5, <1>2, <1>4 DEF Without
  <2>8. Sound(inode', led2, replaced)
    BY <2>6, <2>7, SoundSame
  <2>9. OneFewer(inode, req.old, inode')
    BY <2>1, NodesTyped, DroppedIs
  <2>10. req.ino \in DOMAIN inode' \ {Root}
    BY <2>1, <2>9 DEF OneFewer, RequestOK
  <2>11. req'.to \in Keys(nextIno') /\ ~ LeadsTo(dentry', req'.to, req'.ino)
    BY <2>1, <2>4 DEF RequestOK, Moving, Taken
  <2>12. RequestOK'
    BY <2>1, <2>4, <2>10, <2>11 DEF RequestOK, Stages, Keyed, Taken, Moving, Writing
  <2>13. QED
    BY <2>1, <2>8, <2>12 DEF Balanced, led2
<1>8. QED
  BY <1>6, <1>7
-----------------------------------------------------------------------------
(* link: a name that is not counted yet, and its count.                    *)
LEMMA UncountedIs ==
  ASSUME Tabled, at = "count", LeadsTo(dentry, req.key, req.ino)
  PROVE  /\ DOMAIN Ledger(dentry, at, req) = DOMAIN dentry \ {req.key}
         /\ \A k \in DOMAIN dentry \ {req.key} : Ledger(dentry, at, req)[k] = dentry[k]
<1>1. /\ Uncounted(dentry, at, req) /\ ~ InoHeld(dentry, at, req) /\ ~ OldHeld(dentry, at, req)
  BY DEF Uncounted, InoHeld, OldHeld, Keyed, Taken
<1>2. HandKey \notin DOMAIN dentry /\ OldKey \notin DOMAIN dentry
  BY HandKeys DEF Tabled
<1>3. QED
  BY <1>1, <1>2 DEF Ledger

LEMMA LinkInsertsOK ==
  ASSUME Tabled, Tabled', RequestOK, Balanced, LinkInserts
  PROVE  RequestOK' /\ Balanced'
<1>1. /\ at = "link" /\ at' = "count" /\ req' = req
      /\ dentry' = With(dentry, req.key, req.ino)
      /\ replaced' = replaced \cup Bearer(req.key) /\ UNCHANGED <<inode, nextIno>>
  BY DEF LinkInserts, Goes, Knows, Inserts
<1>2. req.key \in Keys(nextIno) /\ ~ LeadsTo(dentry, req.key, req.ino)
  BY <1>1 DEF RequestOK
<1>3. req.key # Door
  BY <1>2, NodesTyped, KeyIs
<1>4. LeadsTo(dentry', req'.key, req'.ino)
  BY <1>1 DEF LeadsTo, With
<1>5. RequestOK'
  BY <1>1, <1>2, <1>4 DEF RequestOK, Stages, Keyed, Taken, Moving, Writing
<1>6. Sound(inode, dentry, replaced)
  BY <1>1, BeforeHands
<1>7. Sound(inode, Without(dentry, {req.key}), replaced')
  <2>1. req.key \in DOMAIN dentry => dentry[req.key] \in replaced'
    BY <1>1 DEF Bearer
  <2>2. QED
    BY <2>1, <1>1, <1>3, <1>6, NodesTyped, SoundLose
<1>8. /\ DOMAIN Ledger(dentry', at', req') = DOMAIN dentry' \ {req.key}
      /\ \A k \in DOMAIN dentry' \ {req.key} : Ledger(dentry', at', req')[k] = dentry'[k]
  <2>1. /\ DOMAIN Ledger(dentry', at', req') = DOMAIN dentry' \ {req'.key}
        /\ \A k \in DOMAIN dentry' \ {req'.key} : Ledger(dentry', at', req')[k] = dentry'[k]
    <3>1. Uncounted(dentry', at', req') /\ ~ InoHeld(dentry', at', req')
          /\ ~ OldHeld(dentry', at', req')
      BY <1>1, <1>4 DEF Uncounted, InoHeld, OldHeld, Keyed, Taken
    <3>2. HandKey \notin DOMAIN dentry' /\ OldKey \notin DOMAIN dentry'
      BY HandKeys DEF Tabled
    <3>3. QED
      BY <3>1, <3>2 DEF Ledger
  <2>2. QED
    BY <2>1, <1>1
<1> DEFINE led2 == Ledger(dentry', at', req')
<1>9. /\ DOMAIN led2 = DOMAIN Without(dentry, {req.key})
      /\ \A k \in DOMAIN Without(dentry, {req.key}) :
           led2[k] = Without(dentry, {req.key})[k]
  BY <1>1, <1>8 DEF Without, With
<1> HIDE DEF led2
<1>10. Sound(inode, led2, replaced')
  BY <1>7, <1>9, SoundSame
<1>11. QED
  BY <1>1, <1>5, <1>10 DEF Balanced, led2

LEMMA LinkCountsOK ==
  ASSUME Tabled, Tabled', RequestOK, Balanced, LinkCounts
  PROVE  RequestOK' /\ Balanced'
<1>1. /\ at = "count" /\ at' = "idle" /\ req' = NoReq
      /\ inode' = [inode EXCEPT ![req.ino].nlink = @ + 1]
      /\ UNCHANGED <<dentry, replaced>>
  BY DEF LinkCounts, Done, Knows, history
<1>2. req.ino \in DOMAIN inode /\ inode[req.ino].kind # "dir" /\ req.key \in Keys(nextIno)
  BY <1>1 DEF RequestOK
<1>3. OneMore(inode, req.ino, inode')
  BY <1>1, <1>2, NodesTyped, RaisedIs
<1> DEFINE led == Ledger(dentry, at, req)
<1>4. Sound(inode, led, replaced)
  BY DEF Balanced
<1>5. CASE LeadsTo(dentry, req.key, req.ino)
  <2>1. /\ DOMAIN led = DOMAIN dentry \ {req.key}
        /\ \A k \in DOMAIN dentry \ {req.key} : led[k] = dentry[k]
    BY <1>1, <1>5, UncountedIs
  <2> HIDE DEF led
  <2>2. req.key \notin DOMAIN led
    BY <2>1
  <2>3. Sound(inode', With(led, req.key, req.ino), replaced)
    BY <2>2, <1>2, <1>3, <1>4, NodesTyped, SoundLink
  <2>4. /\ DOMAIN dentry = DOMAIN With(led, req.key, req.ino)
        /\ \A k \in DOMAIN With(led, req.key, req.ino) :
             dentry[k] = With(led, req.key, req.ino)[k]
    BY <2>1, <1>5 DEF With, LeadsTo
  <2>5. Sound(inode', dentry, replaced)
    BY <2>3, <2>4, SoundSame
  <2>6. QED
    BY <2>5, <1>1, EmptyHands, OverOK
<1>6. CASE ~ LeadsTo(dentry, req.key, req.ino)
  <2>1. req.ino \in replaced
    BY <1>1, <1>6 DEF RequestOK
  <2>2. NoneHeld(dentry, at, req)
    BY <1>1, <1>6 DEF NoneHeld, Uncounted, InoHeld, OldHeld, Keyed, Taken
  <2>3. Sound(inode, dentry, replaced)
    BY <2>2, <1>4, LedgerNone DEF Tabled
  <2>4. Sound(inode', dentry, replaced)
    BY <2>1, <2>3, <1>2, <1>3, NodesTyped, SoundRaise
  <2>5. QED
    BY <2>4, <1>1, EmptyHands, OverOK
<1>7. QED
  BY <1>5, <1>6
-----------------------------------------------------------------------------
(* rename: the new name. *)
LEMMA SeeksOK ==
  ASSUME Tabled, Tabled', RequestOK, Balanced, ~ misled', RenameSeeks
  PROVE  RequestOK' /\ Balanced'
<1>1. at = "seek" /\ UNCHANGED <<inode, nextIno, dentry, replaced>> /\ Looks(req.to)
  BY DEF RenameSeeks, tree, history
<1>2. DOMAIN req = Fields /\ req.ino \in DOMAIN inode \ {Root}
      /\ req.to \in Keys(nextIno) /\ ~ LeadsTo(dentry, req.to, req.ino)
  BY <1>1 DEF RequestOK, Moving, Taken
<1>3. CASE Seen(req.to) = NoIno
  <2>1. at' = "source" /\ req' = req
    BY <1>3 DEF RenameSeeks, Goes, Knows
  <2>2. RequestOK'
    BY <1>1, <1>2, <2>1 DEF RequestOK, Stages, Keyed, Taken, Moving, Writing
  <2>3. Balanced'
    BY <1>1, <2>1, StillBalanced DEF InoHeld, OldHeld, Uncounted, Keyed, Taken
  <2>4. QED
    BY <2>2, <2>3
<1>4. CASE Seen(req.to) # NoIno
  <2> DEFINE old == Seen(req.to)
  <2>1. at' = "clear" /\ req' = [req EXCEPT !.old = old]
    BY <1>4 DEF RenameSeeks, Knows
  <2>2. LeadsTo(dentry, req.to, old)
    BY <1>1, <1>4, SeenRight
  <2> HIDE DEF old
  <2>3. /\ req'.ino = req.ino /\ req'.to = req.to /\ req'.old = old /\ DOMAIN req' = Fields
    BY <2>1, <1>2 DEF Fields
  <2>4. old \in DOMAIN inode \ {Root, req.ino}
    BY <2>2, <1>2, BalancedIs DEF LeadsTo
  <2>5. RequestOK'
    BY <1>1, <1>2, <2>1, <2>3, <2>4 DEF RequestOK, Stages, Keyed, Taken, Moving, Writing
  <2>6. Balanced'
    BY <1>1, <2>1, <2>2, <2>3, StillBalanced DEF InoHeld, OldHeld, Uncounted, Keyed, Taken
  <2>7. QED
    BY <2>5, <2>6
<1>5. QED
  BY <1>3, <1>4

LEMMA RenameGoesOK ==
  ASSUME Tabled, Tabled', RequestOK, Balanced, RemotePaths, RenamePath \/ RenameEnqueues
  PROVE  RequestOK' /\ Balanced'
<1>1. UNCHANGED <<inode, nextIno, dentry, replaced>>
  BY DEF RenamePath, RenameEnqueues, tree, history
<1>2. DOMAIN req = Fields
  BY DEF RequestOK
<1>3. /\ at \in {"source", "rename"} /\ at' \in {"rename", "move"}
      /\ req'.to = req.to /\ req'.ino = req.ino /\ DOMAIN req' = Fields
      /\ at' = "rename" => IsPath(req'.path)
  <2>1. CASE RenamePath
    <3>1. CASE req.ino \in DOMAIN remote
      <4>1. at = "source" /\ at' = "rename" /\ req' = [req EXCEPT !.path = remote[req.ino]]
        BY <2>1, <3>1 DEF RenamePath, Knows
      <4>2. QED
        BY <3>1, <4>1, <1>2 DEF Fields, RemotePaths
    <3>2. CASE req.ino \notin DOMAIN remote
      <4>1. at = "source" /\ at' = "move" /\ req' = req
        BY <2>1, <3>2 DEF RenamePath, Knows, Goes
      <4>2. QED
        BY <4>1, <1>2
    <3>3. QED
      BY <3>1, <3>2
  <2>2. CASE RenameEnqueues
    <3>1. at = "rename" /\ at' = "move" /\ req' = req
      BY <2>2 DEF RenameEnqueues, Knows, Goes
    <3>2. QED
      BY <3>1, <1>2
  <2>3. QED
    BY <2>1, <2>2
<1>4. RequestOK'
  BY <1>1, <1>3 DEF RequestOK, Stages, Keyed, Taken, Moving, Writing
<1>5. Balanced'
  BY <1>1, <1>3, StillBalanced DEF InoHeld, OldHeld, Uncounted, Keyed, Taken
<1>6. QED
  BY <1>4, <1>5

LEMMA RenameInsertsOK ==
  ASSUME Tabled, Tabled', RequestOK, Balanced, RenameInserts
  PROVE  RequestOK' /\ Balanced'
<1> DEFINE led == Ledger(dentry, at, req)
           bare == Without(led, {req.to})
<1>1. /\ at = "move" /\ at' = "idle" /\ req' = NoReq
      /\ dentry' = With(dentry, req.to, req.ino)
      /\ replaced' = replaced \cup Bearer(req.to) /\ UNCHANGED inode
  BY DEF RenameInserts, Done, Knows, Inserts
<1>2. /\ InoHeld(dentry, at, req) /\ ~ OldHeld(dentry, at, req) /\ ~ Uncounted(dentry, at, req)
  BY <1>1 DEF InoHeld, OldHeld, Uncounted, Taken
<1>3. /\ \A y : y \in DOMAIN led <=> \/ y \in DOMAIN dentry
                                  \/ y = HandKey
      /\ \A y \in DOMAIN led : led[y] = IF y = HandKey THEN req.ino
                                        ELSE IF y = OldKey THEN req.old ELSE dentry[y]
  BY <1>2, LedgerIs
<1>4. Sound(inode, led, replaced)
  BY DEF Balanced
<1> HIDE DEF led
<1>5. req.to \in Keys(nextIno)
  BY <1>1 DEF RequestOK, Moving, Taken
<1>6. /\ HandKey \notin DOMAIN dentry /\ OldKey \notin DOMAIN dentry /\ HandKey # Door
      /\ req.to # Door /\ req.to # HandKey /\ req.to # OldKey
  BY <1>5, HandKeys, KeyIs, NodesTyped DEF Tabled
<1>7. req.to \in DOMAIN led => led[req.to] \in replaced'
  BY <1>1, <1>3, <1>6 DEF Bearer
<1>8. replaced \subseteq replaced'
  BY <1>1
<1>9. Sound(inode, bare, replaced')
  BY <1>4, <1>6, <1>7, <1>8, NodesTyped, SoundLose
<1>10. /\ HandKey \in DOMAIN bare /\ bare[HandKey] = req.ino /\ req.to \notin DOMAIN bare
  BY <1>3, <1>6 DEF Without
<1>11. /\ DOMAIN dentry' = DOMAIN With(Without(bare, {HandKey}), req.to, req.ino)
       /\ \A k \in DOMAIN With(Without(bare, {HandKey}), req.to, req.ino) :
            dentry'[k] = With(Without(bare, {HandKey}), req.to, req.ino)[k]
  BY <1>1, <1>3, <1>6 DEF Without, With
<1> HIDE DEF bare
<1>12. Sound(inode, With(Without(bare, {HandKey}), req.to, req.ino), replaced')
  BY <1>6, <1>9, <1>10, SoundRekey
<1>13. Sound(inode, dentry', replaced')
  BY <1>11, <1>12, SoundSame
<1>14. QED
  BY <1>1, <1>13, EmptyHands, OverOK

LEMMA FlushGoesOK ==
  ASSUME Tabled, Tabled', RequestOK, Balanced, FlushRecords \/ FlushEnqueues
  PROVE  RequestOK' /\ Balanced'
<1>1. UNCHANGED <<inode, nextIno, dentry, replaced>>
  BY DEF FlushRecords, FlushEnqueues, tree, history
<1>2. CASE FlushRecords
  <2>1. at = "record" /\ at' = "write" /\ req' = req
    BY <1>2 DEF FlushRecords, Goes, Knows
  <2>2. RequestOK'
    BY <1>1, <2>1 DEF RequestOK, Stages, Keyed, Taken, Moving, Writing
  <2>3. Balanced'
    BY <1>1, <2>1, StillBalanced DEF InoHeld, OldHeld, Uncounted, Keyed, Taken
  <2>4. QED
    BY <2>2, <2>3
<1>3. CASE FlushEnqueues
  <2>1. at = "write" /\ at' = "idle" /\ req' = NoReq
    BY <1>3 DEF FlushEnqueues, Done, Knows
  <2>2. Sound(inode, dentry, replaced)
    BY <2>1, BeforeHands
  <2>3. QED
    BY <1>1, <2>1, <2>2, EmptyHands, OverOK
<1>4. QED
  BY <1>2, <1>3
-----------------------------------------------------------------------------
(* The pull does not mind. *)
LEMMA PullKept ==
  ASSUME Tabled, PullOK, UNCHANGED puller, nextIno' \in {nextIno, nextIno + 1},
         \A i \in DOMAIN inode' : i # nextIno =>
           i \in DOMAIN inode /\ inode'[i].kind = inode[i].kind
  PROVE  PullOK'
<1>1. nextIno \in Nat /\ stage' = stage /\ pull' = pull
  BY NodesTyped DEF puller
<1>2. 1..(nextIno - 1) \subseteq 1..(nextIno' - 1) /\ 2..(nextIno - 1) \subseteq 2..(nextIno' - 1)
      /\ nextIno \notin 2..(nextIno - 1)
  <2>1. ASSUME NEW new \in {nextIno, nextIno + 1}
        PROVE  /\ 1..(nextIno - 1) \subseteq 1..(new - 1)
               /\ 2..(nextIno - 1) \subseteq 2..(new - 1)
    BY <1>1
  <2>2. 1..(nextIno - 1) \subseteq 1..(nextIno' - 1)
    BY <2>1, Zenon
  <2>3. 2..(nextIno - 1) \subseteq 2..(nextIno' - 1)
    BY <2>1, Zenon
  <2>4. nextIno \notin 2..(nextIno - 1)
    BY <1>1
  <2>5. QED
    BY <2>2, <2>3, <2>4, Zenon
<1>3. AtName' <=> AtName
  BY <1>1 DEF AtName
<1>4. stage = "record" /\ pull.ino \in DOMAIN inode' => inode'[pull.ino].kind = "file"
  BY <1>2 DEF PullOK
<1>5. QED
  BY <1>1, <1>2, <1>3, <1>4 DEF PullOK

LEMMA ProceedKinds ==
  ASSUME Tabled, RequestOK, Proceed
  PROVE  /\ UNCHANGED puller /\ nextIno' \in {nextIno, nextIno + 1}
         /\ \A i \in DOMAIN inode' : i # nextIno =>
              i \in DOMAIN inode /\ inode'[i].kind = inode[i].kind
<1>1. CASE MakeInserts
  BY <1>1 DEF MakeInserts, Makes, With
<1>2. CASE RequestDrops
  <2>1. inode' = Dropped(inode, req.ino) /\ nextIno' = nextIno /\ UNCHANGED puller
    BY <1>2 DEF RequestDrops, Drops
  <2>2. OneFewer(inode, req.ino, inode')
    BY <2>1, NodesTyped, DroppedIs
  <2>3. QED
    BY <2>1, <2>2 DEF OneFewer
<1>3. CASE RenameDrops
  <2>1. inode' = Dropped(inode, req.old) /\ nextIno' = nextIno /\ UNCHANGED puller
    BY <1>3 DEF RenameDrops, Drops
  <2>2. OneFewer(inode, req.old, inode')
    BY <2>1, NodesTyped, DroppedIs
  <2>3. QED
    BY <2>1, <2>2 DEF OneFewer
<1>4. CASE LinkCounts
  <2>1. /\ inode' = [inode EXCEPT ![req.ino].nlink = @ + 1] /\ nextIno' = nextIno
        /\ req.ino \in DOMAIN inode /\ UNCHANGED puller
    BY <1>4 DEF LinkCounts, RequestOK
  <2>2. OneMore(inode, req.ino, inode')
    BY <2>1, NodesTyped, RaisedIs
  <2>3. QED
    BY <2>1, <2>2 DEF OneMore
<1>5. CASE \/ RmdirChecks \/ UnlinkPath \/ UnlinkFinds \/ UnlinkForgets \/ UnlinkEnqueues
           \/ RequestRemoves \/ LinkInserts \/ RenameRemoves \/ RenameSeeks \/ RenameClears
           \/ RenamePath \/ RenameEnqueues \/ RenameInserts \/ FlushRecords \/ FlushEnqueues
  <2>1. UNCHANGED <<inode, nextIno, puller>>
    BY <1>5 DEF RmdirChecks, UnlinkPath, UnlinkFinds, UnlinkForgets, UnlinkEnqueues,
       RequestRemoves, LinkInserts, RenameRemoves, RenameSeeks, RenameClears, RenamePath,
       RenameEnqueues, RenameInserts, FlushRecords, FlushEnqueues, tree
  <2>2. QED
    BY <2>1
<1>6. QED
  BY <1>1, <1>2, <1>3, <1>4, <1>5 DEF Proceed

LEMMA ProceedBalanced ==
  ASSUME Tabled, RequestOK, PullOK, Balanced, RemotePaths, ~ misled', Proceed
  PROVE  RequestOK' /\ PullOK' /\ Balanced'
<1>1. Tabled'
  BY ProceedTabled
<1>2. PullOK'
  BY ProceedKinds, PullKept
<1>3. RequestOK' /\ Balanced'
  BY <1>1, MakeInsertsOK, ChecksOK, UnlinkOK, TakesOK, DropsOK, LinkInsertsOK, LinkCountsOK,
     SeeksOK, RenameGoesOK, RenameInsertsOK, FlushGoesOK DEF Proceed
<1>4. QED
  BY <1>2, <1>3
-----------------------------------------------------------------------------
(* The pull makes an inode while a request has names in hand.  The new     *)
(* entry is one more in the ledger, or what it replaces comes into the     *)
(* hand of the request that was about to take it.                          *)
LEMMA LedgerMade ==
  ASSUME Tabled, Tabled', RequestOK, NEW c \in Keys(nextIno), NEW kind, Makes(c, kind),
         UNCHANGED session,
         InoHeld(dentry', at, req) <=> InoHeld(dentry, at, req),
         OldHeld(dentry', at, req) <=> OldHeld(dentry, at, req)
  PROVE  /\ DOMAIN Ledger(dentry', at, req) = DOMAIN Ledger(dentry, at, req) \cup {c}
         /\ \A k \in DOMAIN Ledger(dentry', at, req) :
              Ledger(dentry', at, req)[k] =
                IF k = c THEN nextIno ELSE Ledger(dentry, at, req)[k]
<1> DEFINE led == Ledger(dentry, at, req)
           led2 == Ledger(dentry', at, req)
<1>1. /\ DOMAIN dentry' = DOMAIN dentry \cup {c} /\ dentry'[c] = nextIno
      /\ \A k \in DOMAIN dentry : k # c => dentry'[k] = dentry[k]
  BY DEF Makes, Inserts, With
<1>2. /\ HandKey \notin DOMAIN dentry /\ OldKey \notin DOMAIN dentry /\ HandKey # OldKey
      /\ c # HandKey /\ c # OldKey
  BY HandKeys, KeyIs, NodesTyped DEF Tabled
<1>3. CASE Uncounted(dentry, at, req)
  <2>1. at = "count" /\ LeadsTo(dentry, req.key, req.ino)
    BY <1>3 DEF Uncounted
  <2>2. /\ DOMAIN led = DOMAIN dentry \ {req.key}
        /\ \A k \in DOMAIN dentry \ {req.key} : led[k] = dentry[k]
    BY <2>1, UncountedIs
  <2>3. CASE c = req.key
    <3>1. req.ino # nextIno
      BY <2>1, NodesTyped DEF RequestOK
    <3>2. ~ LeadsTo(dentry', req.key, req.ino)
      BY <2>3, <3>1, <1>1 DEF LeadsTo
    <3>3. /\ ~ Uncounted(dentry', at, req) /\ ~ InoHeld(dentry', at, req)
          /\ ~ OldHeld(dentry', at, req)
      BY <2>1, <3>2 DEF Uncounted, InoHeld, OldHeld, Keyed, Taken
    <3>4. /\ \A k : k \in DOMAIN led2 <=> k \in DOMAIN dentry'
          /\ \A k \in DOMAIN led2 : led2[k] = IF k = HandKey THEN req.ino
                                              ELSE IF k = OldKey THEN req.old ELSE dentry'[k]
      BY <3>3, LedgerIs
    <3> HIDE DEF led, led2
    <3>5. DOMAIN led2 = DOMAIN led \cup {c}
      BY <2>1, <2>2, <2>3, <3>4, <1>1 DEF LeadsTo
    <3>6. \A k \in DOMAIN led2 : led2[k] = IF k = c THEN nextIno ELSE led[k]
      BY <2>2, <2>3, <3>4, <1>1, <1>2
    <3>7. QED
      BY <3>5, <3>6 DEF led, led2
  <2>4. CASE c # req.key
    <3>1. LeadsTo(dentry', req.key, req.ino)
      BY <2>1, <2>4, <1>1 DEF LeadsTo
    <3>2. /\ Uncounted(dentry', at, req) /\ ~ InoHeld(dentry', at, req)
          /\ ~ OldHeld(dentry', at, req)
      BY <2>1, <3>1 DEF Uncounted, InoHeld, OldHeld, Keyed, Taken
    <3>3. /\ DOMAIN led2 = DOMAIN dentry' \ {req.key}
          /\ \A k \in DOMAIN dentry' \ {req.key} : led2[k] = dentry'[k]
      BY <3>2, <1>1, <1>2 DEF Ledger
    <3> HIDE DEF led, led2
    <3>4. DOMAIN led2 = DOMAIN led \cup {c}
      BY <2>2, <2>4, <3>3, <1>1
    <3>5. \A k \in DOMAIN led2 : led2[k] = IF k = c THEN nextIno ELSE led[k]
      BY <2>2, <2>4, <3>3, <1>1
    <3>6. QED
      BY <3>4, <3>5 DEF led, led2
  <2>5. QED
    BY <2>3, <2>4
<1>4. CASE ~ Uncounted(dentry, at, req)
  <2>1. ~ Uncounted(dentry', at, req)
    <3>1. at = "count" => req.ino # nextIno
      BY NodesTyped DEF RequestOK
    <3>2. QED
      BY <3>1, <1>1, <1>4 DEF Uncounted, LeadsTo
  <2>2. /\ \A y : y \in DOMAIN led <=> \/ y \in DOMAIN dentry
                                    \/ (y = HandKey /\ InoHeld(dentry, at, req))
                                    \/ (y = OldKey /\ OldHeld(dentry, at, req))
        /\ \A y \in DOMAIN led : led[y] = IF y = HandKey THEN req.ino
                                          ELSE IF y = OldKey THEN req.old ELSE dentry[y]
    BY <1>4, LedgerIs
  <2>3. /\ \A y : y \in DOMAIN led2 <=> \/ y \in DOMAIN dentry'
                                     \/ (y = HandKey /\ InoHeld(dentry', at, req))
                                     \/ (y = OldKey /\ OldHeld(dentry', at, req))
        /\ \A y \in DOMAIN led2 : led2[y] = IF y = HandKey THEN req.ino
                                            ELSE IF y = OldKey THEN req.old ELSE dentry'[y]
    BY <2>1, LedgerIs
  <2> HIDE DEF led, led2
  <2>4. DOMAIN led2 = DOMAIN led \cup {c}
    BY <2>2, <2>3, <1>1
  <2>5. ASSUME NEW k \in DOMAIN led2
        PROVE  led2[k] = IF k = c THEN nextIno ELSE led[k]
    <3>1. CASE k = c
      BY <3>1, <2>3, <1>1, <1>2
    <3>2. CASE k # c
      <4>1. k \in DOMAIN led /\ (k # HandKey /\ k # OldKey => k \in DOMAIN dentry)
        BY <3>2, <2>2, <2>4, <2>5
      <4>2. QED
        BY <3>2, <4>1, <2>2, <2>3, <1>1
    <3>3. QED
      BY <3>1, <3>2
  <2>6. QED
    BY <2>4, <2>5 DEF led, led2
<1>5. QED
  BY <1>3, <1>4

LEMMA LedgerOusted ==
  ASSUME Tabled, Tabled', RequestOK, NEW c \in Keys(nextIno), NEW kind, Makes(c, kind),
         UNCHANGED session, NEW h,
         \/ h = HandKey /\ at \in Keyed /\ c = req.key /\ LeadsTo(dentry, c, req.ino)
         \/ h = OldKey /\ at = "clear" /\ c = req.to /\ LeadsTo(dentry, c, req.old)
  PROVE  IsOusted(Ledger(dentry, at, req), c, h, nextIno, Ledger(dentry', at, req))
<1> DEFINE led == Ledger(dentry, at, req)
           led2 == Ledger(dentry', at, req)
<1>1. /\ DOMAIN dentry' = DOMAIN dentry \cup {c} /\ dentry'[c] = nextIno
      /\ \A k \in DOMAIN dentry : k # c => dentry'[k] = dentry[k]
  BY DEF Makes, Inserts, With
<1>2. /\ HandKey \notin DOMAIN dentry /\ OldKey \notin DOMAIN dentry /\ HandKey # OldKey
      /\ c # HandKey /\ c # OldKey /\ c # Door
  BY HandKeys, KeyIs, NodesTyped DEF Tabled
<1>3. ~ Uncounted(dentry, at, req) /\ ~ Uncounted(dentry', at, req)
  BY DEF Uncounted, Keyed
<1>4. /\ \A y : y \in DOMAIN led <=> \/ y \in DOMAIN dentry
                                  \/ (y = HandKey /\ InoHeld(dentry, at, req))
                                  \/ (y = OldKey /\ OldHeld(dentry, at, req))
      /\ \A y \in DOMAIN led : led[y] = IF y = HandKey THEN req.ino
                                        ELSE IF y = OldKey THEN req.old ELSE dentry[y]
  BY <1>3, LedgerIs
<1>5. /\ \A y : y \in DOMAIN led2 <=> \/ y \in DOMAIN dentry'
                                   \/ (y = HandKey /\ InoHeld(dentry', at, req))
                                   \/ (y = OldKey /\ OldHeld(dentry', at, req))
      /\ \A y \in DOMAIN led2 : led2[y] = IF y = HandKey THEN req.ino
                                          ELSE IF y = OldKey THEN req.old ELSE dentry'[y]
  BY <1>3, LedgerIs
<1>6. req.ino # nextIno /\ (at = "clear" => req.old # nextIno)
  <2>1. at \notin {"idle", "make"}
    BY DEF Keyed
  <2>2. QED
    BY <2>1, NodesTyped DEF RequestOK
<1> HIDE DEF led, led2
<1>7. CASE h = HandKey
  <2>1. at \in Keyed /\ c = req.key /\ LeadsTo(dentry, c, req.ino)
    BY <1>7, <1>2
  <2>2. ~ LeadsTo(dentry', c, req.ino)
    BY <1>1, <1>6 DEF LeadsTo
  <2>3. /\ ~ InoHeld(dentry, at, req) /\ InoHeld(dentry', at, req)
        /\ ~ OldHeld(dentry, at, req) /\ ~ OldHeld(dentry', at, req)
    BY <2>1, <2>2 DEF InoHeld, OldHeld, Keyed, Taken
  <2>4. c \in DOMAIN led /\ led[c] = req.ino /\ HandKey \notin DOMAIN led
    BY <2>1, <2>3, <1>2, <1>4 DEF LeadsTo
  <2>5. DOMAIN led2 = DOMAIN led \cup {HandKey}
    BY <2>3, <1>1, <1>4, <1>5, <2>1 DEF LeadsTo
  <2>6. ASSUME NEW y \in DOMAIN led2
        PROVE  led2[y] = IF y = HandKey THEN req.ino ELSE IF y = c THEN nextIno ELSE led[y]
    <3>1. CASE y = HandKey
      BY <3>1, <2>6, <1>5
    <3>2. CASE y # HandKey
      <4>1. y \in DOMAIN dentry /\ y # OldKey
        BY <3>2, <2>1, <2>3, <2>6, <1>1, <1>2, <1>5 DEF LeadsTo
      <4>2. QED
        BY <3>2, <4>1, <2>6, <1>1, <1>4, <1>5
    <3>3. QED
      BY <3>1, <3>2
  <2>7. QED
    BY <2>4, <2>5, <2>6, <1>2, <1>7 DEF IsOusted, led, led2
<1>8. CASE h = OldKey
  <2>1. at = "clear" /\ c = req.to /\ LeadsTo(dentry, c, req.old)
    BY <1>8, <1>2
  <2>2. ~ LeadsTo(dentry', c, req.old)
    BY <2>1, <1>1, <1>6 DEF LeadsTo
  <2>3. /\ InoHeld(dentry, at, req) /\ InoHeld(dentry', at, req)
        /\ ~ OldHeld(dentry, at, req) /\ OldHeld(dentry', at, req)
    BY <2>1, <2>2 DEF InoHeld, OldHeld, Keyed, Taken
  <2>4. c \in DOMAIN led /\ led[c] = req.old /\ OldKey \notin DOMAIN led
    BY <2>1, <2>3, <1>2, <1>4 DEF LeadsTo
  <2>5. DOMAIN led2 = DOMAIN led \cup {OldKey}
    BY <2>3, <1>1, <1>4, <1>5, <2>1 DEF LeadsTo
  <2>6. ASSUME NEW y \in DOMAIN led2
        PROVE  led2[y] = IF y = OldKey THEN req.old ELSE IF y = c THEN nextIno ELSE led[y]
    <3>1. CASE y = OldKey
      BY <3>1, <2>6, <1>2, <1>5
    <3>2. CASE y = HandKey
      BY <3>2, <2>3, <2>6, <1>2, <1>4, <1>5
    <3>3. CASE y # HandKey /\ y # OldKey
      <4>1. y \in DOMAIN dentry
        BY <3>3, <2>1, <2>6, <1>1, <1>5 DEF LeadsTo
      <4>2. QED
        BY <3>3, <4>1, <2>6, <1>1, <1>4, <1>5
    <3>4. QED
      BY <3>1, <3>2, <3>3
  <2>7. QED
    BY <2>4, <2>5, <2>6, <1>2, <1>8 DEF IsOusted, led, led2
<1>9. QED
  BY <1>7, <1>8

LEMMA PullMakes ==
  ASSUME Tabled, Tabled', RequestOK, Balanced, NEW c \in Keys(nextIno), NEW kind \in Kinds,
         Makes(c, kind), UNCHANGED session
  PROVE  RequestOK' /\ Balanced'
<1> DEFINE led == Ledger(dentry, at, req)
           led2 == Ledger(dentry', at, req)
           bare == IF c \in DOMAIN led THEN {led[c]} ELSE {}
<1>1. /\ DOMAIN dentry' = DOMAIN dentry \cup {c} /\ dentry'[c] = nextIno
      /\ \A k \in DOMAIN dentry : k # c => dentry'[k] = dentry[k]
      /\ inode' = With(inode, nextIno, [kind |-> kind, nlink |-> IF kind = "dir" THEN 2 ELSE 1])
      /\ nextIno' = nextIno + 1 /\ replaced' = replaced \cup Bearer(c)
  BY DEF Makes, Inserts, With
<1>2. at' = at /\ req' = req
  BY DEF session
<1>3. Nodes(inode) /\ nextIno \notin DOMAIN inode /\ nextIno \in Nat
  BY NodesTyped
<1>4. Sound(inode, led, replaced)
  BY DEF Balanced
<1>5. /\ HandKey \notin DOMAIN dentry /\ OldKey \notin DOMAIN dentry /\ HandKey # OldKey
      /\ c # HandKey /\ c # OldKey /\ c # Door
  BY <1>3, HandKeys, KeyIs DEF Tabled
<1>6. Sound(inode', led2, replaced')
  <2>1. CASE \/ at \in Keyed /\ c = req.key /\ LeadsTo(dentry, c, req.ino)
             \/ at = "clear" /\ c = req.to /\ LeadsTo(dentry, c, req.old)
    <3>1. PICK h : IsOusted(led, c, h, nextIno, led2)
      BY <2>1, LedgerOusted
    <3> HIDE DEF led, led2
    <3>2. QED
      BY <3>1, <1>1, <1>3, <1>4, SoundOusted
  <2>2. CASE ~ \/ at \in Keyed /\ c = req.key /\ LeadsTo(dentry, c, req.ino)
               \/ at = "clear" /\ c = req.to /\ LeadsTo(dentry, c, req.old)
    <3>1. at \in Keyed => (LeadsTo(dentry', req.key, req.ino) <=> LeadsTo(dentry, req.key, req.ino))
      <4>1. at \in Keyed => req.ino # nextIno
        BY <1>3 DEF RequestOK, Keyed
      <4>2. QED
        BY <4>1, <1>1, <2>2 DEF LeadsTo
    <3>2. at = "clear" => (LeadsTo(dentry', req.to, req.old) <=> LeadsTo(dentry, req.to, req.old))
      <4>1. at = "clear" => req.old # nextIno
        BY <1>3 DEF RequestOK
      <4>2. QED
        BY <4>1, <1>1, <2>2 DEF LeadsTo
    <3>3. /\ InoHeld(dentry', at, req) <=> InoHeld(dentry, at, req)
          /\ OldHeld(dentry', at, req) <=> OldHeld(dentry, at, req)
      BY <3>1, <3>2 DEF InoHeld, OldHeld
    <3>4. /\ DOMAIN led2 = DOMAIN led \cup {c}
          /\ \A k \in DOMAIN led2 : led2[k] = IF k = c THEN nextIno ELSE led[k]
      BY <3>3, LedgerMade
    <3>5. bare \subseteq Bearer(c)
      <4>1. ASSUME c \in DOMAIN led PROVE c \in DOMAIN dentry /\ led[c] = dentry[c]
        BY <4>1, <1>5 DEF Ledger
      <4>2. QED
        BY <4>1 DEF Bearer
    <3> HIDE DEF led, led2
    <3>6. Sound(inode', With(led, c, nextIno), replaced \cup bare)
      BY <1>1, <1>3, <1>4, <1>5, SoundMake
    <3>7. /\ DOMAIN led2 = DOMAIN With(led, c, nextIno)
          /\ \A k \in DOMAIN With(led, c, nextIno) : led2[k] = With(led, c, nextIno)[k]
      BY <3>4 DEF With
    <3>8. Sound(inode', led2, replaced \cup bare)
      BY <3>6, <3>7, SoundSame
    <3>9. Nodes(inode')
      BY NodesTyped DEF Tabled, Typed, Nodes
    <3>10. replaced \cup bare \subseteq replaced'
      BY <3>5, <1>1
    <3> HIDE DEF bare
    <3>11. QED
      BY <3>8, <3>9, <3>10, SoundMore
  <2>3. QED
    BY <2>1, <2>2
<1>7. Balanced'
  BY <1>2, <1>6 DEF Balanced
<1>8. /\ DOMAIN inode \subseteq DOMAIN inode'
      /\ \A i \in DOMAIN inode : inode'[i] = inode[i]
      /\ Keys(nextIno) \subseteq Keys(nextIno')
  <2>1. 1..(nextIno - 1) \subseteq 1..(nextIno + 1 - 1)
    BY <1>3
  <2>2. QED
    BY <2>1, <1>1, <1>3 DEF With, Keys
<1>9. \A i \in DOMAIN inode : \A k : LeadsTo(dentry', k, i) <=> LeadsTo(dentry, k, i) /\ k # c
  BY <1>1, <1>3 DEF LeadsTo
<1>10. at = "count" => LeadsTo(dentry', req.key, req.ino) \/ req.ino \in replaced'
  <2>1. CASE req.key = c /\ LeadsTo(dentry, req.key, req.ino)
    BY <2>1, <1>1 DEF Bearer, LeadsTo
  <2>2. CASE req.key # c \/ ~ LeadsTo(dentry, req.key, req.ino)
    BY <2>2, <1>1, <1>9 DEF RequestOK
  <2>3. QED
    BY <2>1, <2>2
<1>11. at \notin {"idle", "make"} => req.ino \in DOMAIN inode \ {Root}
  BY DEF RequestOK
<1>12. at \in Moving => ~ LeadsTo(dentry', req.to, req.ino)
  BY <1>9, <1>11 DEF RequestOK, Moving, Taken
<1>13. at = "link" => ~ LeadsTo(dentry', req.key, req.ino)
  BY <1>9, <1>11 DEF RequestOK
<1>14. at \in {"link", "count", "check"} \cup Writing => inode'[req.ino] = inode[req.ino]
  BY <1>8, <1>11 DEF Writing
<1>15. RequestOK'
  BY <1>2, <1>8, <1>10, <1>12, <1>13, <1>14 DEF RequestOK
<1>16. QED
  BY <1>7, <1>15
-----------------------------------------------------------------------------
(* The pull goes on. *)
LEMMA PullGoes ==
  ASSUME Tabled, Tabled', PullOK, stage # "idle", UNCHANGED nextIno,
         DOMAIN pull' = DOMAIN pull, pull'.path = pull.path,
         pull'.level \in 2..Len(pull.path), pull'.dir \in 1..(nextIno - 1),
         stage' \in {"ensure", "mkdir", "resolve", "insert"},
         stage' = "mkdir" => ~ AtName', stage' = "insert" => AtName'
  PROVE  PullOK'
BY DEF PullOK

LEMMA PullingOK ==
  ASSUME Tabled, Tabled', PullOK, Pulling, \A p \in brain : IsPath(p), Notes \in DOMAIN inode
  PROVE  PullOK'
<1>1. nextIno \in Nat /\ 1..(nextIno - 1) \subseteq Nat /\ Notes \in 1..(nextIno - 1)
      /\ 2..(nextIno - 1) \subseteq 1..(nextIno - 1) /\ Root \in 1..(nextIno - 1)
  BY DEF Tabled, Typed, Notes, Root
<1>2. DOMAIN pull = {"path", "level", "dir", "ino"}
  BY DEF PullOK
<1>3. stage' = "idle" /\ pull' = NoPull => PullOK'
  BY DEF PullOK, NoPull
<1>4. stage # "idle" => /\ Len(pull.path) \in Nat /\ Len(pull.path) >= 2
                        /\ pull.level \in 2..Len(pull.path)
                        /\ (~ AtName => pull.level + 1 \in 2..Len(pull.path))
                        /\ IsPath(pull.path) /\ pull.dir \in 1..(nextIno - 1)
  <2>1. stage # "idle" => /\ Len(pull.path) \in Nat /\ Len(pull.path) >= 2
                          /\ pull.level \in 2..Len(pull.path)
                          /\ IsPath(pull.path) /\ pull.dir \in 1..(nextIno - 1)
    BY DEF PullOK, IsPath
  <2> DEFINE m == Len(pull.path)
  <2>2. stage # "idle" /\ ~ AtName => pull.level + 1 \in 2..m
    <3>1. AtName <=> pull.level = m
      BY DEF AtName
    <3> HIDE DEF m
    <3>2. QED
      BY <2>1, <3>1 DEF m
  <2>3. QED
    BY <2>1, <2>2
<1>5. ASSUME NEW k, Seen(k) # NoIno PROVE Seen(k) \in 1..(nextIno - 1)
  BY <1>1, <1>5, SeenIs DEF Tabled, Seen
<1>6. CASE \E p \in brain : PullBegins(p)
  <2>1. PICK p \in brain : PullBegins(p)
    BY <1>6
  <2>2. /\ IsPath(p) /\ stage' = "ensure" /\ nextIno' = nextIno
        /\ pull' = [path |-> p, level |-> 2, dir |-> Notes, ino |-> NoIno]
    BY <2>1 DEF PullBegins, tree
  <2>3. 2 \in 2..Len(p)
    BY <2>2 DEF IsPath
  <2>4. QED
    BY <2>2, <2>3, <1>1 DEF PullOK
<1>7. CASE PullEnsures
  <2>1. stage = "ensure" /\ ~ AtName /\ nextIno' = nextIno
    BY <1>7 DEF PullEnsures, tree
  <2>2. CASE Seen(Component) = NoIno
    <3>1. stage' = "mkdir" /\ pull' = pull
      BY <1>7, <2>2 DEF PullEnsures
    <3>2. QED
      BY <2>1, <3>1, <1>4, PullGoes DEF AtName
  <2>3. CASE Seen(Component) # NoIno
    <3>1. stage' = stage /\ pull' = [pull EXCEPT !.dir = Seen(Component), !.level = @ + 1]
      BY <1>7, <2>3 DEF PullEnsures
    <3>2. /\ pull'.path = pull.path /\ pull'.level = pull.level + 1
          /\ pull'.dir = Seen(Component) /\ DOMAIN pull' = DOMAIN pull
      BY <3>1, <1>2
    <3>3. pull'.dir \in 1..(nextIno - 1)
      BY <2>3, <3>2, <1>5
    <3>4. QED
      BY <2>1, <3>1, <3>2, <3>3, <1>4, PullGoes
  <2>4. QED
    BY <2>2, <2>3
<1>8. CASE PullMakesDir
  <2>1. /\ stage = "mkdir" /\ stage' = "ensure" /\ nextIno' = nextIno + 1 /\ ~ AtName
        /\ pull' = [pull EXCEPT !.dir = nextIno, !.level = @ + 1]
    BY <1>8 DEF PullMakesDir, Makes, PullOK
  <2>2. /\ pull'.path = pull.path /\ pull'.level = pull.level + 1
        /\ pull'.dir = nextIno /\ DOMAIN pull' = DOMAIN pull
    BY <2>1, <1>2
  <2>3. nextIno \in 1..(nextIno + 1 - 1)
    BY <1>1 DEF Notes
  <2>4. QED
    BY <2>1, <2>2, <2>3, <1>2, <1>4 DEF PullOK
<1>9. CASE PullEnsured
  <2>1. /\ stage = "ensure" /\ stage' = "resolve" /\ nextIno' = nextIno
        /\ pull' = [pull EXCEPT !.level = 2, !.dir = Notes]
    BY <1>9 DEF PullEnsured, tree
  <2>2. pull'.path = pull.path /\ pull'.level = 2 /\ pull'.dir = Notes /\ DOMAIN pull' = DOMAIN pull
    BY <2>1, <1>2
  <2>3. 2 \in 2..Len(pull.path)
    BY <2>1, <1>4
  <2>4. QED
    BY <2>1, <2>2, <2>3, <1>1, PullGoes
<1>10. CASE PullResolves
  <2>1. stage = "resolve" /\ ~ AtName /\ nextIno' = nextIno /\ stage' = stage
    BY <1>10 DEF PullResolves, tree
  <2>2. CASE Seen(Component) = NoIno
    <3>1. pull' = [pull EXCEPT !.dir = Root, !.level = Len(pull.path)]
      BY <1>10, <2>2 DEF PullResolves
    <3>2. /\ pull'.path = pull.path /\ pull'.level = Len(pull.path)
          /\ pull'.dir = Root /\ DOMAIN pull' = DOMAIN pull
      BY <3>1, <1>2
    <3>3. Len(pull.path) \in 2..Len(pull.path)
      BY <2>1, <1>4
    <3>4. QED
      BY <2>1, <3>2, <3>3, <1>1, PullGoes
  <2>3. CASE Seen(Component) # NoIno
    <3>1. pull' = [pull EXCEPT !.dir = Seen(Component), !.level = @ + 1]
      BY <1>10, <2>3 DEF PullResolves
    <3>2. /\ pull'.path = pull.path /\ pull'.level = pull.level + 1
          /\ pull'.dir = Seen(Component) /\ DOMAIN pull' = DOMAIN pull
      BY <3>1, <1>2
    <3>3. pull'.dir \in 1..(nextIno - 1)
      BY <2>3, <3>2, <1>5
    <3>4. QED
      BY <2>1, <3>2, <3>3, <1>4, PullGoes
  <2>4. QED
    BY <2>2, <2>3
<1>11. CASE PullLooks
  <2>1. stage = "resolve" /\ AtName /\ nextIno' = nextIno
    BY <1>11 DEF PullLooks, tree
  <2>2. CASE Seen(Component) = NoIno
    <3>1. stage' = "insert" /\ pull' = pull
      BY <1>11, <2>2 DEF PullLooks
    <3>2. QED
      BY <2>1, <3>1, <1>4, PullGoes DEF AtName
  <2>3. CASE Seen(Component) # NoIno
    BY <1>3, <1>11, <2>3 DEF PullLooks
  <2>4. QED
    BY <2>2, <2>3
<1>12. CASE PullInserts
  <2>1. /\ stage = "insert" /\ stage' = "record" /\ nextIno' = nextIno + 1 /\ AtName
        /\ pull' = [pull EXCEPT !.ino = nextIno]
        /\ inode' = With(inode, nextIno, [kind |-> "file", nlink |-> 1])
    BY <1>12 DEF PullInserts, Makes, PullOK
  <2>2. /\ pull'.path = pull.path /\ pull'.level = pull.level /\ pull'.ino = nextIno
        /\ pull'.dir = pull.dir /\ DOMAIN pull' = DOMAIN pull
    BY <2>1, <1>2
  <2>3. nextIno \in 2..(nextIno + 1 - 1) /\ 1..(nextIno - 1) \subseteq 1..(nextIno + 1 - 1)
    BY <1>1 DEF Notes
  <2>4. inode'[nextIno].kind = "file"
    BY <2>1 DEF With
  <2>5. AtName'
    BY <2>1, <2>2 DEF AtName
  <2>6. pull'.dir \in 1..(nextIno' - 1) /\ pull'.ino \in 2..(nextIno' - 1)
    BY <2>1, <2>2, <2>3, <1>4
  <2>7. QED
    BY <2>1, <2>2, <2>4, <2>5, <2>6, <1>2, <1>4 DEF PullOK
<1>13. CASE PullRecords
  BY <1>3, <1>13 DEF PullRecords
<1>14. QED
  BY <1>6, <1>7, <1>8, <1>9, <1>10, <1>11, <1>12, <1>13 DEF Pulling

LEMMA PullingBalanced ==
  ASSUME Tabled, RequestOK, PullOK, Balanced, \A p \in brain : IsPath(p), Pulling
  PROVE  RequestOK' /\ PullOK' /\ Balanced'
<1>1. Tabled'
  BY PullingTabled
<1>2. PullOK'
  BY <1>1, PullingOK, BalancedIs
<1>3. CASE PullMakesDir \/ PullInserts
  <2>1. PICK kind \in Kinds : Makes(Component, kind)
    BY <1>3 DEF PullMakesDir, PullInserts, Kinds
  <2>2. Component \in Keys(nextIno)
    BY <1>3, ComponentIs DEF PullMakesDir, PullInserts
  <2>3. UNCHANGED session
    BY <1>3 DEF PullMakesDir, PullInserts
  <2>4. QED
    BY <1>1, <1>2, <2>1, <2>2, <2>3, PullMakes
<1>4. CASE ~ (PullMakesDir \/ PullInserts)
  <2>1. UNCHANGED <<inode, nextIno, dentry, at, req, replaced>>
    BY <1>4 DEF Pulling, PullBegins, PullEnsures, PullEnsured, PullResolves, PullLooks,
       PullRecords, tree, session, history
  <2>2. QED
    BY <1>2, <2>1 DEF RequestOK, Balanced
<1>5. QED
  BY <1>3, <1>4

LEMMA PushingBalanced ==
  ASSUME RequestOK, PullOK, Balanced, Pushing
  PROVE  RequestOK' /\ PullOK' /\ Balanced'
<1>1. UNCHANGED <<inode, nextIno, dentry, at, req, replaced, stage, pull>>
  BY DEF Pushing, PushClaim, PushExecutes, PushFinalizes, PushFinds, PushForgets,
     tree, session, puller, history
<1>2. QED
  BY <1>1 DEF RequestOK, PullOK, Balanced, AtName
-----------------------------------------------------------------------------
(* Rows of the push queue: what a path is left with in the end. *)
Latest(row) == IF row.pending = NoEntry THEN row.op ELSE row.pending

GoodOp(op) == op \in Ops /\ (op.kind = "rename" => op.to \in Names)
RowOK(row) ==
  /\ row \in QueueRow /\ GoodOp(row.op) /\ GoodOp(Latest(row))
  /\ ~ row.inflight => row.pending = NoEntry

LEMMA UpsertedRow ==
  ASSUME NEW row, row = NoRow \/ RowOK(row), NEW op, GoodOp(op)
  PROVE  RowOK(Q!Upserted(row, op)) /\ Latest(Q!Upserted(row, op)) = op
<1>1. op # NoEntry /\ op \in Ops
  BY NamespaceAssumption DEF GoodOp
<1>2. CASE row = NoRow
  <2>1. Q!Upserted(row, op) = [op |-> op, pending |-> NoEntry, inflight |-> FALSE,
          attempt |-> 0, poisoned |-> FALSE, due |-> TRUE]
    BY <1>2 DEF Q!Upserted, Q!Fresh
  <2>2. QED
    BY <1>1, <2>1 DEF RowOK, QueueRow, Latest
<1>3. CASE row # NoRow /\ row.inflight
  <2>1. Q!Upserted(row, op) = [row EXCEPT !.pending = op, !.due = TRUE]
    BY <1>3 DEF Q!Upserted
  <2>2. row \in QueueRow
    BY <1>3 DEF RowOK
  <2>3. QED
    BY <1>1, <1>3, <2>1, <2>2 DEF RowOK, QueueRow, Latest
<1>4. CASE row # NoRow /\ ~ row.inflight
  <2>1. Q!Upserted(row, op) = [row EXCEPT !.op = op, !.attempt = 0, !.due = TRUE]
    BY <1>4 DEF Q!Upserted
  <2>2. row \in QueueRow /\ row.pending = NoEntry
    BY <1>4 DEF RowOK
  <2> DEFINE new == [row EXCEPT !.op = op, !.attempt = 0, !.due = TRUE]
  <2>3. /\ new \in QueueRow /\ new.op = op /\ new.pending = NoEntry
    BY <1>1, <2>2 DEF QueueRow
  <2> HIDE DEF new
  <2>4. RowOK(new) /\ Latest(new) = op
    BY <2>3 DEF RowOK, Latest
  <2>5. QED
    BY <2>1, <2>4 DEF new
<1>5. QED
  BY <1>2, <1>3, <1>4

LEMMA ClaimedRow ==
  ASSUME NEW row, RowOK(row)
  PROVE  RowOK(Q!Claimed(row)) /\ Latest(Q!Claimed(row)) = Latest(row)
BY DEF Q!Claimed, RowOK, QueueRow, Latest

LEMMA SucceededRow ==
  ASSUME NEW row, RowOK(row), NEW new, new = Q!Succeeded(row), new # NoRow
  PROVE  RowOK(new) /\ Latest(new) = Latest(row)
<1>1. row.pending # NoEntry
  BY DEF Q!Succeeded
<1>2. new = [row EXCEPT !.op = row.pending, !.pending = NoEntry,
                        !.inflight = FALSE, !.attempt = 0, !.due = TRUE]
  BY <1>1 DEF Q!Succeeded
<1>3. row \in QueueRow /\ row.pending \in Ops
  BY <1>1 DEF RowOK, QueueRow
<1>4. QED
  BY <1>1, <1>2, <1>3 DEF RowOK, QueueRow, Latest

RowsOK(queue) == \A p \in DOMAIN queue : IsPath(p) /\ RowOK(queue[p])

(* No path gets a Delete. *)
NoNewDelete(queue, new) ==
  \A p \in DOMAIN new : Latest(new[p]).kind = "delete" =>
    p \in DOMAIN queue /\ Latest(queue[p]).kind = "delete"

LEMMA QueuedIs ==
  ASSUME RowsOK(rows), NEW p, IsPath(p), NEW op, GoodOp(op)
  PROVE  /\ RowsOK(Queued(p, op))
         /\ DOMAIN Queued(p, op) = DOMAIN rows \cup {p}
         /\ Latest(Queued(p, op)[p]) = op
         /\ \A q \in DOMAIN rows : q # p => Queued(p, op)[q] = rows[q]
<1> DEFINE row == Q!Upserted(Row(p), op)
           new == Queued(p, op)
<1>1. Row(p) = NoRow \/ RowOK(Row(p))
  BY DEF Row, RowsOK
<1>2. RowOK(row) /\ Latest(row) = op
  BY <1>1, UpsertedRow
<1>3. new = With(rows, p, row)
  BY DEF Queued
<1> HIDE DEF row, new
<1>4. /\ DOMAIN new = DOMAIN rows \cup {p} /\ new[p] = row
      /\ \A q \in DOMAIN rows : q # p => new[q] = rows[q]
  BY <1>3 DEF With
<1>5. RowsOK(new)
  BY <1>2, <1>4 DEF RowsOK
<1>6. QED
  BY <1>2, <1>4, <1>5 DEF new
-----------------------------------------------------------------------------
(* Two inodes never have one path unless shared says so. *)
SharedRight ==
  \A i \in DOMAIN remote : \A j \in DOMAIN remote :
    i # j /\ remote[i] = remote[j] => remote[i] \in shared

(* The paths that fs_remote, the queue and the brain hold, and the row     *)
(* that the push worker has in hand.                                       *)
PushOK == step \in {"execute", "finalize"} => job.path \in DOMAIN rows

Mapped ==
  /\ RemotePaths /\ RowsOK(rows)
  /\ \A p \in brain : IsPath(p)
  /\ PushOK /\ SharedRight

(* A path whose last operation is a Delete is the path of no inode, unless *)
(* a flush is about to replace it; and so is one whose Delete is about to  *)
(* be queued, but for the mapping that unlink has found for it.            *)
Bears(paths, lost, i, p) == i \in DOMAIN paths \ lost /\ paths[i] = p

Spared ==
  /\ \A p \in DOMAIN rows \ shared : Latest(rows[p]).kind = "delete" =>
       \A i \in DOMAIN remote :
         Bears(remote, strayed, i, p) => at = "write" /\ i = req.ino /\ p = req.path
  /\ at = "forget" /\ req.path \notin shared =>
       \A i \in DOMAIN remote : Bears(remote, strayed, i, req.path) => i = req.old
  /\ at = "delete" /\ req.path \notin shared =>
       \A i \in DOMAIN remote : ~ Bears(remote, strayed, i, req.path)

(* Mappings that are left of others. *)
Part(paths, new) ==
  DOMAIN new \subseteq DOMAIN paths /\ \A i \in DOMAIN new : new[i] = paths[i]

(* What Next says of shared. *)
SharedStep ==
  shared' = shared \cup
    {remote'[i] : i \in {x \in DOMAIN remote' :
                    \E y \in DOMAIN remote' \ {x} : remote'[y] = remote'[x]}}

LEMMA SharedNext ==
  ASSUME SharedStep
  PROVE  SharedRight' /\ shared \subseteq shared'
BY DEF SharedStep, SharedRight

LEMMA PartIs ==
  ASSUME NEW paths, NEW S
  PROVE  Part(paths, paths) /\ Part(paths, Without(paths, S))
BY DEF Part, Without

LEMMA PartPaths ==
  ASSUME RemotePaths, Part(remote, remote')
  PROVE  RemotePaths'
BY DEF RemotePaths, Part

LEMMA SparedKept ==
  ASSUME Spared, NoNewDelete(rows, rows'), Part(remote, remote'),
         strayed \subseteq strayed', shared \subseteq shared',
         \/ at' = at /\ req' = req
         \/ at # "write" /\ at' \notin {"forget", "delete"}
  PROVE  Spared'
<1>1. ASSUME NEW i, NEW p, Bears(remote', strayed', i, p)
      PROVE  Bears(remote, strayed, i, p) /\ i \in DOMAIN remote
  BY <1>1 DEF Bears, Part
<1>2. ASSUME NEW p \in DOMAIN rows' \ shared', Latest(rows'[p]).kind = "delete",
             NEW i \in DOMAIN remote', Bears(remote', strayed', i, p)
      PROVE  at' = "write" /\ i = req'.ino /\ p = req'.path
  <2>1. p \in DOMAIN rows \ shared /\ Latest(rows[p]).kind = "delete"
    BY <1>2 DEF NoNewDelete
  <2>2. Bears(remote, strayed, i, p) /\ i \in DOMAIN remote
    BY <1>1, <1>2
  <2>3. at = "write" /\ i = req.ino /\ p = req.path
    BY <2>1, <2>2 DEF Spared
  <2>4. QED
    BY <2>3
<1>3. ASSUME at' = "forget", req'.path \notin shared',
             NEW i, Bears(remote', strayed', i, req'.path)
      PROVE  i = req'.old
  <2>1. at = "forget" /\ req' = req /\ req.path \notin shared
    BY <1>3
  <2>2. Bears(remote, strayed, i, req.path) /\ i \in DOMAIN remote
    BY <2>1, <1>1, <1>3
  <2>3. QED
    BY <2>1, <2>2 DEF Spared
<1>4. ASSUME at' = "delete", req'.path \notin shared',
             NEW i, Bears(remote', strayed', i, req'.path)
      PROVE  FALSE
  <2>1. at = "delete" /\ req' = req /\ req.path \notin shared
    BY <1>4
  <2>2. Bears(remote, strayed, i, req.path) /\ i \in DOMAIN remote
    BY <2>1, <1>1, <1>4
  <2>3. QED
    BY <2>1, <2>2 DEF Spared
<1>5. QED
  BY <1>2, <1>3, <1>4 DEF Spared
-----------------------------------------------------------------------------
(* A new request, and the pull but for the mapping it records, change      *)
(* neither fs_remote nor the queue.                                        *)
RemoteStill ==
  /\ UNCHANGED <<remote, rows, step, job>> /\ strayed \subseteq strayed'
  /\ \A p \in brain' : p \in brain

LEMMA StillMapped ==
  ASSUME Mapped, Spared, SharedStep, RemoteStill,
         \/ at' = at /\ req' = req
         \/ at # "write" /\ at' \notin {"forget", "delete"}
  PROVE  Mapped' /\ Spared'
<1>1. SharedRight' /\ shared \subseteq shared'
  BY SharedNext
<1>2. Part(remote, remote') /\ NoNewDelete(rows, rows')
  BY DEF RemoteStill, Part, NoNewDelete
<1>3. Spared'
  BY <1>1, <1>2, SparedKept DEF RemoteStill
<1>4. RemotePaths'
  BY <1>2, PartPaths DEF Mapped
<1>5. QED
  BY <1>1, <1>3, <1>4 DEF Mapped, RemoteStill, PushOK

LEMMA RequestMapped ==
  ASSUME Mapped, Spared, SharedStep, Request
  PROVE  Mapped' /\ Spared'
<1>1. ASSUME NEW d, NEW n, Lookup(d, n)
      PROVE  RemoteStill /\ at' = at /\ req' = req
  BY <1>1 DEF Lookup, RemoteStill, session, history, pusher
<1>2. ASSUME NEW d, NEW n, \/ Mkdir(d, n) \/ CreateFile(d, n) \/ Symlink(d, n)
                          \/ Rmdir(d, n) \/ Unlink(d, n)
      PROVE  RemoteStill /\ at = "idle" /\ at' \notin {"forget", "delete"}
  BY <1>2 DEF Mkdir, CreateFile, Symlink, MakeLooks, Rmdir, Unlink, Begins, RemoteStill,
     history, pusher
<1>3. ASSUME NEW d, NEW n, NEW i, Link(i, d, n)
      PROVE  RemoteStill /\ at = "idle" /\ at' \notin {"forget", "delete"}
  BY <1>3 DEF Link, Begins, RemoteStill, history, pusher
<1>4. ASSUME NEW d, NEW n, NEW e, NEW m, Rename(d, n, e, m)
      PROVE  RemoteStill /\ at = "idle" /\ at' \notin {"forget", "delete"}
  BY <1>4 DEF Rename, Begins, RemoteStill, history, pusher
<1>5. ASSUME NEW i, Flush(i)
      PROVE  RemoteStill /\ at = "idle" /\ at' \notin {"forget", "delete"}
  BY <1>5 DEF Flush, Begins, RemoteStill, history, pusher
<1>6. \/ RemoteStill /\ at' = at /\ req' = req
      \/ RemoteStill /\ at = "idle" /\ at' \notin {"forget", "delete"}
  BY <1>1, <1>2, <1>3, <1>4, <1>5 DEF Request
<1>7. QED
  BY <1>6, StillMapped

(* The statements of a request that leave both alone, or drop an inode.    *)
LEMMA QuietMapped ==
  ASSUME Mapped, Spared, SharedStep, at' # "forget", at' # "delete",
         \/ MakeInserts \/ RmdirChecks \/ UnlinkPath \/ RequestRemoves \/ RequestDrops
         \/ LinkInserts \/ LinkCounts \/ RenameRemoves \/ RenameSeeks \/ RenameClears
         \/ RenameDrops \/ RenamePath \/ RenameInserts
  PROVE  Mapped' /\ Spared'
<1>1. SharedRight' /\ shared \subseteq shared'
  BY SharedNext
<1>2. /\ at # "write" /\ UNCHANGED <<rows, brain, step, job>> /\ strayed \subseteq strayed'
  BY DEF MakeInserts, RmdirChecks, UnlinkPath, RequestRemoves, RequestDrops, LinkInserts,
     LinkCounts, RenameRemoves, RenameSeeks, RenameClears, RenameDrops, RenamePath,
     RenameInserts, Removes, Drops, history, pusher
<1>3. Part(remote, remote')
  <2>1. CASE RequestDrops \/ RenameDrops
    <3>1. PICK i : remote' = Forgotten(remote, i)
      BY <2>1 DEF RequestDrops, RenameDrops, Drops
    <3>2. QED
      BY <3>1, PartIs DEF Forgotten
  <2>2. CASE ~ (RequestDrops \/ RenameDrops)
    <3>1. remote' = remote
      BY <2>2 DEF MakeInserts, RmdirChecks, UnlinkPath, RequestRemoves, LinkInserts,
         LinkCounts, RenameRemoves, RenameSeeks, RenameClears, RenamePath, RenameInserts
    <3>2. QED
      BY <3>1, PartIs
  <2>3. QED
    BY <2>1, <2>2
<1>4. NoNewDelete(rows, rows')
  BY <1>2 DEF NoNewDelete
<1>5. Spared'
  BY <1>1, <1>2, <1>3, <1>4, SparedKept
<1>6. RemotePaths'
  BY <1>3, PartPaths DEF Mapped
<1>7. QED
  BY <1>1, <1>2, <1>5, <1>6 DEF Mapped, PushOK

(* unlink looks for the mappings of its path, and drops the one it found.  *)
LEMMA FindsMapped ==
  ASSUME RequestOK, Mapped, Spared, SharedStep, UnlinkFinds \/ UnlinkForgets
  PROVE  Mapped' /\ Spared'
<1>1. SharedRight' /\ shared \subseteq shared'
  BY SharedNext
<1>2. UNCHANGED <<rows, brain, step, job, strayed>> /\ DOMAIN req = Fields
  BY DEF UnlinkFinds, UnlinkForgets, pusher, history, RequestOK
<1>3. /\ Part(remote, remote')
      /\ (at' = "forget" /\ req'.path \notin shared) =>
            \A i \in DOMAIN remote : Bears(remote, strayed, i, req'.path) => i = req'.old
      /\ (at' = "delete" /\ req'.path \notin shared) =>
            \A i \in DOMAIN remote' : ~ Bears(remote', strayed, i, req'.path)
      /\ at # "write" /\ at' \in {"forget", "delete"}
      /\ at' = "forget" => remote' = remote
  <2>1. CASE UnlinkFinds
    <3> DEFINE held == {x \in DOMAIN remote : remote[x] = req.path}
    <3>1. at = "find" /\ remote' = remote
      BY <2>1 DEF UnlinkFinds
    <3>2. CASE held = {}
      <4>1. at' = "delete" /\ req' = req
        BY <2>1, <3>2 DEF UnlinkFinds, Goes, Knows
      <4>2. QED
        BY <3>1, <3>2, <4>1, PartIs DEF Bears
    <3>3. CASE held # {}
      <4>1. PICK j \in held : at' = "forget" /\ req' = [req EXCEPT !.old = j]
        BY <2>1, <3>3 DEF UnlinkFinds, Knows
      <4>2. req'.path = req.path /\ req'.old = j
        BY <4>1, <1>2 DEF Fields
      <4>3. ASSUME req.path \notin shared, NEW i \in DOMAIN remote,
                   Bears(remote, strayed, i, req.path)
            PROVE  i = j
        BY <4>1, <4>3 DEF Bears, Mapped, SharedRight
      <4>4. QED
        BY <3>1, <4>1, <4>2, <4>3, PartIs
    <3>4. QED
      BY <3>2, <3>3
  <2>2. CASE UnlinkForgets
    <3>1. /\ at = "forget" /\ at' = "delete" /\ remote' = Without(remote, {req.old})
          /\ req' = [req EXCEPT !.old = NoIno]
      BY <2>2 DEF UnlinkForgets, Knows
    <3>2. req'.path = req.path
      BY <3>1, <1>2 DEF Fields
    <3>3. Part(remote, remote') /\ req.old \notin DOMAIN remote'
      BY <3>1, PartIs DEF Without
    <3>4. ASSUME req.path \notin shared, NEW i \in DOMAIN remote',
                 Bears(remote', strayed, i, req.path)
          PROVE  FALSE
      <4>1. i \in DOMAIN remote /\ Bears(remote, strayed, i, req.path) /\ i # req.old
        BY <3>3, <3>4 DEF Part, Bears
      <4>2. QED
        BY <3>1, <3>4, <4>1 DEF Spared
    <3>5. QED
      BY <3>1, <3>2, <3>3, <3>4
  <2>3. QED
    BY <2>1, <2>2
<1>4. RemotePaths'
  BY <1>3, PartPaths DEF Mapped
<1>5. ASSUME NEW p \in DOMAIN rows' \ shared', Latest(rows'[p]).kind = "delete",
             NEW i \in DOMAIN remote', Bears(remote', strayed', i, p)
      PROVE  FALSE
  <2>1. p \in DOMAIN rows \ shared /\ Latest(rows[p]).kind = "delete"
    BY <1>1, <1>2, <1>5
  <2>2. i \in DOMAIN remote /\ Bears(remote, strayed, i, p)
    BY <1>2, <1>3, <1>5 DEF Part, Bears
  <2>3. QED
    BY <2>1, <2>2, <1>3 DEF Spared
<1>6. Spared'
  <2>1. ASSUME at' = "forget", req'.path \notin shared', NEW i \in DOMAIN remote',
               Bears(remote', strayed', i, req'.path)
        PROVE  i = req'.old
    BY <2>1, <1>1, <1>2, <1>3
  <2>2. ASSUME at' = "delete", req'.path \notin shared', NEW i \in DOMAIN remote',
               Bears(remote', strayed', i, req'.path)
        PROVE  FALSE
    BY <2>2, <1>1, <1>2, <1>3
  <2>3. QED
    BY <1>5, <2>1, <2>2 DEF Spared
<1>7. QED
  BY <1>1, <1>2, <1>4, <1>6 DEF Mapped, PushOK

(* A request queues its operation. *)
LEMMA EnqueuesMapped ==
  ASSUME Tabled, RequestOK, Mapped, Spared, SharedStep,
         UnlinkEnqueues \/ RenameEnqueues \/ FlushEnqueues
  PROVE  Mapped' /\ Spared'
<1>1. SharedRight' /\ shared \subseteq shared'
  BY SharedNext
<1>2. UNCHANGED <<remote, brain, step, job, strayed>>
  BY DEF UnlinkEnqueues, RenameEnqueues, FlushEnqueues, pusher, history
<1>3. PICK op : /\ GoodOp(op) /\ rows' = Queued(req.path, op)
                /\ (at = "delete" \/ op.kind # "delete")
                /\ (op.kind = "write" \/ at # "write")
                /\ at' \notin {"forget", "delete"}
  <2>1. CASE UnlinkEnqueues
    <3>1. Op("delete", NoIno, Private) \in Ops
      BY NamespaceAssumption DEF Op, Ops, NoIno
    <3>2. GoodOp(Op("delete", NoIno, Private)) /\ Op("delete", NoIno, Private).kind = "delete"
      BY <3>1 DEF GoodOp, Op
    <3>3. QED
      BY <2>1, <3>2 DEF UnlinkEnqueues, Goes, Knows
  <2>2. CASE RenameEnqueues
    <3>1. at = "rename" /\ req.to \in Keys(nextIno)
      BY <2>2 DEF RenameEnqueues, RequestOK, Moving, Taken
    <3>2. req.to[2] \in Names
      BY <3>1 DEF Keys
    <3>3. GoodOp(Op("rename", NoIno, req.to[2])) /\ Op("rename", NoIno, req.to[2]).kind = "rename"
      BY <3>2, NamespaceAssumption DEF Op, Ops, NoIno, GoodOp
    <3>4. QED
      BY <2>2, <3>3 DEF RenameEnqueues, Goes, Knows
  <2>3. CASE FlushEnqueues
    <3>1. at = "write" /\ req.ino \in DOMAIN inode
      BY <2>3 DEF FlushEnqueues, RequestOK
    <3>2. req.ino \in 0..MaxIno
      <4>1. req.ino \in 1..(nextIno - 1) /\ nextIno \in Nat /\ nextIno <= MaxIno + 1
        BY <3>1 DEF Tabled, Typed
      <4>2. QED
        BY <4>1, NamespaceAssumption
    <3>3. GoodOp(Op("write", req.ino, Private)) /\ Op("write", req.ino, Private).kind = "write"
      BY <3>2 DEF Op, Ops, GoodOp
    <3>4. QED
      BY <2>3, <3>3 DEF FlushEnqueues, Done, Knows
  <2>4. QED
    BY <2>1, <2>2, <2>3
<1>4. IsPath(req.path)
  BY DEF UnlinkEnqueues, RenameEnqueues, FlushEnqueues, RequestOK, Writing
<1>5. /\ RowsOK(rows') /\ DOMAIN rows' = DOMAIN rows \cup {req.path}
      /\ Latest(rows'[req.path]) = op
      /\ \A q \in DOMAIN rows : q # req.path => rows'[q] = rows[q]
  <2>1. rows' = Queued(req.path, op) /\ RowsOK(rows)
    BY <1>3 DEF Mapped
  <2>2. /\ RowsOK(Queued(req.path, op))
        /\ DOMAIN Queued(req.path, op) = DOMAIN rows \cup {req.path}
        /\ Latest(Queued(req.path, op)[req.path]) = op
        /\ \A q \in DOMAIN rows : q # req.path => Queued(req.path, op)[q] = rows[q]
    BY <2>1, <1>3, <1>4, QueuedIs
  <2>3. QED
    BY <2>1, <2>2
<1>6. ASSUME NEW p \in DOMAIN rows' \ shared', Latest(rows'[p]).kind = "delete",
             NEW i \in DOMAIN remote, Bears(remote, strayed, i, p)
      PROVE  FALSE
  <2>1. CASE p = req.path
    <3>1. at = "delete" /\ p \notin shared
      BY <2>1, <1>1, <1>3, <1>5, <1>6
    <3>2. QED
      BY <2>1, <3>1, <1>6 DEF Spared
  <2>2. CASE p # req.path
    <3>1. p \in DOMAIN rows \ shared /\ Latest(rows[p]).kind = "delete"
      BY <2>2, <1>1, <1>5, <1>6
    <3>2. QED
      BY <2>2, <3>1, <1>6 DEF Spared
  <2>3. QED
    BY <2>1, <2>2
<1>7. Spared'
  BY <1>2, <1>3, <1>6 DEF Spared
<1>8. RemotePaths' /\ PushOK'
  BY <1>2, <1>5 DEF Mapped, RemotePaths, PushOK
<1>9. QED
  BY <1>1, <1>2, <1>5, <1>7, <1>8 DEF Mapped

(* A flush records the path of a new file. *)
LEMMA RecordsMapped ==
  ASSUME RequestOK, Mapped, Spared, SharedStep, FlushRecords
  PROVE  Mapped' /\ Spared'
<1>1. SharedRight' /\ shared \subseteq shared'
  BY SharedNext
<1>2. /\ at = "record" /\ at' = "write" /\ req' = req
      /\ remote' = With(remote, req.ino, req.path)
      /\ UNCHANGED <<rows, brain, step, job, strayed>>
  BY DEF FlushRecords, Goes, Knows, pusher, history
<1>3. IsPath(req.path)
  BY <1>2 DEF RequestOK, Writing
<1>4. /\ DOMAIN remote' = DOMAIN remote \cup {req.ino} /\ remote'[req.ino] = req.path
      /\ \A i \in DOMAIN remote : i # req.ino => remote'[i] = remote[i]
  BY <1>2 DEF With
<1>5. RemotePaths'
  BY <1>3, <1>4 DEF Mapped, RemotePaths
<1>6. ASSUME NEW p \in DOMAIN rows \ shared', Latest(rows[p]).kind = "delete",
             NEW i \in DOMAIN remote', Bears(remote', strayed, i, p)
      PROVE  i = req.ino /\ p = req.path
  <2>1. p \in DOMAIN rows \ shared
    BY <1>1, <1>6
  <2>2. CASE i = req.ino
    BY <2>2, <1>4, <1>6 DEF Bears
  <2>3. CASE i # req.ino
    <3>1. i \in DOMAIN remote /\ Bears(remote, strayed, i, p)
      BY <2>3, <1>4, <1>6 DEF Bears
    <3>2. QED
      BY <2>1, <3>1, <1>2, <1>6 DEF Spared
  <2>4. QED
    BY <2>2, <2>3
<1>7. Spared'
  BY <1>2, <1>6 DEF Spared
<1>8. QED
  BY <1>1, <1>2, <1>5, <1>7 DEF Mapped, PushOK

LEMMA ProceedMapped ==
  ASSUME Tabled, RequestOK, Mapped, Spared, SharedStep, Proceed
  PROVE  Mapped' /\ Spared'
<1>1. CASE UnlinkFinds \/ UnlinkForgets
  BY <1>1, FindsMapped
<1>2. CASE UnlinkEnqueues \/ RenameEnqueues \/ FlushEnqueues
  BY <1>2, EnqueuesMapped
<1>3. CASE FlushRecords
  BY <1>3, RecordsMapped
<1>4. CASE ~ (UnlinkFinds \/ UnlinkForgets \/ UnlinkEnqueues \/ RenameEnqueues
              \/ FlushEnqueues \/ FlushRecords)
  <2>1. at' # "forget" /\ at' # "delete"
    BY <1>4 DEF Proceed, MakeInserts, RmdirChecks, UnlinkPath, RequestRemoves, RequestDrops,
       LinkInserts, LinkCounts, RenameRemoves, RenameSeeks, RenameClears, RenameDrops,
       RenamePath, RenameInserts, Goes, Knows, Done
  <2>2. QED
    BY <1>4, <2>1, QuietMapped DEF Proceed
<1>5. QED
  BY <1>1, <1>2, <1>3, <1>4
-----------------------------------------------------------------------------
(* The pull records the path of what it inserted. *)
LEMMA PullRecordsMapped ==
  ASSUME PullOK, Mapped, Spared, SharedStep, PullRecords
  PROVE  Mapped' /\ Spared'
<1>1. SharedRight' /\ shared \subseteq shared'
  BY SharedNext
<1>2. /\ remote' = With(remote, pull.ino, pull.path)
      /\ strayed' = strayed \cup {x \in {pull.ino} : Deleting(pull.path)}
      /\ UNCHANGED <<rows, brain, step, job, at, req>>
  BY DEF PullRecords, pusher, session
<1>3. IsPath(pull.path)
  BY DEF PullRecords, PullOK
<1>4. /\ DOMAIN remote' = DOMAIN remote \cup {pull.ino} /\ remote'[pull.ino] = pull.path
      /\ \A i \in DOMAIN remote : i # pull.ino => remote'[i] = remote[i]
  BY <1>2 DEF With
<1>5. RemotePaths'
  BY <1>3, <1>4 DEF Mapped, RemotePaths
<1>6. ASSUME NEW i \in DOMAIN remote', NEW p, Bears(remote', strayed', i, p)
      PROVE  \/ i \in DOMAIN remote /\ Bears(remote, strayed, i, p)
             \/ p = pull.path /\ ~ Deleting(p)
  <2>1. CASE i = pull.ino
    BY <2>1, <1>2, <1>4, <1>6 DEF Bears
  <2>2. CASE i # pull.ino
    BY <2>2, <1>2, <1>4, <1>6 DEF Bears
  <2>3. QED
    BY <2>1, <2>2
<1>7. ASSUME NEW p \in DOMAIN rows, Latest(rows[p]).kind = "delete" PROVE Deleting(p)
  <2>1. RowOK(rows[p]) /\ NoRow \notin QueueRow /\ NoEntry \notin Ops
    BY NamespaceAssumption DEF Mapped, RowsOK
  <2>2. Latest(rows[p]) # NoEntry
    BY <2>1 DEF RowOK, GoodOp
  <2>3. rows[p] # NoRow /\ Latest(rows[p]) \in {rows[p].op, rows[p].pending} \ {NoEntry}
    BY <2>1, <2>2 DEF RowOK, Latest
  <2>4. Latest(rows[p]) \in Q!Held(Row(p))
    BY <2>3 DEF Q!Held, Row
  <2>5. QED
    BY <2>4, <1>7 DEF Deleting
<1>8. at \in {"forget", "delete"} => Deleting(req.path)
  BY DEF Deleting
<1>9. Spared'
  <2>1. ASSUME NEW p \in DOMAIN rows \ shared', Latest(rows[p]).kind = "delete",
               NEW i \in DOMAIN remote', Bears(remote', strayed', i, p)
        PROVE  at = "write" /\ i = req.ino /\ p = req.path
    <3>1. i \in DOMAIN remote /\ Bears(remote, strayed, i, p) /\ p \in DOMAIN rows \ shared
      BY <2>1, <1>1, <1>6, <1>7
    <3>2. QED
      BY <2>1, <3>1 DEF Spared
  <2>2. ASSUME at = "forget", req.path \notin shared', NEW i \in DOMAIN remote',
               Bears(remote', strayed', i, req.path)
        PROVE  i = req.old
    <3>1. i \in DOMAIN remote /\ Bears(remote, strayed, i, req.path) /\ req.path \notin shared
      BY <2>2, <1>1, <1>6, <1>8
    <3>2. QED
      BY <2>2, <3>1 DEF Spared
  <2>3. ASSUME at = "delete", req.path \notin shared', NEW i \in DOMAIN remote',
               Bears(remote', strayed', i, req.path)
        PROVE  FALSE
    <3>1. i \in DOMAIN remote /\ Bears(remote, strayed, i, req.path) /\ req.path \notin shared
      BY <2>3, <1>1, <1>6, <1>8
    <3>2. QED
      BY <2>3, <3>1 DEF Spared
  <2>4. QED
    BY <1>2, <2>1, <2>2, <2>3 DEF Spared
<1>10. QED
  BY <1>1, <1>2, <1>5, <1>9 DEF Mapped, PushOK

LEMMA PullingMapped ==
  ASSUME PullOK, Mapped, Spared, SharedStep, Pulling
  PROVE  Mapped' /\ Spared'
<1>1. CASE PullRecords
  BY <1>1, PullRecordsMapped
<1>2. CASE ~ PullRecords
  <2>1. RemoteStill /\ at' = at /\ req' = req
    BY <1>2 DEF Pulling, PullBegins, PullEnsures, PullMakesDir, PullEnsured, PullResolves,
       PullLooks, PullInserts, RemoteStill, session, pusher, history
  <2>2. QED
    BY <2>1, StillMapped
<1>3. QED
  BY <1>1, <1>2
-----------------------------------------------------------------------------
LEMMA SiblingIsPath ==
  ASSUME NEW p, IsPath(p), NEW n \in Names
  PROVE  IsPath(Sibling(p, n))
<1>1. p \in Seq(AllNames) /\ Len(p) \in Nat /\ n \in AllNames
  BY DEF IsPath, AllNames
<1>2. Len(p) \in 1..Len(p)
  BY <1>1 DEF IsPath
<1>3. /\ Sibling(p, n) \in Seq(AllNames) /\ Len(Sibling(p, n)) = Len(p)
      /\ \A j \in 1..Len(p) : Sibling(p, n)[j] = IF j = Len(p) THEN n ELSE p[j]
  BY <1>1, <1>2, ExceptSeq DEF Sibling
<1>4. 1 \in 1..Len(p) /\ 1 # Len(p) /\ 2..Len(p) \subseteq 1..Len(p)
  BY <1>1 DEF IsPath
<1>5. \A c \in 2..Len(p) : Sibling(p, n)[c] \in Names
  BY <1>3, <1>4 DEF IsPath
<1>6. QED
  BY <1>3, <1>4, <1>5 DEF IsPath, AllNames

(* The push worker. *)
LEMMA PushMapped ==
  ASSUME Mapped, Spared, SharedStep, Pushing
  PROVE  Mapped' /\ Spared'
<1>1. SharedRight' /\ shared \subseteq shared'
  BY SharedNext
<1>2. UNCHANGED <<at, req, strayed>>
  BY DEF Pushing, PushClaim, PushExecutes, PushFinalizes, PushFinds, PushForgets,
     session, history
<1>3. Part(remote, remote')
  <2>1. CASE PushForgets
    BY <2>1, PartIs DEF PushForgets
  <2>2. CASE ~ PushForgets
    <3>1. remote' = remote
      BY <2>2 DEF Pushing, PushClaim, PushExecutes, PushFinalizes, PushFinds
    <3>2. QED
      BY <3>1, PartIs
  <2>3. QED
    BY <2>1, <2>2
<1>4. RowsOK(rows') /\ NoNewDelete(rows, rows') /\ PushOK'
  <2>1. CASE \E p \in DOMAIN rows : PushClaim(p)
    <3>1. PICK p \in DOMAIN rows : PushClaim(p)
      BY <2>1
    <3>2. /\ rows' = [rows EXCEPT ![p] = Q!Claimed(rows[p])] /\ job'.path = p
      BY <3>1 DEF PushClaim
    <3>3. RowOK(Q!Claimed(rows[p])) /\ Latest(Q!Claimed(rows[p])) = Latest(rows[p])
      BY ClaimedRow DEF Mapped, RowsOK
    <3>4. /\ DOMAIN rows' = DOMAIN rows /\ rows'[p] = Q!Claimed(rows[p])
          /\ \A q \in DOMAIN rows : q # p => rows'[q] = rows[q]
      BY <3>2
    <3>5. QED
      BY <3>2, <3>3, <3>4 DEF Mapped, RowsOK, NoNewDelete, PushOK
  <2>2. CASE PushExecutes
    BY <2>2 DEF PushExecutes, Mapped, RowsOK, NoNewDelete, PushOK
  <2>3. CASE PushFinalizes
    <3> DEFINE p == job.path
               row == Q!Succeeded(rows[p])
    <3>1. /\ step = "finalize" /\ step' \in {"find", "idle"}
          /\ rows' = IF row = NoRow THEN Without(rows, {p}) ELSE [rows EXCEPT ![p] = row]
      BY <2>3 DEF PushFinalizes
    <3>2. p \in DOMAIN rows /\ RowOK(rows[p])
      BY <3>1 DEF Mapped, PushOK, RowsOK
    <3>3. row = NoRow \/ (RowOK(row) /\ Latest(row) = Latest(rows[p]))
      BY <3>2, SucceededRow
    <3> HIDE DEF row, p
    <3>4. CASE row = NoRow
      <4>1. rows' = Without(rows, {p})
        BY <3>1, <3>4
      <4>2. DOMAIN rows' \subseteq DOMAIN rows /\ \A q \in DOMAIN rows' : rows'[q] = rows[q]
        BY <4>1 DEF Without
      <4>3. QED
        BY <4>2, <3>1 DEF Mapped, RowsOK, NoNewDelete, PushOK
    <3>5. CASE row # NoRow
      <4>1. /\ DOMAIN rows' = DOMAIN rows /\ rows'[p] = row
            /\ \A q \in DOMAIN rows : q # p => rows'[q] = rows[q]
        BY <3>1, <3>2, <3>5
      <4>2. QED
        BY <4>1, <3>1, <3>2, <3>3, <3>5 DEF Mapped, RowsOK, NoNewDelete, PushOK
    <3>6. QED
      BY <3>4, <3>5
  <2>4. CASE PushFinds \/ PushForgets
    BY <2>4 DEF PushFinds, PushForgets, Mapped, RowsOK, NoNewDelete, PushOK
  <2>5. QED
    BY <2>1, <2>2, <2>3, <2>4 DEF Pushing
<1>5. \A q \in brain' : IsPath(q)
  <2>1. CASE PushExecutes
    <3> DEFINE p == job.path
               op == rows[p].op
    <3>1. /\ step = "execute"
          /\ brain' = CASE op.kind = "write" -> brain \cup {p}
                        [] op.kind = "delete" -> brain \ {p}
                        [] op.kind = "rename" -> (brain \cup {Sibling(p, op.to)}) \ {p}
      BY <2>1 DEF PushExecutes
    <3>2. p \in DOMAIN rows /\ IsPath(p) /\ GoodOp(op)
      BY <3>1 DEF Mapped, PushOK, RowsOK, RowOK
    <3> HIDE DEF op, p
    <3>3. op.kind \in {"write", "rename", "delete"} /\ (op.kind = "rename" => op.to \in Names)
      BY <3>2 DEF GoodOp, Ops
    <3>4. op.kind = "rename" => IsPath(Sibling(p, op.to))
      BY <3>2, <3>3, SiblingIsPath
    <3>5. CASE op.kind = "rename"
      <4>1. brain' \subseteq brain \cup {p, Sibling(p, op.to)}
        BY <3>1, <3>5
      <4>2. QED
        BY <4>1, <3>2, <3>4, <3>5 DEF Mapped
    <3>6. CASE op.kind # "rename"
      <4>1. brain' \subseteq brain \cup {p}
        BY <3>1, <3>3, <3>6
      <4>2. QED
        BY <4>1, <3>2 DEF Mapped
    <3>7. QED
      BY <3>5, <3>6
  <2>2. CASE ~ PushExecutes
    <3>1. brain' = brain
      BY <2>2 DEF Pushing, PushClaim, PushFinalizes, PushFinds, PushForgets
    <3>2. QED
      BY <3>1 DEF Mapped
  <2>3. QED
    BY <2>1, <2>2
<1>6. Spared'
  BY <1>1, <1>2, <1>3, <1>4, SparedKept
<1>7. RemotePaths'
  BY <1>3, PartPaths DEF Mapped
<1>8. QED
  BY <1>1, <1>4, <1>5, <1>6, <1>7 DEF Mapped
-----------------------------------------------------------------------------
(* What fs_remote says, or is about to say, agrees with the entries: only  *)
(* files have paths, and each path is that of a trail to the inode.        *)
AgreedAt(dents, i, p) ==
  \E w : /\ Leads(dents, w, i) /\ Len(w) <= MaxIno
         /\ p = IF Head(w) = Private THEN w ELSE <<Private>> \o w

Claims(i, p) ==
  \/ i \in DOMAIN remote /\ remote[i] = p
  \/ stage = "record" /\ i = pull.ino /\ p = pull.path
  \/ at = "record" /\ i = req.ino /\ p = req.path

(* An inode that strayed, or is about to lose a link. *)
Astray(i) ==
  \/ i \in strayed
  \/ at = "drop" /\ i = req.ino
  \/ at = "lower" /\ i = req.old

NoDirs == \A i, p : Claims(i, p) /\ i \in DOMAIN inode => inode[i].kind # "dir"
Agreed ==
  \A i, p : Claims(i, p) /\ ~ Astray(i) => i \in DOMAIN inode /\ AgreedAt(dentry, i, p)

(* What is entered again is not entered below itself.                      *)
Apart(dents, i, d) == \E B : Shut(dents, B) /\ i \in B /\ d \notin B
Parted ==
  /\ NoLoop(dentry)
  /\ at = "link" => Apart(dentry, req.ino, req.key[1])
  /\ at \in Moving => Apart(dentry, req.ino, req.to[1])

(* What is said to have strayed. *)
Owed ==
  /\ replaced \subseteq strayed
  /\ (at = "drop" /\ Named(dentry, req.ino) # {}) => req.ino \in strayed
  /\ (at = "lower" /\ Named(dentry, req.old) # {}) => req.old \in strayed
  /\ at \in Taken => req.ino \in strayed

Straight == Parted /\ Owed /\ NoDirs /\ Agreed

(* Entries go from a set of inodes that is left without paths, or whose    *)
(* paths are said to stray; others may come.                               *)
KeptBeyond(B) ==
  /\ Shut(dentry, B)
  /\ \A k \in DOMAIN dentry :
       dentry[k] \in B \/ (k \in DOMAIN dentry' /\ dentry'[k] = dentry[k])
KindsKept ==
  \A i \in DOMAIN inode' : i # nextIno =>
    i \in DOMAIN inode /\ inode'[i].kind = inode[i].kind
ClaimsKept == \A i, p : Claims(i, p)' => Claims(i, p)

LEMMA AgreedAtKept ==
  ASSUME NEW dents, NEW i, NEW p, AgreedAt(dents, i, p),
         NEW B, Shut(dents, B), i \notin B,
         NEW new, \A k \in DOMAIN dents :
           dents[k] \in B \/ (k \in DOMAIN new /\ new[k] = dents[k])
  PROVE  AgreedAt(new, i, p)
<1>1. PICK w : /\ Leads(dents, w, i) /\ Len(w) <= MaxIno
               /\ p = IF Head(w) = Private THEN w ELSE <<Private>> \o w
  BY DEF AgreedAt
<1>2. Leads(new, w, i)
  BY <1>1, TrailKept
<1>3. QED
  BY <1>1, <1>2 DEF AgreedAt

LEMMA ClaimsBefore ==
  ASSUME Tabled, RequestOK, PullOK, NEW i, NEW p, Claims(i, p)
  PROVE  i # nextIno
BY DEF Claims, Tabled, Typed, RequestOK, PullOK, Writing

LEMMA AgreedKept ==
  ASSUME Agreed, NEW B, KeptBeyond(B),
         \A i, p : Claims(i, p)' /\ ~ Astray(i)' =>
           /\ Claims(i, p) /\ ~ Astray(i) /\ i \notin B
           /\ i \in DOMAIN inode => i \in DOMAIN inode'
  PROVE  Agreed'
<1>1. ASSUME NEW i, NEW p, Claims(i, p)', ~ Astray(i)'
      PROVE  i \in DOMAIN inode' /\ AgreedAt(dentry', i, p)
  <2>1. Claims(i, p) /\ ~ Astray(i) /\ i \notin B /\ (i \in DOMAIN inode => i \in DOMAIN inode')
    BY <1>1
  <2>2. i \in DOMAIN inode /\ AgreedAt(dentry, i, p)
    BY <2>1 DEF Agreed
  <2>3. AgreedAt(dentry', i, p)
    BY <2>1, <2>2, AgreedAtKept DEF KeptBeyond
  <2>4. QED
    BY <2>1, <2>2, <2>3
<1>2. QED
  BY <1>1 DEF Agreed

LEMMA NoDirsKept ==
  ASSUME Tabled, RequestOK, PullOK, NoDirs, KindsKept, ClaimsKept
  PROVE  NoDirs'
<1>1. ASSUME NEW i, NEW p, Claims(i, p)', i \in DOMAIN inode'
      PROVE  inode'[i].kind # "dir"
  <2>1. Claims(i, p)
    BY <1>1 DEF ClaimsKept
  <2>2. i # nextIno
    BY <2>1, ClaimsBefore
  <2>3. i \in DOMAIN inode /\ inode'[i].kind = inode[i].kind
    BY <1>1, <2>2 DEF KindsKept
  <2>4. QED
    BY <2>1, <2>3 DEF NoDirs
<1>2. QED
  BY <1>1 DEF NoDirs

LEMMA PartedStill ==
  ASSUME Parted, dentry' = dentry,
         at' = "link" => at = "link" /\ req'.ino = req.ino /\ req'.key = req.key,
         at' \in Moving => at \in Moving /\ req'.ino = req.ino /\ req'.to = req.to
  PROVE  Parted'
BY DEF Parted

(* The steps that leave the entries alone, and drop no inode. *)
LEMMA StraightQuiet ==
  ASSUME Tabled, RequestOK, PullOK, Straight, Parted',
         UNCHANGED <<dentry, replaced>>, strayed \subseteq strayed',
         KindsKept, DOMAIN inode \subseteq DOMAIN inode', ClaimsKept,
         \/ UNCHANGED <<at, req>>
         \/ /\ at \notin {"drop", "lower"} /\ at' \notin {"drop", "lower"}
            /\ at' \in Taken => at \in Taken /\ req'.ino = req.ino
  PROVE  Straight'
<1>1. Parted /\ Owed /\ NoDirs /\ Agreed
  BY DEF Straight
<1>2. Owed'
  BY <1>1 DEF Owed
<1>3. NoDirs'
  BY <1>1, NoDirsKept
<1>4. KeptBeyond({})
  BY DEF KeptBeyond, Shut
<1>5. \A i : ~ Astray(i)' => ~ Astray(i)
  BY DEF Astray
<1>6. \A i, p : Claims(i, p)' /\ ~ Astray(i)' =>
        /\ Claims(i, p) /\ ~ Astray(i) /\ i \notin {}
        /\ i \in DOMAIN inode => i \in DOMAIN inode'
  BY <1>5 DEF ClaimsKept
<1>7. Agreed'
  BY <1>1, <1>4, <1>6, AgreedKept
<1>8. QED
  BY <1>2, <1>3, <1>7 DEF Straight

LEMMA EntryBelow ==
  ASSUME Tabled, NEW k \in DOMAIN dentry
  PROVE  dentry[k] \in Below(dentry[k]) /\ Shut(dentry, Below(dentry[k]))
BY EntryInos, BelowIs

LEMMA LostIs ==
  ASSUME Tabled, NEW k
  PROVE  /\ Shut(dentry, Lost(k)) /\ Bearer(k) \subseteq Lost(k)
         /\ k \in DOMAIN dentry => dentry[k] \in Lost(k)
<1>1. CASE k \in DOMAIN dentry
  <2>1. Lost(k) = Below(dentry[k]) /\ Bearer(k) = {dentry[k]}
    BY <1>1 DEF Lost, Bearer
  <2>2. QED
    BY <1>1, <2>1, EntryBelow
<1>2. CASE k \notin DOMAIN dentry
  BY <1>2 DEF Lost, Bearer, Shut
<1>3. QED
  BY <1>1, <1>2

(* A name is taken away, or led to another inode. *)
LEMMA BeyondLost ==
  ASSUME Tabled, NEW k,
         \/ dentry' = Without(dentry, {k})
         \/ \E i : dentry' = With(dentry, k, i)
  PROVE  KeptBeyond(Lost(k))
<1>1. Shut(dentry, Lost(k)) /\ (k \in DOMAIN dentry => dentry[k] \in Lost(k))
  BY LostIs
<1>2. \A e \in DOMAIN dentry : e # k => e \in DOMAIN dentry' /\ dentry'[e] = dentry[e]
  BY DEF With, Without
<1>3. QED
  BY <1>1, <1>2 DEF KeptBeyond
-----------------------------------------------------------------------------
(* An inode in the tables has a number, and its Below. *)
LEMMA LiveBelow ==
  ASSUME Tabled, NEW i \in DOMAIN inode
  PROVE  i \in 1..MaxIno /\ i \in Below(i) /\ Shut(dentry, Below(i))
<1>1. i \in 1..(nextIno - 1) /\ nextIno \in Nat /\ nextIno <= MaxIno + 1
  BY DEF Tabled, Typed
<1>2. i \in 1..MaxIno
  BY <1>1, NamespaceAssumption
<1>3. QED
  BY <1>2, BelowIs

(* A request is taken. *)
LEMMA BeginsStraight ==
  ASSUME Tabled, RequestOK, PullOK, Straight, at = "idle", Parted',
         UNCHANGED <<inode, dentry, remote, stage, pull, history>>,
         at' \in {"make", "check", "path", "link", "cut", "write"}
  PROVE  Straight'
<1>1. UNCHANGED <<strayed, replaced>>
  BY DEF history
<1>2. KindsKept /\ ClaimsKept
  BY DEF KindsKept, ClaimsKept, Claims
<1>3. at \notin {"drop", "lower"} /\ at' \notin {"drop", "lower"} /\ at' \notin Taken
  BY DEF Taken
<1>4. QED
  BY <1>1, <1>2, <1>3, StraightQuiet

(* ... that does not move anything *)
LEMMA StaysStraight ==
  ASSUME Tabled, RequestOK, PullOK, Straight, at = "idle",
         UNCHANGED <<inode, dentry, remote, stage, pull, history>>,
         at' \in {"make", "check", "path", "write"}
  PROVE  Straight'
<1>1. at' # "link" /\ at' \notin Moving
  BY DEF Moving, Taken
<1>2. Parted'
  BY <1>1, PartedStill DEF Straight
<1>3. QED
  BY <1>2, BeginsStraight

LEMMA LinkStraight ==
  ASSUME Tabled, RequestOK, PullOK, Straight, NEW i \in Live, NEW d, NEW n, Link(i, d, n)
  PROVE  Straight'
<1>1. /\ at = "idle" /\ at' = "link" /\ req' = [NoReq EXCEPT !.key = <<d, n>>, !.ino = i]
      /\ UNCHANGED <<inode, dentry, remote, stage, pull, history>> /\ d \notin Below(i)
  BY DEF Link, Begins, tree, puller
<1>2. req'.ino = i /\ req'.key[1] = d
  BY <1>1 DEF NoReq
<1>3. Apart(dentry', i, d)
  BY <1>1, LiveBelow DEF Apart, Live
<1>4. Parted'
  <2>1. at' \notin Moving /\ NoLoop(dentry')
    BY <1>1 DEF Moving, Taken, Straight, Parted
  <2>2. QED
    BY <1>2, <1>3, <2>1 DEF Parted
<1>5. QED
  BY <1>1, <1>4, BeginsStraight

LEMMA RenameStraight ==
  ASSUME Tabled, RequestOK, PullOK, Balanced, Straight, ~ misled', NEW d, NEW n,
         NEW e, NEW m, Rename(d, n, e, m)
  PROVE  Straight'
<1> DEFINE k == <<d, n>>
           i == Seen(k)
<1>1. /\ at = "idle" /\ at' = "cut" /\ i # NoIno
      /\ req' = [NoReq EXCEPT !.key = k, !.to = <<e, m>>, !.ino = i]
      /\ UNCHANGED <<inode, dentry, remote, stage, pull, history>> /\ e \notin Below(i)
      /\ Looks(k)
  BY DEF Rename, Begins, tree, puller
<1>2. i \in DOMAIN inode
  BY <1>1, SeenRight, BalancedIs DEF LeadsTo
<1>3. req'.ino = i /\ req'.to[1] = e
  BY <1>1 DEF NoReq
<1> HIDE DEF i, k
<1>4. Apart(dentry', i, e)
  BY <1>1, <1>2, LiveBelow DEF Apart
<1>5. Parted'
  <2>1. at' # "link" /\ NoLoop(dentry')
    BY <1>1 DEF Straight, Parted
  <2>2. QED
    BY <1>3, <1>4, <2>1 DEF Parted
<1>6. QED
  BY <1>1, <1>5, BeginsStraight

(* The path that a first flush takes is that of a trail. *)
LEMMA FlushStraight ==
  ASSUME Tabled, RequestOK, PullOK, Straight, NEW i \in Live, Flush(i)
  PROVE  Straight'
<1>1. /\ i \in DOMAIN inode /\ inode[i].kind = "file"
      /\ UNCHANGED <<inode, dentry, remote, stage, pull, history>>
  BY DEF Flush, Files, Live, tree, puller
<1>2. CASE i \in DOMAIN remote
  <2>1. at = "idle" /\ at' = "write"
    BY <1>2 DEF Flush, Begins
  <2>2. QED
    BY <1>1, <2>1, StaysStraight
<1>3. CASE i \notin DOMAIN remote
  <2>1. PICK p \in BuildPaths(i) : /\ at = "idle" /\ at' = "record"
                                  /\ req' = [NoReq EXCEPT !.ino = i, !.path = p]
    <3>1. \E p \in BuildPaths(i) : Begins("record", [NoReq EXCEPT !.ino = i, !.path = p])
      BY <1>3 DEF Flush
    <3>2. QED
      BY <3>1 DEF Begins
  <2>2. req'.ino = i /\ req'.path = p
    BY <2>1 DEF NoReq
  <2>3. AgreedAt(dentry, i, p)
    <3>1. PICK w \in Ways(i) : p = IF Head(w) = Private THEN w ELSE <<Private>> \o w
      BY DEF BuildPaths
    <3>2. Leads(dentry, w, i) /\ Len(w) <= MaxIno
      BY <1>1, LiveBelow, WaysLead
    <3>3. QED
      BY <3>1, <3>2 DEF AgreedAt
  <2>4. Parted'
    <3>1. at' # "link" /\ at' \notin Moving
      BY <2>1 DEF Moving, Taken
    <3>2. QED
      BY <1>1, <3>1, PartedStill DEF Straight
  <2>5. Owed'
    BY <1>1, <2>1 DEF Straight, Owed, Taken, history
  <2>6. \A x, q : Claims(x, q)' => Claims(x, q) \/ (x = i /\ q = p)
    BY <1>1, <2>1, <2>2 DEF Claims
  <2>7. \A x : Astray(x) => Astray(x)'
    BY <1>1, <2>1 DEF Astray, history
  <2>8. NoDirs'
    BY <1>1, <2>6 DEF Straight, NoDirs
  <2>9. Agreed'
    <3>1. ASSUME NEW x, NEW q, Claims(x, q)', ~ Astray(x)'
          PROVE  x \in DOMAIN inode' /\ AgreedAt(dentry', x, q)
      <4>1. CASE Claims(x, q)
        BY <4>1, <1>1, <2>7, <3>1 DEF Straight, Agreed
      <4>2. CASE x = i /\ q = p
        BY <4>2, <1>1, <2>3
      <4>3. QED
        BY <2>6, <3>1, <4>1, <4>2
    <3>2. QED
      BY <3>1 DEF Agreed
  <2>10. QED
    BY <2>4, <2>5, <2>8, <2>9 DEF Straight
<1>4. QED
  BY <1>2, <1>3

LEMMA RequestStraight ==
  ASSUME Tabled, RequestOK, PullOK, Balanced, Straight, ~ misled', Request
  PROVE  Straight'
<1>1. ASSUME NEW d, NEW n, Lookup(d, n) PROVE Straight'
  <2>1. UNCHANGED <<inode, dentry, remote, at, req, stage, pull, strayed, replaced>>
    BY <1>1 DEF Lookup, tree, session, puller, history
  <2>2. KindsKept /\ ClaimsKept /\ Parted'
    BY <2>1 DEF KindsKept, ClaimsKept, Claims, Straight, Parted
  <2>3. QED
    BY <2>1, <2>2, StraightQuiet
<1>2. ASSUME NEW d, NEW n, \/ Mkdir(d, n) \/ CreateFile(d, n) \/ Symlink(d, n)
                          \/ Rmdir(d, n) \/ Unlink(d, n)
      PROVE  Straight'
  <2>1. /\ at = "idle" /\ at' \in {"make", "check", "path", "write"}
        /\ UNCHANGED <<inode, dentry, remote, stage, pull, history>>
    BY <1>2 DEF Mkdir, CreateFile, Symlink, MakeLooks, Rmdir, Unlink, Begins, tree, puller
  <2>2. QED
    BY <2>1, StaysStraight
<1>3. QED
  BY <1>1, <1>2, LinkStraight, RenameStraight, FlushStraight DEF Request
-----------------------------------------------------------------------------
(* What is apart stays apart when names go, or lead to a new inode.        *)
Over(dents, next, new) ==
  \A k \in DOMAIN new : /\ k[1] # next
                        /\ (k \in DOMAIN dents /\ new[k] = dents[k]) \/ new[k] = next

LEMMA ApartKept ==
  ASSUME NEW dents, NEW i, NEW d, Apart(dents, i, d), NEW next, d # next,
         NEW new, Over(dents, next, new)
  PROVE  Apart(new, i, d)
<1>1. PICK B : Shut(dents, B) /\ i \in B /\ d \notin B
  BY DEF Apart
<1>2. Shut(new, B \cup {next})
  BY <1>1 DEF Shut, Over
<1>3. i \in B \cup {next} /\ d \notin B \cup {next}
  BY <1>1
<1>4. QED
  BY <1>2, <1>3 DEF Apart

LEMMA KeysBelow ==
  ASSUME Tabled
  PROVE  /\ nextIno \in Nat
         /\ \A k \in DOMAIN dentry : k[1] # nextIno /\ dentry[k] # nextIno
         /\ \A k \in Keys(nextIno) : k[1] # nextIno
<1>1. /\ nextIno \in Nat /\ nextIno > Notes
      /\ DOMAIN dentry \subseteq Keys(nextIno) \cup {Door}
      /\ \A k \in DOMAIN dentry : dentry[k] \in 2..(nextIno - 1)
  BY DEF Tabled, Typed
<1>2. \A k \in Keys(nextIno) : k[1] # nextIno
  BY <1>1, KeyIs
<1>3. Door[1] # nextIno
  BY <1>1 DEF Door, Root, Notes
<1>4. QED
  BY <1>1, <1>2, <1>3

(* A new inode is entered. *)
LEMMA PartedMade ==
  ASSUME Tabled, RequestOK, Parted, NEW c \in Keys(nextIno),
         dentry' = With(dentry, c, nextIno),
         \/ at' = "idle"
         \/ at' = at /\ req' = req
  PROVE  Parted'
<1>1. nextIno \in Nat /\ (\A k \in DOMAIN dentry : k[1] # nextIno) /\ c[1] # nextIno
  BY KeysBelow
<1>2. NoLoop(dentry')
  BY <1>1, LoopNew DEF Tabled, Parted
<1>3. CASE at' = "idle"
  BY <1>2, <1>3 DEF Parted, Moving, Taken
<1>4. CASE at' = at /\ req' = req
  <2>1. Over(dentry, nextIno, dentry')
    BY <1>1 DEF With, Over
  <2>2. ASSUME at = "link" PROVE Apart(dentry', req.ino, req.key[1])
    <3>1. req.key[1] # nextIno
      BY <2>2, KeysBelow DEF RequestOK
    <3>2. Apart(dentry, req.ino, req.key[1])
      BY <2>2 DEF Parted
    <3>3. QED
      BY <2>1, <3>1, <3>2, ApartKept
  <2>3. ASSUME at \in Moving PROVE Apart(dentry', req.ino, req.to[1])
    <3>1. req.to[1] # nextIno
      BY <2>3, KeysBelow DEF RequestOK
    <3>2. Apart(dentry, req.ino, req.to[1])
      BY <2>3 DEF Parted
    <3>3. QED
      BY <2>1, <3>1, <3>2, ApartKept
  <2>4. QED
    BY <1>2, <1>4, <2>2, <2>3 DEF Parted
<1>5. QED
  BY <1>3, <1>4

(* A name is removed. *)
LEMMA PartedCut ==
  ASSUME Tabled, RequestOK, Parted, NEW k, dentry' = Without(dentry, {k}),
         at' # "link", at' \in Moving => at \in Moving /\ req' = req
  PROVE  Parted'
<1>1. NoLoop(dentry')
  BY LoopCut DEF Parted
<1>2. ASSUME at' \in Moving PROVE Apart(dentry', req.ino, req.to[1])
  <2>1. at \in Moving /\ req.to[1] # nextIno
    BY <1>2, KeysBelow DEF RequestOK
  <2>2. Apart(dentry, req.ino, req.to[1])
    BY <2>1 DEF Parted
  <2>3. Over(dentry, nextIno, dentry')
    BY KeysBelow DEF Without, Over
  <2>4. QED
    BY <2>1, <2>2, <2>3, ApartKept
<1>3. QED
  BY <1>1, <1>2 DEF Parted

(* An inode is entered again, apart from where it is entered. *)
LEMMA PartedPut ==
  ASSUME Parted, NEW k, Apart(dentry, req.ino, k[1]), dentry' = With(dentry, k, req.ino),
         at' # "link", at' \notin Moving
  PROVE  Parted'
<1>1. NoLoop(dentry')
  BY LoopPut DEF Parted, Apart
<1>2. QED
  BY <1>1 DEF Parted

(* A name goes, or leads elsewhere, and what is lost with it strays.       *)
LEMMA MovedStraight ==
  ASSUME Tabled, RequestOK, PullOK, Straight, Parted', Owed',
         KindsKept, DOMAIN inode \subseteq DOMAIN inode', ClaimsKept,
         NEW k, \/ dentry' = Without(dentry, {k})
                \/ \E i : dentry' = With(dentry, k, i),
         \A x : Astray(x) \/ x \in Lost(k) => Astray(x)'
  PROVE  Straight'
<1>1. NoDirs'
  BY NoDirsKept DEF Straight
<1>2. KeptBeyond(Lost(k))
  BY BeyondLost
<1>3. \A i, p : Claims(i, p)' /\ ~ Astray(i)' =>
        /\ Claims(i, p) /\ ~ Astray(i) /\ i \notin Lost(k)
        /\ i \in DOMAIN inode => i \in DOMAIN inode'
  BY DEF ClaimsKept
<1>4. Agreed'
  BY <1>2, <1>3, AgreedKept DEF Straight
<1>5. QED
  BY <1>1, <1>4 DEF Straight
-----------------------------------------------------------------------------
(* The statements of a request. *)
LEMMA QuietStraight ==
  ASSUME Tabled, RequestOK, PullOK, Straight,
         \/ RmdirChecks \/ UnlinkPath \/ UnlinkFinds \/ UnlinkForgets \/ UnlinkEnqueues
         \/ LinkCounts \/ RenameSeeks \/ RenamePath \/ RenameEnqueues
         \/ FlushRecords \/ FlushEnqueues
  PROVE  Straight'
<1>1. /\ DOMAIN req = Fields
      /\ UNCHANGED <<dentry, strayed, replaced, stage, pull>>
  BY DEF RmdirChecks, UnlinkPath, UnlinkFinds, UnlinkForgets, UnlinkEnqueues, LinkCounts,
     RenameSeeks, RenamePath, RenameEnqueues, FlushRecords, FlushEnqueues, tree, puller,
     history, RequestOK
<1>2. /\ at \notin {"drop", "lower"} /\ at' \notin {"drop", "lower", "link", "record"}
      /\ at' \in Moving => /\ at \in Taken /\ at' \in Taken
                           /\ req'.ino = req.ino /\ req'.to = req.to
  BY <1>1 DEF RmdirChecks, UnlinkPath, UnlinkFinds, UnlinkForgets, UnlinkEnqueues, LinkCounts,
     RenameSeeks, RenamePath, RenameEnqueues, FlushRecords, FlushEnqueues, Goes, Knows, Done,
     Moving, Taken, Fields
<1>3. KindsKept /\ DOMAIN inode \subseteq DOMAIN inode'
  <2>1. CASE LinkCounts
    <3>1. inode' = [inode EXCEPT ![req.ino].nlink = @ + 1]
      BY <2>1 DEF LinkCounts
    <3>2. \A j \in DOMAIN inode : inode[j] \in [kind: Kinds, nlink: Nat \ {0}]
      BY NodesTyped DEF Nodes
    <3>3. QED
      BY <3>1, <3>2 DEF KindsKept
  <2>2. CASE ~ LinkCounts
    <3>1. inode' = inode
      BY <2>2 DEF RmdirChecks, UnlinkPath, UnlinkFinds, UnlinkForgets, UnlinkEnqueues,
         RenameSeeks, RenamePath, RenameEnqueues, FlushRecords, FlushEnqueues, tree
    <3>2. QED
      BY <3>1 DEF KindsKept
  <2>3. QED
    BY <2>1, <2>2
<1>4. ClaimsKept
  <2>1. CASE FlushRecords
    <3>1. remote' = With(remote, req.ino, req.path) /\ at = "record"
      BY <2>1 DEF FlushRecords
    <3>2. QED
      BY <1>1, <1>2, <3>1 DEF ClaimsKept, Claims, With
  <2>2. CASE UnlinkForgets
    <3>1. remote' = Without(remote, {req.old})
      BY <2>2 DEF UnlinkForgets
    <3>2. QED
      BY <1>1, <1>2, <3>1 DEF ClaimsKept, Claims, Without
  <2>3. CASE ~ FlushRecords /\ ~ UnlinkForgets
    <3>1. remote' = remote
      BY <2>3 DEF RmdirChecks, UnlinkPath, UnlinkFinds, UnlinkEnqueues, LinkCounts,
         RenameSeeks, RenamePath, RenameEnqueues, FlushEnqueues
    <3>2. QED
      BY <1>1, <1>2, <3>1 DEF ClaimsKept, Claims
  <2>4. QED
    BY <2>1, <2>2, <2>3
<1>5. at' \in Taken => at' \in Moving
  BY DEF Moving
<1>6. at \in Taken => at \in Moving
  BY DEF Moving
<1>7. Parted'
  BY <1>1, <1>2, <1>6, PartedStill DEF Straight
<1>8. QED
  BY <1>1, <1>2, <1>3, <1>4, <1>5, <1>7, StraightQuiet

(* mkdir, create and symlink enter a new inode; a link and a rename one    *)
(* that there is.                                                          *)
LEMMA EntersStraight ==
  ASSUME Tabled, RequestOK, PullOK, Straight, MakeInserts \/ LinkInserts \/ RenameInserts
  PROVE  Straight'
<1>1. PICK k, i :
        /\ dentry' = With(dentry, k, i) /\ replaced' = replaced \cup Bearer(k)
        /\ strayed \cup Lost(k) \subseteq strayed'
        /\ \/ MakeInserts /\ k = req.key /\ i = nextIno
           \/ LinkInserts /\ k = req.key /\ i = req.ino
           \/ RenameInserts /\ k = req.to /\ i = req.ino
  BY DEF MakeInserts, Makes, LinkInserts, RenameInserts, Inserts
<1>2. /\ at \in {"make", "link", "move"} /\ at' \in {"idle", "count"}
      /\ UNCHANGED <<remote, stage, pull>>
  BY DEF MakeInserts, LinkInserts, RenameInserts, Goes, Knows, Done, puller
<1>3. Parted'
  <2>1. CASE MakeInserts /\ k = req.key /\ i = nextIno
    <3>1. at = "make" /\ at' = "idle" /\ req.key \in Keys(nextIno)
      BY <2>1 DEF MakeInserts, Done, Knows, RequestOK
    <3>2. QED
      BY <1>1, <2>1, <3>1, PartedMade DEF Straight
  <2>2. CASE i = req.ino /\ (LinkInserts \/ RenameInserts)
    <3>1. Apart(dentry, req.ino, k[1])
      <4>1. CASE LinkInserts
        BY <4>1, <1>1 DEF LinkInserts, RenameInserts, MakeInserts, Straight, Parted
      <4>2. CASE RenameInserts
        BY <4>2, <1>1 DEF LinkInserts, RenameInserts, MakeInserts, Straight, Parted, Moving, Taken
      <4>3. QED
        BY <2>2, <4>1, <4>2
    <3>2. at' # "link" /\ at' \notin Moving
      BY <1>2 DEF Moving, Taken
    <3>3. QED
      BY <1>1, <2>2, <3>1, <3>2, PartedPut DEF Straight
  <2>3. QED
    BY <1>1, <2>1, <2>2
<1>4. Owed'
  <2>1. Bearer(k) \subseteq Lost(k)
    BY LostIs
  <2>2. QED
    BY <1>1, <1>2, <2>1 DEF Straight, Owed, Taken
<1>5. KindsKept /\ DOMAIN inode \subseteq DOMAIN inode'
  <2>1. CASE MakeInserts
    BY <2>1 DEF MakeInserts, Makes, With, KindsKept
  <2>2. CASE LinkInserts \/ RenameInserts
    BY <2>2 DEF LinkInserts, RenameInserts, KindsKept
  <2>3. QED
    BY <2>1, <2>2
<1>6. ClaimsKept
  BY <1>2 DEF ClaimsKept, Claims
<1>7. \A x : Astray(x) \/ x \in Lost(k) => Astray(x)'
  BY <1>1, <1>2 DEF Astray
<1>8. QED
  BY <1>1, <1>3, <1>4, <1>5, <1>6, <1>7, MovedStraight

(* rmdir, unlink and rename take a name away. *)
LEMMA TakesStraight ==
  ASSUME Tabled, RequestOK, PullOK, Straight,
         RequestRemoves \/ RenameRemoves \/ RenameClears
  PROVE  Straight'
<1>1. /\ UNCHANGED <<inode, remote, stage, pull>> /\ req' = req
      /\ \/ at = "remove" /\ at' = "drop"
         \/ at = "cut" /\ at' = "seek"
         \/ at = "clear" /\ at' = "lower"
  BY DEF RequestRemoves, RenameRemoves, RenameClears, Goes, Knows, puller
<1>2. PICK k : /\ dentry' = Without(dentry, {k})
               /\ \/ at = "remove" /\ Removes(k, req.ino)
                  \/ at = "clear" /\ Removes(k, req.old)
                  \/ /\ at = "cut"
                     /\ replaced' = replaced \cup (Bearer(k) \ {req.ino})
                     /\ strayed' = strayed \cup Lost(k) \cup Below(req.ino)
  BY DEF RequestRemoves, RenameRemoves, RenameClears, Removes
<1>3. /\ strayed \subseteq strayed' /\ replaced' \subseteq replaced \cup Bearer(k)
      /\ at = "remove" => Lost(k) \subseteq strayed' \cup {req.ino}
      /\ at = "clear" => Lost(k) \subseteq strayed' \cup {req.old}
      /\ at = "cut" => Lost(k) \subseteq strayed'
  BY <1>1, <1>2 DEF Removes
<1>4. Bearer(k) \subseteq Lost(k)
  BY LostIs
<1>5. Parted'
  <2>1. at' # "link" /\ (at' \in Moving => at \in Moving /\ req' = req)
    BY <1>1 DEF Moving, Taken
  <2>2. QED
    BY <1>2, <2>1, PartedCut DEF Straight
<1>6. Owed'
  <2>1. replaced' \subseteq strayed'
    <3>1. \A i : Removes(k, i) => Bearer(k) \ {i} \subseteq strayed'
      BY <1>4 DEF Removes
    <3>2. \A i : Removes(k, i) => replaced' = replaced \cup (Bearer(k) \ {i})
      BY DEF Removes
    <3>3. at = "cut" => Bearer(k) \subseteq strayed'
      BY <1>3, <1>4
    <3>4. QED
      BY <1>1, <1>2, <1>3, <3>1, <3>2, <3>3 DEF Straight, Owed
  <2>2. \A i : Removes(k, i) /\ Named(dentry', i) # {} => i \in strayed'
    BY <1>2 DEF Removes, Named, Entries, Without
  <2>3. at = "cut" => req.ino \in strayed'
    <3>1. at = "cut" => req.ino \in DOMAIN inode
      BY DEF RequestOK
    <3>2. QED
      BY <1>1, <1>2, <3>1, LiveBelow
  <2>4. at = "clear" => req.ino \in strayed'
    BY <1>3 DEF Straight, Owed, Taken
  <2>5. QED
    BY <1>1, <1>2, <2>1, <2>2, <2>3, <2>4 DEF Owed, Taken
<1>7. KindsKept /\ DOMAIN inode \subseteq DOMAIN inode' /\ ClaimsKept
  BY <1>1 DEF KindsKept, ClaimsKept, Claims
<1>8. \A x : Astray(x) \/ x \in Lost(k) => Astray(x)'
  BY <1>1, <1>3 DEF Astray
<1>9. QED
  BY <1>2, <1>5, <1>6, <1>7, <1>8, MovedStraight

(* An inode that loses its last name loses its path with it: one that     *)
(* keeps a link has strayed, for the ledger is balanced.                   *)
LEMMA DropsStraight ==
  ASSUME Tabled, RequestOK, PullOK, Balanced, Straight, RequestDrops \/ RenameDrops
  PROVE  Straight'
<1>1. PICK j, h :
        /\ Drops(j) /\ UNCHANGED <<dentry, replaced, stage, pull>>
        /\ \/ at = "drop" /\ at' = "idle" /\ j = req.ino /\ h = HandKey
           \/ /\ at = "lower" /\ at' = "source" /\ j = req.old /\ h = OldKey
              /\ req' = [req EXCEPT !.old = NoIno]
  BY DEF RequestDrops, RenameDrops, Done, Knows, puller
<1>2. /\ j \in DOMAIN inode /\ DOMAIN req = Fields
      /\ at = "lower" => req.ino # req.old
  BY <1>1 DEF RequestOK
<1>3. OneFewer(inode, j, inode')
  BY <1>1, NodesTyped, DroppedIs DEF Drops
<1>4. /\ strayed' = strayed \cup ({j} \cap {pull.ino})
      /\ remote' = IF inode[j].nlink > 1 THEN remote ELSE Without(remote, {j})
  BY <1>1, <1>2 DEF Drops, Forgotten, Live
<1>5. KindsKept /\ ClaimsKept
  <2>1. at' # "record"
    BY <1>1
  <2>2. ClaimsKept
    BY <1>1, <1>4, <2>1 DEF ClaimsKept, Claims, Without
  <2>3. QED
    BY <1>3, <2>2 DEF KindsKept, OneFewer
<1>6. Parted'
  <2>1. at' # "link"
    BY <1>1
  <2>2. at' \in Moving => at \in Moving /\ req'.ino = req.ino /\ req'.to = req.to
    BY <1>1, <1>2 DEF Moving, Taken, Fields
  <2>3. QED
    BY <1>1, <2>1, <2>2, PartedStill DEF Straight
<1>7. Owed'
  <2>1. at' \in Taken => at \in Taken /\ req'.ino = req.ino
    BY <1>1, <1>2 DEF Taken, Fields
  <2>2. QED
    BY <1>1, <1>4, <2>1 DEF Straight, Owed
<1>8. NoDirs'
  BY <1>5, NoDirsKept DEF Straight
<1>9. ASSUME NEW p, Claims(j, p)' PROVE j \in strayed'
  <2> SUFFICES ASSUME j \notin strayed' PROVE FALSE
    OBVIOUS
  <2>1. j \in DOMAIN remote /\ remote[j] = p /\ inode[j].nlink > 1
    BY <1>1, <1>4, <1>9 DEF Claims, Without
  <2>2. inode[j].kind # "dir"
    BY <1>2, <2>1 DEF Straight, NoDirs, Claims
  <2>3. j \notin replaced /\ Named(dentry, j) = {}
    BY <1>1, <1>4 DEF Straight, Owed
  <2>4. inode[j].nlink = Cardinality(Named(Ledger(dentry, at, req), j))
    BY <1>2, <2>2, <2>3 DEF Balanced, Sound, Counted
  <2>5. Named(Ledger(dentry, at, req), j) = {h}
    <3>1. ~ Uncounted(dentry, at, req)
      BY <1>1 DEF Uncounted
    <3>2. HandKey \notin DOMAIN dentry /\ OldKey \notin DOMAIN dentry /\ HandKey # OldKey
      BY HandKeys DEF Tabled
    <3>3. \A k \in DOMAIN dentry : dentry[k] # j
      BY <2>3 DEF Named
    <3>4. /\ InoHeld(dentry, at, req)
          /\ OldHeld(dentry, at, req) <=> at = "lower"
      BY <1>1 DEF InoHeld, OldHeld, Taken
    <3>5. \A k : k \in Named(Ledger(dentry, at, req), j) <=>
                   k \in DOMAIN Ledger(dentry, at, req) /\ Ledger(dentry, at, req)[k] = j
      BY DEF Named
    <3>6. \A k : k \in Named(Ledger(dentry, at, req), j) <=> k = h
      BY <1>1, <1>2, <3>1, <3>2, <3>3, <3>4, <3>5, LedgerIs
    <3>7. QED
      BY <3>6
  <2>6. Cardinality({h}) = 1
    BY FS_Singleton
  <2>7. QED
    BY <2>1, <2>4, <2>5, <2>6
<1>10. \A i : i # j => (Astray(i) => Astray(i)')
  BY <1>1, <1>4 DEF Astray
<1>11. KeptBeyond({})
  BY <1>1 DEF KeptBeyond, Shut
<1>12. \A i, p : Claims(i, p)' /\ ~ Astray(i)' =>
         /\ Claims(i, p) /\ ~ Astray(i) /\ i \notin {}
         /\ i \in DOMAIN inode => i \in DOMAIN inode'
  <2>1. \A i : i \in strayed' => Astray(i)'
    BY DEF Astray
  <2>2. \A i : i # j /\ i \in DOMAIN inode => i \in DOMAIN inode'
    BY <1>3 DEF OneFewer
  <2>3. QED
    BY <1>5, <1>9, <1>10, <2>1, <2>2 DEF ClaimsKept
<1>13. Agreed'
  BY <1>11, <1>12, AgreedKept DEF Straight
<1>14. QED
  BY <1>6, <1>7, <1>8, <1>13 DEF Straight

LEMMA ProceedStraight ==
  ASSUME Tabled, RequestOK, PullOK, Balanced, Straight, Proceed
  PROVE  Straight'
BY QuietStraight, EntersStraight, TakesStraight, DropsStraight DEF Proceed
-----------------------------------------------------------------------------
(* The pull makes a directory, or a file, where its path leads by now.     *)
LEMMA MadeOwed ==
  ASSUME Tabled, RequestOK, Owed, NEW c, dentry' = With(dentry, c, nextIno),
         replaced' = replaced \cup Bearer(c), strayed \cup Lost(c) \subseteq strayed',
         UNCHANGED <<at, req>>
  PROVE  Owed'
<1>1. Bearer(c) \subseteq Lost(c)
  BY LostIs
<1>2. ASSUME NEW i \in DOMAIN inode, Named(dentry, i) = {} PROVE Named(dentry', i) = {}
  <2>1. i # nextIno
    BY NodesTyped
  <2>2. QED
    BY <1>2, <2>1 DEF Named, With
<1>3. at = "drop" => req.ino \in DOMAIN inode
  BY DEF RequestOK
<1>4. at = "lower" => req.old \in DOMAIN inode
  BY DEF RequestOK
<1>5. QED
  BY <1>1, <1>2, <1>3, <1>4 DEF Owed

LEMMA PullMakesStraight ==
  ASSUME Tabled, RequestOK, PullOK, Straight, PullMakesDir
  PROVE  Straight'
<1> DEFINE c == Component
<1>1. /\ Makes(c, "dir") /\ strayed' = strayed \cup Lost(c) /\ stage = "mkdir"
      /\ stage' = "ensure" /\ UNCHANGED <<remote, at, req>>
  BY DEF PullMakesDir, session
<1>2. c \in Keys(nextIno)
  BY <1>1, ComponentIs
<1> HIDE DEF c
<1>3. dentry' = With(dentry, c, nextIno) /\ replaced' = replaced \cup Bearer(c)
  BY <1>1 DEF Makes, Inserts
<1>4. Parted' /\ Owed'
  BY <1>1, <1>2, <1>3, PartedMade, MadeOwed DEF Straight
<1>5. KindsKept /\ DOMAIN inode \subseteq DOMAIN inode'
  BY <1>1 DEF Makes, With, KindsKept
<1>6. ClaimsKept
  BY <1>1 DEF ClaimsKept, Claims
<1>7. \A x : Astray(x) \/ x \in Lost(c) => Astray(x)'
  BY <1>1 DEF Astray
<1>8. QED
  BY <1>3, <1>4, <1>5, <1>6, <1>7, MovedStraight

(* A pulled document gets the name that its path ends with, in the         *)
(* directory the rest of the path led to: it is said to stray if the rest  *)
(* leads elsewhere by now.                                                 *)
LEMMA PulledAgrees ==
  ASSUME Tabled, NoLoop(dentry), NEW p, IsPath(p), NEW d \in 1..MaxIno,
         NEW k, k = <<d, p[Len(p)]>>, SubSeq(p, 1, Len(p) - 1) \in Ways(d)
  PROVE  AgreedAt(With(dentry, k, nextIno), nextIno, p)
<1> DEFINE m == Len(p)
           n == p[m]
           v == SubSeq(p, 1, m - 1)
           new == With(dentry, k, nextIno)
           B == IF k \in DOMAIN dentry THEN Below(dentry[k]) ELSE {}
<1>1. Tabled /\ NoLoop(dentry)
  OBVIOUS
<1>2. p \in Seq(AllNames) /\ m \in Nat /\ m >= 2 /\ p[1] = Private /\ n \in AllNames
  <2>1. p \in Seq(AllNames) /\ Len(p) >= 2 /\ p[1] = Private
    BY DEF IsPath, AllNames
  <2>2. Len(p) \in Nat /\ Len(p) \in 1..Len(p)
    BY <2>1
  <2>3. QED
    BY <2>1, <2>2
<1>3. Leads(dentry, v, d)
  BY <1>1, WaysLead
<1>4. Shut(dentry, B) /\ d \notin B
  <2>1. CASE k \in DOMAIN dentry
    <3>1. k[1] \notin Below(dentry[k]) /\ Shut(dentry, Below(dentry[k]))
      BY <1>1, <2>1, NotBelow, EntryBelow
    <3>2. QED
      BY <2>1, <3>1
  <2>2. CASE k \notin DOMAIN dentry
    BY <2>2 DEF Shut
  <2>3. QED
    BY <2>1, <2>2
<1>5. /\ k \in DOMAIN new /\ new[k] = nextIno
      /\ \A e \in DOMAIN dentry : e # k => e \in DOMAIN new /\ new[e] = dentry[e]
  BY DEF With
<1>6. \A e \in DOMAIN dentry :
        dentry[e] \in B \/ (e \in DOMAIN new /\ new[e] = dentry[e])
  <2>1. k \in DOMAIN dentry => dentry[k] \in B
    BY <1>1, EntryBelow
  <2>2. QED
    BY <2>1, <1>5
<1> HIDE DEF B, new, v, m, n
<1>7. Leads(new, v, d)
  BY <1>3, <1>4, <1>6, TrailKept
<1>8. Leads(new, Append(v, n), new[<<d, n>>])
  <2>1. k = <<d, n>>
    BY DEF n, m
  <2>2. QED
    BY <2>1, <1>2, <1>5, <1>7, LeadsOn
<1>9. Append(v, n) = p /\ Len(v) = m - 1
  <2>1. /\ v \in Seq(AllNames) /\ Len(v) = m - 1
        /\ \A c \in 1..(m - 1) : v[c] = p[c]
    <3>1. \A c \in 1..(m - 1) : p[c] \in AllNames
      BY <1>2 DEF m
    <3>2. 1 \in Int /\ m - 1 \in Int /\ 1 <= m - 1
      BY <1>2
    <3>3. /\ v \in Seq(AllNames)
          /\ Len(v) = IF 1 <= m - 1 THEN (m - 1) - 1 + 1 ELSE 0
          /\ \A c \in 1..((m - 1) - 1 + 1) : v[c] = p[1 + c - 1]
      BY <3>1, <3>2, SubSeqProperties DEF v
    <3>4. QED
      BY <3>2, <3>3
  <2>2. /\ Append(v, n) \in Seq(AllNames) /\ Len(Append(v, n)) = (m - 1) + 1
        /\ \A c \in 1..(m - 1) : Append(v, n)[c] = v[c]
        /\ Append(v, n)[(m - 1) + 1] = n
    BY <1>2, <2>1, AppendProperties
  <2>3. (m - 1) + 1 = m /\ Len(p) = m /\ p[m] = n
    BY <1>2 DEF m, n
  <2>4. \A c \in 1..m : p[c] = Append(v, n)[c]
    BY <1>2, <2>1, <2>2, <2>3
  <2>5. QED
    BY <1>2, <2>1, <2>2, <2>3, <2>4, SeqEqual
<1>10. Leads(new, p, nextIno)
  <2>1. k = <<d, n>>
    BY DEF n, m
  <2>2. QED
    BY <2>1, <1>5, <1>8, <1>9
<1>11. m <= MaxIno
  <2>1. Len(v) + 2 <= nextIno
    BY <1>1, <1>3, TrailShort
  <2>2. nextIno \in Nat /\ nextIno <= MaxIno + 1 /\ MaxIno \in Nat
    BY <1>1, NamespaceAssumption DEF Tabled, Typed
  <2>3. QED
    BY <1>2, <1>9, <2>1, <2>2
<1>12. Head(p) = Private
  BY <1>2
<1>13. AgreedAt(new, nextIno, p)
  BY <1>10, <1>11, <1>12 DEF AgreedAt, m
<1>14. QED
  BY <1>13 DEF new

LEMMA PullInsertsStraight ==
  ASSUME Tabled, RequestOK, PullOK, Straight, PullInserts
  PROVE  Straight'
<1> DEFINE c == Component
           p == pull.path
           d == pull.dir
<1>1. /\ Makes(c, "file") /\ stage = "insert" /\ stage' = "record"
      /\ strayed' = strayed \cup Lost(c)
           \cup {x \in {nextIno} : SubSeq(p, 1, Len(p) - 1) \notin Ways(d)}
      /\ pull' = [pull EXCEPT !.ino = nextIno] /\ UNCHANGED <<remote, at, req>>
  BY DEF PullInserts, session
<1>2. /\ c \in Keys(nextIno) /\ c = <<d, p[Len(p)]>> /\ IsPath(p)
      /\ d \in 1..(nextIno - 1) /\ pull'.ino = nextIno /\ pull'.path = p
  BY <1>1, ComponentIs DEF PullOK, AtName, Component
<1> HIDE DEF c, p, d
<1>3. dentry' = With(dentry, c, nextIno) /\ replaced' = replaced \cup Bearer(c)
  BY <1>1 DEF Makes, Inserts
<1>4. strayed \cup Lost(c) \subseteq strayed'
  BY <1>1
<1>5. Parted' /\ Owed'
  BY <1>1, <1>2, <1>3, <1>4, PartedMade, MadeOwed DEF Straight
<1>6. /\ inode' = With(inode, nextIno, [kind |-> "file", nlink |-> 1])
      /\ nextIno \notin DOMAIN inode
  BY <1>1, NodesTyped DEF Makes
<1>7. /\ DOMAIN inode' = DOMAIN inode \cup {nextIno} /\ inode'[nextIno].kind = "file"
      /\ \A x \in DOMAIN inode : x # nextIno /\ inode'[x] = inode[x]
  BY <1>6 DEF With
<1>8. \A x, q : Claims(x, q)' => Claims(x, q) \/ (x = nextIno /\ q = p)
  BY <1>1, <1>2 DEF Claims
<1>9. NoDirs'
  <2>1. ASSUME NEW x, NEW q, Claims(x, q)', x \in DOMAIN inode'
        PROVE  inode'[x].kind # "dir"
    <3>1. CASE Claims(x, q) /\ x # nextIno
      BY <3>1, <2>1, <1>7 DEF Straight, NoDirs
    <3>2. CASE x = nextIno
      BY <3>2, <1>7
    <3>3. QED
      BY <3>1, <3>2, <2>1, <1>8
  <2>2. QED
    BY <2>1 DEF NoDirs
<1>10. KeptBeyond(Lost(c))
  BY <1>3, BeyondLost
<1>11. Agreed'
  <2>1. ASSUME NEW x, NEW q, Claims(x, q)', ~ Astray(x)'
        PROVE  x \in DOMAIN inode' /\ AgreedAt(dentry', x, q)
    <3>1. x \notin strayed'
      BY <2>1 DEF Astray
    <3>2. CASE Claims(x, q)
      <4>1. ~ Astray(x) /\ x \notin Lost(c)
        BY <2>1, <3>1, <1>1, <1>4 DEF Astray
      <4>2. x \in DOMAIN inode /\ AgreedAt(dentry, x, q)
        BY <3>2, <4>1 DEF Straight, Agreed
      <4>3. AgreedAt(dentry', x, q)
        BY <1>10, <4>1, <4>2, AgreedAtKept DEF KeptBeyond
      <4>4. QED
        BY <1>7, <4>2, <4>3
    <3>3. CASE x = nextIno /\ q = p
      <4>1. SubSeq(p, 1, Len(p) - 1) \in Ways(d)
        BY <1>1, <3>1, <3>3
      <4>2. d \in 1..MaxIno
        <5>1. nextIno \in Nat /\ nextIno <= MaxIno + 1
          BY DEF Tabled, Typed
        <5>2. QED
          BY <1>2, <5>1, NamespaceAssumption
      <4>3. AgreedAt(With(dentry, c, nextIno), nextIno, p)
        BY <1>2, <4>1, <4>2, PulledAgrees DEF Straight, Parted
      <4>4. QED
        BY <1>3, <1>7, <3>3, <4>3
    <3>4. QED
      BY <1>8, <2>1, <3>2, <3>3
  <2>2. QED
    BY <2>1 DEF Agreed
<1>12. QED
  BY <1>5, <1>9, <1>11 DEF Straight

LEMMA PullingStraight ==
  ASSUME Tabled, RequestOK, PullOK, Straight, Pulling
  PROVE  Straight'
<1>1. CASE PullMakesDir \/ PullInserts
  BY <1>1, PullMakesStraight, PullInsertsStraight
<1>2. CASE ~ (PullMakesDir \/ PullInserts)
  <2>1. UNCHANGED <<inode, dentry, replaced, at, req>>
    BY <1>2 DEF Pulling, PullBegins, PullEnsures, PullEnsured, PullResolves, PullLooks,
       PullRecords, tree, session, history
  <2>2. strayed \subseteq strayed' /\ stage' # "record"
    BY <1>2 DEF Pulling, PullBegins, PullEnsures, PullEnsured, PullResolves, PullLooks,
       PullRecords, history
  <2>3. ClaimsKept
    <3>1. CASE PullRecords
      <4>1. remote' = With(remote, pull.ino, pull.path) /\ stage = "record"
        BY <3>1 DEF PullRecords
      <4>2. QED
        BY <2>1, <2>2, <4>1 DEF ClaimsKept, Claims, With
    <3>2. CASE ~ PullRecords
      <4>1. remote' = remote
        BY <1>2, <3>2 DEF Pulling, PullBegins, PullEnsures, PullEnsured, PullResolves,
           PullLooks
      <4>2. QED
        BY <2>1, <2>2, <4>1 DEF ClaimsKept, Claims
    <3>3. QED
      BY <3>1, <3>2
  <2>4. Parted' /\ KindsKept
    BY <2>1 DEF Straight, Parted, KindsKept
  <2>5. QED
    BY <2>1, <2>2, <2>3, <2>4, StraightQuiet
<1>3. QED
  BY <1>1, <1>2

LEMMA PushingStraight ==
  ASSUME Tabled, RequestOK, PullOK, Straight, Pushing
  PROVE  Straight'
<1>1. UNCHANGED <<inode, dentry, replaced, strayed, at, req, stage, pull>>
  BY DEF Pushing, PushClaim, PushExecutes, PushFinalizes, PushFinds, PushForgets, tree,
     session, puller, history
<1>2. remote' = remote \/ remote' = Without(remote, {job.ino})
  BY DEF Pushing, PushClaim, PushExecutes, PushFinalizes, PushFinds, PushForgets
<1>3. ClaimsKept /\ KindsKept /\ Parted'
  BY <1>1, <1>2 DEF ClaimsKept, Claims, KindsKept, Without, Straight, Parted
<1>4. QED
  BY <1>1, <1>3, StraightQuiet
-----------------------------------------------------------------------------
(* The inductive invariant: the tables are typed whatever a lookup         *)
(* answers, and the rest holds until one is answered wrong.                *)
Right == /\ Balanced /\ RequestOK /\ PullOK
         /\ Mapped /\ Spared /\ Straight
IInv == Tabled /\ (misled \/ Right)

LEMMA InitTables ==
  ASSUME Init
  PROVE  /\ Tabled /\ Balanced
         /\ DOMAIN dentry = {Door} /\ dentry[Door] = Notes
<1> DEFINE new == [kind |-> "dir", nlink |-> 2]
<1>1. /\ DOMAIN inode = {Root, Notes} /\ \A i \in {Root, Notes} : inode[i] = new
      /\ nextIno = 3 /\ misled = FALSE /\ at = "idle"
  BY DEF Init, Notes
<1>2. /\ DOMAIN dentry = {Door} /\ dentry[Door] = Notes
  <2>1. dentry = With(<<>>, Door, Notes) /\ DOMAIN <<>> = {}
    BY DEF Init, Door
  <2>2. QED
    BY <2>1 DEF With
<1>3. DOMAIN cache = {} /\ DOMAIN remote = {}
  BY DEF Init
<1>4. Notes \in 2..2 /\ Root # Notes
  BY DEF Root, Notes
<1>5. Typed(inode, nextIno, dentry, cache)
  <2>1. nextIno \in Nat /\ nextIno > Notes /\ nextIno - 1 = 2
    BY <1>1 DEF Notes
  <2>2. DOMAIN inode \subseteq 1..(nextIno - 1) /\ Root \in DOMAIN inode
    BY <1>1, <2>1 DEF Root, Notes
  <2>3. \A i \in DOMAIN inode : /\ inode[i] \in [kind: Kinds, nlink: Nat \ {0}]
                                /\ inode[i].nlink <= Most(inode[i].kind)
    BY <1>1 DEF Kinds, Most
  <2>4. /\ DOMAIN dentry \subseteq Keys(nextIno) \cup {Door}
        /\ \A k \in DOMAIN dentry : dentry[k] \in 2..(nextIno - 1)
    BY <1>2, <1>4, <2>1
  <2>5. QED
    BY <1>3, <2>1, <2>2, <2>3, <2>4 DEF Typed
<1>6. Sound(inode, dentry, replaced)
  <2>1. IsFiniteSet(DOMAIN dentry)
    BY <1>2, FS_Singleton
  <2>2. Named(dentry, Notes) = {Door}
    BY <1>2 DEF Named
  <2>3. QED
    BY <1>1, <1>2, <1>4, <2>1, <2>2 DEF Sound
<1>7. Tabled
  <2>1. nextIno <= MaxIno + 1
    <3>1. MaxIno \in Nat /\ MaxIno >= 2
      BY NamespaceAssumption DEF Notes
    <3>2. QED
      BY <1>1, <3>1
  <2>2. misled \in BOOLEAN
    BY <1>1, Zenon
  <2>3. QED
    BY <1>3, <1>5, <2>1, <2>2 DEF Tabled
<1>8. Balanced
  <2>1. NoneHeld(dentry, at, req)
    BY <1>1 DEF NoneHeld, InoHeld, OldHeld, Uncounted, Taken, Keyed
  <2>2. QED
    BY <1>5, <1>6, <2>1, LedgerNone DEF Balanced
<1>9. QED
  BY <1>2, <1>7, <1>8

LEMMA InitInv == Init => IInv
<1> SUFFICES ASSUME Init PROVE IInv
  OBVIOUS
<1>1. /\ Tabled /\ Balanced
      /\ DOMAIN dentry = {Door} /\ dentry[Door] = Notes
  BY InitTables
<1>2. /\ at = "idle" /\ req = NoReq /\ stage = "idle" /\ pull = NoPull /\ step = "idle"
      /\ replaced = {} /\ DOMAIN remote = {} /\ DOMAIN rows = {}
      /\ \A p \in brain : IsPath(p)
  BY NamespaceAssumption DEF Init
<1>3. RequestOK
  BY <1>2 DEF RequestOK, NoReq, Fields, Stages, Keyed, Taken, Moving, Writing
<1>4. PullOK
  BY <1>2 DEF PullOK, NoPull
<1>5. Mapped /\ Spared
  BY <1>2 DEF Mapped, RemotePaths, RowsOK, PushOK, SharedRight, Spared
<1>6. NoLoop(dentry)
  <2> SUFFICES ASSUME NEW S, \A x \in S : \E k \in Named(dentry, x) : k[1] \in S
               PROVE  S = {}
    BY DEF NoLoop
  <2>1. Door[1] = Root /\ Root # Notes
    BY DEF Door, Root, Notes
  <2>2. \A x \in S : Root \in S /\ x = Notes
    BY <1>1, <2>1 DEF Named
  <2>3. QED
    BY <2>1, <2>2
<1>7. Straight
  BY <1>2, <1>6 DEF Straight, Parted, Owed, NoDirs, Agreed, Claims, Moving, Taken
<1>8. QED
  BY <1>1, <1>3, <1>4, <1>5, <1>7 DEF IInv, Right

LEMMA StutterInv ==
  ASSUME IInv, UNCHANGED vars
  PROVE  IInv'
<1>1. UNCHANGED <<inode, nextIno, dentry, cache, remote, rows, brain, at, req, stage, pull,
                  step, job, misled, strayed, replaced, shared>>
  BY DEF vars, tree, session, puller, pusher, history
<1>2. Tabled' <=> Tabled
  BY <1>1 DEF Tabled
<1>3. Balanced => Balanced'
  BY <1>1 DEF Balanced
<1>4. RequestOK => RequestOK'
  BY <1>1 DEF RequestOK
<1>5. PullOK => PullOK'
  BY <1>1 DEF PullOK, AtName
<1>6. Mapped => Mapped'
  BY <1>1 DEF Mapped, RemotePaths, PushOK, SharedRight
<1>7. Spared => Spared'
  BY <1>1 DEF Spared
<1>8. Straight => Straight'
  <2>1. Parted => Parted'
    BY <1>1 DEF Parted
  <2>2. Owed => Owed'
    BY <1>1 DEF Owed
  <2>3. NoDirs => NoDirs'
    BY <1>1 DEF NoDirs, Claims
  <2>4. Agreed => Agreed'
    BY <1>1 DEF Agreed, Claims, Astray
  <2>5. QED
    BY <2>1, <2>2, <2>3, <2>4 DEF Straight
<1>9. QED
  BY <1>1, <1>2, <1>3, <1>4, <1>5, <1>6, <1>7, <1>8 DEF IInv, Right

LEMMA NextInv == IInv /\ [Next]_vars => IInv'
<1> SUFFICES ASSUME IInv, [Next]_vars PROVE IInv'
  OBVIOUS
<1>1. CASE UNCHANGED vars
  BY <1>1, StutterInv
<1>2. CASE Next
  <2>1. /\ ~ misled /\ SharedStep
        /\ Request \/ Proceed \/ Pulling \/ Pushing
    BY <1>2 DEF Next, SharedStep
  <2>2. /\ Tabled /\ Balanced /\ RequestOK /\ PullOK /\ Mapped /\ Spared /\ Straight
        /\ RemotePaths /\ \A p \in brain : IsPath(p)
    BY <2>1 DEF IInv, Right, Mapped
  <2>3. Tabled'
    BY <2>1, <2>2, RequestTabled, ProceedTabled, PullingTabled, PushingTabled
  <2>4. ASSUME ~ misled' PROVE Right'
    <3>1. CASE Request
      BY <2>1, <2>2, <2>4, <3>1, RequestBegins, RequestMapped, RequestStraight DEF Right
    <3>2. CASE Proceed
      BY <2>1, <2>2, <2>4, <3>2, ProceedBalanced, ProceedMapped, ProceedStraight DEF Right
    <3>3. CASE Pulling
      BY <2>1, <2>2, <3>3, PullingBalanced, PullingMapped, PullingStraight DEF Right
    <3>4. CASE Pushing
      BY <2>1, <2>2, <3>4, PushingBalanced, PushMapped, PushingStraight DEF Right
    <3>5. QED
      BY <2>1, <3>1, <3>2, <3>3, <3>4
  <2>5. QED
    BY <2>3, <2>4 DEF IInv
<1>3. QED
  BY <1>1, <1>2

LEMMA SpecInv == Spec => []IInv
BY InitInv, NextInv, PTL DEF Spec
-----------------------------------------------------------------------------
(* The tables keep their types for any number of inodes, and no inode row  *)
(* outlives its last link (decr_nlink_and_maybe_remove), whatever the LRU  *)
(* answers.                                                                *)
THEOREM TypeCorrect == Spec => []TypeOK
<1>1. IInv => TypeOK
  <2> SUFFICES ASSUME Tabled PROVE TypeOK
    BY DEF IInv
  <2>1. /\ nextIno \in Nat /\ nextIno > Notes /\ nextIno <= MaxIno + 1
        /\ DOMAIN inode \subseteq 1..(nextIno - 1) /\ Root \in DOMAIN inode
        /\ \A i \in DOMAIN inode : /\ inode[i] \in [kind: Kinds, nlink: Nat \ {0}]
                                   /\ inode[i].nlink <= Most(inode[i].kind)
        /\ \A k \in DOMAIN cache : cache[k] \in 2..(nextIno - 1)
        /\ DOMAIN remote \subseteq 2..(nextIno - 1)
        /\ misled \in BOOLEAN
    BY DEF Tabled, Typed
  <2>2. nextIno \in 2..(MaxIno + 1)
    BY <2>1, NamespaceAssumption DEF Notes
  <2>3. ASSUME NEW i \in Live
        PROVE  /\ inode[i].kind \in {"dir", "file", "symlink"}
               /\ inode[i].nlink \in 1..(IF i \in Dirs THEN 2 ELSE MaxLinks)
    <3>1. /\ inode[i].kind \in Kinds /\ inode[i].nlink \in Nat \ {0}
          /\ inode[i].nlink <= Most(inode[i].kind)
      BY <2>1 DEF Live
    <3>2. i \in Dirs <=> inode[i].kind = "dir"
      BY DEF Dirs
    <3>3. QED
      BY <3>1, <3>2, NamespaceAssumption DEF Kinds, Most
  <2>4. \A k \in DOMAIN dentry : k \in (1..MaxIno) \X (Names \cup {Private})
    BY EntryInos DEF AllNames
  <2>5. QED
    BY <2>1, <2>2, <2>3, <2>4 DEF TypeOK, Live
<1>2. QED
  BY SpecInv, <1>1, PTL

(* Until a lookup is answered against fs_dentry, every directory entry     *)
(* leads to an inode, and the count of a file that no request has in hand  *)
(* is the number of its names: unlink, rmdir, link and a rename over a     *)
(* name, each in its several statements, never free an inode that still    *)
(* has one, although pulls insert entries between them.  A file that lost  *)
(* its name to such an insert has a link too many.                         *)
THEOREM LinksRight == Spec => []LinksCounted
<1>1. IInv => LinksCounted
  <2> SUFFICES ASSUME Tabled, Right PROVE LinksCounted
    BY DEF IInv, LinksCounted
  <2>1. \A k \in DOMAIN dentry : dentry[k] \in Live
    BY BalancedIs DEF Right, Live
  <2>2. ASSUME NEW i \in Live \ (Dirs \cup {req.ino, req.old})
        PROVE  IF i \in replaced THEN inode[i].nlink >= Cardinality(Entries(i))
               ELSE inode[i].nlink = Cardinality(Entries(i))
    <3>1. Entries(i) = Named(Ledger(dentry, at, req), i)
      <4> DEFINE ledger == Ledger(dentry, at, req)
      <4>1. i # req.ino /\ i # req.old
        BY <2>2
      <4>2. HandKey \notin DOMAIN dentry /\ OldKey \notin DOMAIN dentry
        BY HandKeys DEF Tabled
      <4>3. ASSUME NEW k \in DOMAIN dentry, dentry[k] = i
            PROVE  k \in DOMAIN ledger /\ ledger[k] = i
        BY <4>1, <4>2, <4>3 DEF Ledger, Uncounted, LeadsTo
      <4>4. ASSUME NEW k \in DOMAIN ledger, ledger[k] = i
            PROVE  k \in DOMAIN dentry /\ dentry[k] = i
        BY <4>1, <4>2, <4>4 DEF Ledger
      <4>5. QED
        BY <4>3, <4>4 DEF Entries, Named
    <3>2. Counted(inode, Ledger(dentry, at, req), replaced, i)
      BY <2>2 DEF Right, Balanced, Sound, Live, Dirs
    <3>3. QED
      BY <3>1, <3>2 DEF Counted
  <2>3. QED
    BY <2>1, <2>2 DEF LinksCounted
<1>2. QED
  BY SpecInv, <1>1, PTL

(* push_queue_upsert keeps the order of operations on a path, so a Delete  *)
(* that waits is never for a path a file has again, while pulls and the    *)
(* push worker take turns with the statements of unlink and flush: the     *)
(* flush of that file replaces it.  It may be for a path that two inodes   *)
(* have had at once, or that an inode has which strayed.                   *)
THEOREM DeletesSpare == Spec => []DeleteSpares
<1>1. IInv => DeleteSpares
  <2> SUFFICES ASSUME Spared, NEW p \in DOMAIN rows \ shared,
                      rows[p].op.kind = "delete", rows[p].pending = NoEntry,
                      NEW i \in DOMAIN remote \ (strayed \cup {req.ino}), remote[i] = p
               PROVE  FALSE
    BY DEF IInv, Right, DeleteSpares
  <2>1. Latest(rows[p]).kind = "delete"
    BY DEF Latest
  <2>2. Bears(remote, strayed, i, p)
    BY DEF Bears
  <2>3. QED
    BY <2>1, <2>2 DEF Spared
<1>2. QED
  BY SpecInv, <1>1, PTL

(* Until a lookup is answered against fs_dentry, fs_remote has a path for  *)
(* an inode only while that exists, and it is the one build_path_for_ino   *)
(* gives: a flush pushes to the path the user sees, unless the inode was   *)
(* renamed or linked, what is above it was lost to an insert, or a pull    *)
(* brought it back while its name moved or was being unlinked.             *)
THEOREM PathsRight == Spec => []PathsAgree
<1>1. IInv => PathsAgree
  <2> SUFFICES ASSUME Tabled, Straight,
                      NEW i \in DOMAIN remote \ (strayed \cup {req.ino, req.old})
               PROVE  i \in Live /\ remote[i] \in BuildPaths(i)
    BY DEF IInv, Right, PathsAgree
  <2>1. Claims(i, remote[i]) /\ ~ Astray(i)
    BY DEF Claims, Astray
  <2>2. i \in DOMAIN inode /\ AgreedAt(dentry, i, remote[i])
    BY <2>1 DEF Straight, Agreed
  <2>3. PICK w : /\ Leads(dentry, w, i) /\ Len(w) <= MaxIno
                 /\ remote[i] = IF Head(w) = Private THEN w ELSE <<Private>> \o w
    BY <2>2 DEF AgreedAt
  <2>4. w \in Ways(i)
    BY <2>2, <2>3, LiveBelow, WaysLead
  <2>5. QED
    BY <2>2, <2>3, <2>4 DEF BuildPaths, Live
<1>2. QED
  BY SpecInv, <1>1, PTL
=============================================================================
