---------------------------- MODULE AdapterProofs ----------------------------
(***************************************************************************)
(* Proofs about Adapter, for any number of files, handles, names and       *)
(* entries, and replies of any length.  A listing is understood by the     *)
(* places of the names in the directory: one that comes or goes moves      *)
(* those behind it by one, so what the cursor passes over, or meets a      *)
(* second time, is counted by the changes.                                 *)
(***************************************************************************)
EXTENDS Adapter, FiniteSetTheorems, SequenceTheorems, TLAPS

(* What is counted has as many members as what it is counted by.           *)
LEMMA ImageCount ==
  ASSUME NEW S, IsFiniteSet(S), NEW f,
         \A x, y \in S : f[x] = f[y] => x = y
  PROVE  /\ IsFiniteSet({f[x] : x \in S})
         /\ Cardinality({f[x] : x \in S}) = Cardinality(S)
<1>. DEFINE T == {f[x] : x \in S}
            g == [x \in S |-> f[x]]
<1>1. g \in Bijection(S, T)
  BY DEF Bijection, Injection, Surjection, IsInjective
<1>2. ExistsBijection(S, T)
  BY <1>1 DEF ExistsBijection
<1>. QED BY <1>2, FS_Bijection

-----------------------------------------------------------------------------
(* The place of n among the names D.                                       *)
UpTo(D, n) == {m \in D : m <= n}
Rank(D, n) == Cardinality(UpTo(D, n))

LEMMA RankType ==
  ASSUME NEW D, D \subseteq Nat, IsFiniteSet(D), NEW n \in Nat
  PROVE  /\ IsFiniteSet(UpTo(D, n))
         /\ Rank(D, n) \in Nat
         /\ Rank(D, n) <= Cardinality(D)
         /\ n \in D => Rank(D, n) >= 1
<1>1. UpTo(D, n) \in SUBSET D
  BY DEF UpTo
<1>2. /\ IsFiniteSet(UpTo(D, n))
      /\ Rank(D, n) <= Cardinality(D)
  BY <1>1, FS_Subset DEF Rank
<1>3. Rank(D, n) \in Nat
  BY <1>2, FS_CardinalityType DEF Rank
<1>4. n \in D => Rank(D, n) # 0
  BY <1>2, FS_EmptySet DEF Rank, UpTo
<1>. QED BY <1>2, <1>3, <1>4

(* A later name has a later place.                                         *)
LEMMA RankOrder ==
  ASSUME NEW D, D \subseteq Nat, IsFiniteSet(D), NEW n \in D, NEW m \in D
  PROVE  /\ n < m <=> Rank(D, n) < Rank(D, m)
         /\ n = m <=> Rank(D, n) = Rank(D, m)
<1>1. ASSUME NEW a \in D, NEW b \in D, a < b
      PROVE  Rank(D, a) < Rank(D, b)
  <2>1. UpTo(D, a) \in SUBSET UpTo(D, b)
    <3>1. \A x \in D : x <= a => x <= b
      <4>1. a \in Nat /\ b \in Nat /\ \A x \in D : x \in Nat
        OBVIOUS
      <4>. QED BY <1>1, <4>1
    <3>. QED BY <3>1 DEF UpTo
  <2>2. b \in UpTo(D, b) \ UpTo(D, a)
    BY <1>1 DEF UpTo
  <2>3. /\ IsFiniteSet(UpTo(D, b))
        /\ Rank(D, a) \in Nat /\ Rank(D, b) \in Nat
    BY RankType
  <2>. QED BY <2>1, <2>2, <2>3, FS_Subset DEF Rank
<1>2. Rank(D, n) \in Nat /\ Rank(D, m) \in Nat /\ n \in Nat /\ m \in Nat
  BY RankType
<1>. QED BY <1>1, <1>2

(* Every place is taken.                                                   *)
LEMMA RankOnto ==
  ASSUME NEW D, D \subseteq Nat, IsFiniteSet(D), NEW k \in 1..Cardinality(D)
  PROVE  \E n \in D : Rank(D, n) = k
<1>. DEFINE r == [n \in D |-> Rank(D, n)]
            P == {r[n] : n \in D}
<1>1. Cardinality(D) \in Nat
  BY FS_CardinalityType
<1>2. \A n \in D : r[n] \in 1..Cardinality(D)
  <2>. SUFFICES ASSUME NEW n \in D
                PROVE  Rank(D, n) \in 1..Cardinality(D)
    OBVIOUS
  <2>1. /\ Rank(D, n) \in Nat /\ Rank(D, n) <= Cardinality(D)
        /\ Rank(D, n) >= 1
    BY RankType
  <2>. QED BY <1>1, <2>1
<1>3. \A n, m \in D : r[n] = r[m] => n = m
  BY RankOrder
<1>4. Cardinality(P) = Cardinality(D)
  <2>. HIDE DEF r
  <2>. QED BY <1>3, ImageCount
<1>5. /\ IsFiniteSet(1..Cardinality(D))
      /\ Cardinality(1..Cardinality(D)) = Cardinality(D)
  BY <1>1, FS_Interval
<1>6. P = 1..Cardinality(D)
  <2>1. P \in SUBSET (1..Cardinality(D))
    BY <1>2
  <2>. QED BY <2>1, <1>4, <1>5, FS_Subset
<1>7. PICK n \in D : r[n] = k
  BY <1>6
<1>. QED BY <1>7

(* A name that comes moves those behind it by one.                         *)
LEMMA RankPut ==
  ASSUME NEW D, D \subseteq Nat, IsFiniteSet(D), NEW n \in Nat, n \notin D,
         NEW m \in Nat
  PROVE  Rank(D \cup {n}, m) = IF n <= m THEN Rank(D, m) + 1 ELSE Rank(D, m)
<1>1. UpTo(D \cup {n}, m) = IF n <= m THEN UpTo(D, m) \cup {n} ELSE UpTo(D, m)
  BY DEF UpTo
<1>2. IsFiniteSet(UpTo(D, m)) /\ n \notin UpTo(D, m)
  BY RankType DEF UpTo
<1>. QED BY <1>1, <1>2, FS_AddElement DEF Rank

(* One that goes lets them move up by one.                                 *)
LEMMA RankCut ==
  ASSUME NEW D, D \subseteq Nat, IsFiniteSet(D), NEW n \in D, NEW m \in Nat
  PROVE  \/ Rank(D, m) = Rank(D \ {n}, m)
         \/ Rank(D, m) = Rank(D \ {n}, m) + 1
<1>1. D = (D \ {n}) \cup {n} /\ D \ {n} \subseteq Nat /\ n \notin D \ {n}
  OBVIOUS
<1>2. IsFiniteSet(D \ {n})
  BY FS_RemoveElement
<1>3. \/ Rank((D \ {n}) \cup {n}, m) = Rank(D \ {n}, m)
      \/ Rank((D \ {n}) \cup {n}, m) = Rank(D \ {n}, m) + 1
  BY <1>1, <1>2, RankPut
<1>. QED BY <1>1, <1>3

-----------------------------------------------------------------------------
(* Names are numbers, and every entry has an inode of its own, which was   *)
(* handed out.                                                             *)
FolderOK ==
  /\ DOMAIN folder \subseteq 1..NameCount
  /\ nextEntry \in Nat \ {0} /\ returns \in 0..MaxReturns
  /\ folder \in [DOMAIN folder -> 1..(nextEntry - 1)]
  /\ IsInjective(folder)

LEMMA FolderFacts ==
  ASSUME FolderOK
  PROVE  /\ DOMAIN folder \subseteq Nat /\ IsFiniteSet(DOMAIN folder)
         /\ Cardinality(DOMAIN folder) \in Nat
         /\ \A n \in DOMAIN folder :
              /\ Place(n) = Rank(DOMAIN folder, n)
              /\ Place(n) \in 1..Cardinality(DOMAIN folder)
              /\ folder[n] \in Nat \ {0}
         /\ \A n, m \in DOMAIN folder :
              /\ n < m <=> Place(n) < Place(m)
              /\ n = m <=> Place(n) = Place(m)
              /\ n = m <=> folder[n] = folder[m]
<1>. USE AdapterAssumption
<1>0. NameCount \in Nat
  OBVIOUS
<1>1. IsFiniteSet(1..NameCount)
  BY <1>0, FS_Interval
<1>2. DOMAIN folder \subseteq Nat /\ IsFiniteSet(DOMAIN folder)
  BY <1>1, FS_Subset DEF FolderOK
<1>3. Cardinality(DOMAIN folder) \in Nat
  BY <1>2, FS_CardinalityType
<1>4. \A n : Place(n) = Rank(DOMAIN folder, n)
  BY DEF Place, Rank, UpTo
<1>5. ASSUME NEW n \in DOMAIN folder
      PROVE  Place(n) \in 1..Cardinality(DOMAIN folder)
  BY <1>2, <1>3, <1>4, RankType
<1>6. ASSUME NEW n \in DOMAIN folder, NEW m \in DOMAIN folder
      PROVE  /\ n < m <=> Place(n) < Place(m)
             /\ n = m <=> Place(n) = Place(m)
  BY <1>2, <1>4, RankOrder
<1>7. ASSUME NEW n \in DOMAIN folder, NEW m \in DOMAIN folder
      PROVE  /\ folder[n] \in Nat \ {0}
             /\ n = m <=> folder[n] = folder[m]
  BY DEF FolderOK, IsInjective
<1>. QED BY <1>2, <1>3, <1>4, <1>5, <1>6, <1>7

LEMMA PlacesOrdered ==
  FolderOK => \A x, m \in DOMAIN folder : Place(x) \in Nat /\ (x < m => Place(x) < Place(m))
<1>. SUFFICES ASSUME FolderOK, NEW x \in DOMAIN folder, NEW m \in DOMAIN folder
              PROVE  Place(x) \in Nat /\ (x < m => Place(x) < Place(m))
  OBVIOUS
<1>1. Place(x) \in 1..Cardinality(DOMAIN folder) /\ Cardinality(DOMAIN folder) \in Nat
  BY FolderFacts
<1>2. Place(x) \in Nat
  BY <1>1
<1>. QED BY <1>2, FolderFacts

(* The listing has every entry at its place.                               *)
LEMMA EntriesAre ==
  ASSUME FolderOK
  PROVE  /\ Entries \in Seq(Nat)
         /\ Len(Entries) = Cardinality(DOMAIN folder)
         /\ \A n \in DOMAIN folder : Entries[Place(n)] = folder[n]
         /\ \A k \in 1..Len(Entries) :
              \E n \in DOMAIN folder : Place(n) = k /\ Entries[k] = folder[n]
         /\ Range(Entries) = Range(folder)
<1>. DEFINE L == Cardinality(DOMAIN folder)
            At(k) == CHOOSE n \in DOMAIN folder : Place(n) = k
<1>1. L \in Nat
  BY FolderFacts
<1>2. \A k \in 1..L : At(k) \in DOMAIN folder /\ Place(At(k)) = k
  <2>. SUFFICES ASSUME NEW k \in 1..L
                PROVE  \E n \in DOMAIN folder : Place(n) = k
    OBVIOUS
  <2>1. \E n \in DOMAIN folder : Rank(DOMAIN folder, n) = k
    BY FolderFacts, RankOnto
  <2>. QED BY <2>1, FolderFacts
<1>3. Entries = [k \in 1..L |-> folder[At(k)]]
  BY DEF Entries
<1>. HIDE DEF At, L
<1>4. \A n \in DOMAIN folder : Place(n) \in 1..L /\ At(Place(n)) = n
  BY <1>2, FolderFacts DEF L
<1>5. \A k \in 1..L : folder[At(k)] \in Nat
  BY <1>2, FolderFacts
<1>6. /\ Entries \in Seq(Nat) /\ Len(Entries) = L
      /\ DOMAIN Entries = 1..L
  BY <1>1, <1>3, <1>5
<1>7. \A n \in DOMAIN folder : Entries[Place(n)] = folder[n]
  BY <1>3, <1>4
<1>8. \A k \in 1..L :
        \E n \in DOMAIN folder : Place(n) = k /\ Entries[k] = folder[n]
  BY <1>2, <1>3
<1>9. Range(Entries) = Range(folder)
  <2>1. Range(Entries) \subseteq Range(folder)
    BY <1>6, <1>8 DEF Range
  <2>2. Range(folder) \subseteq Range(Entries)
    BY <1>4, <1>6, <1>7 DEF Range
  <2>. QED BY <2>1, <2>2
<1>. QED BY <1>6, <1>7, <1>8, <1>9 DEF L

(* A reply holds what comes after the cursor, and less than it could only  *)
(* at the end.                                                             *)
LEMMA PageIs ==
  ASSUME NEW e \in Seq(Nat), NEW c \in Nat, NEW max \in Nat
  PROVE  /\ Page(e, c, max) \in Seq(Nat)
         /\ Len(Page(e, c, max)) =
              IF c + max <= Len(e) THEN max
              ELSE IF c <= Len(e) THEN Len(e) - c ELSE 0
         /\ \A j \in 1..Len(Page(e, c, max)) : Page(e, c, max)[j] = e[c + j]
<1>. DEFINE m == Min({c + max, Len(e)})
<1>1. m = IF c + max <= Len(e) THEN c + max ELSE Len(e)
  <2>. DEFINE a == c + max
              b == Len(e)
  <2>1. a \in Nat /\ b \in Nat
    OBVIOUS
  <2>. HIDE DEF a, b
  <2>2. Min({a, b}) = IF a <= b THEN a ELSE b
    BY <2>1 DEF Min
  <2>. QED BY <2>2 DEF a, b
<1>. HIDE DEF m
<1>2. m \in Nat /\ m <= Len(e)
  BY <1>1
<1>3. \A i \in (c + 1)..m : e[i] \in Nat
  BY <1>2
<1>4. /\ SubSeq(e, c + 1, m) \in Seq(Nat)
      /\ Len(SubSeq(e, c + 1, m)) = IF c + 1 <= m THEN m - (c + 1) + 1 ELSE 0
      /\ \A j \in 1..(m - (c + 1) + 1) : SubSeq(e, c + 1, m)[j] = e[c + 1 + j - 1]
  BY <1>2, <1>3, SubSeqProperties
<1>5. Page(e, c, max) = SubSeq(e, c + 1, m)
  BY DEF Page, m
<1>. QED BY <1>1, <1>2, <1>4, <1>5

(* The names of a reply are those at the places behind the cursor, one for *)
(* each of its entries.                                                    *)
Between(c, d) == {n \in DOMAIN folder : c < Place(n) /\ Place(n) <= d}

PageOf(page, c, max) ==
  /\ page \in Seq(Nat)
  /\ page = <<>> <=> Len(page) = 0
  /\ Range(page) = {folder[n] : n \in Between(c, c + Len(page))}
  /\ IsFiniteSet(Between(c, c + Len(page)))
  /\ Cardinality(Between(c, c + Len(page))) = Len(page)
  /\ Len(page) < max =>
       /\ Cardinality(DOMAIN folder) <= c + Len(page)
       /\ \A n \in DOMAIN folder : Place(n) <= c + Len(page)
  /\ Len(page) # 0 =>
       \E n \in DOMAIN folder : Place(n) = c + Len(page) /\ folder[n] = Last(page)
  /\ \A j \in 1..Len(page) :
       \E n \in DOMAIN folder : Place(n) = c + j /\ page[j] = folder[n]

LEMMA PageNames ==
  ASSUME FolderOK, NEW c \in Nat, NEW max \in Nat \ {0},
         NEW page, page = Page(Entries, c, max)
  PROVE  PageOf(page, c, max)
<1>. DEFINE k == Len(page)
            L == Cardinality(DOMAIN folder)
            W == Between(c, c + k)
<1>1. /\ Entries \in Seq(Nat) /\ Len(Entries) = L /\ L \in Nat
      /\ \A n \in DOMAIN folder : Entries[Place(n)] = folder[n]
      /\ \A i \in 1..L :
           \E n \in DOMAIN folder : Place(n) = i /\ Entries[i] = folder[n]
      /\ \A n \in DOMAIN folder : Place(n) \in 1..L
  BY EntriesAre, FolderFacts
<1>. HIDE DEF L
<1>2. /\ page \in Seq(Nat) /\ k \in Nat
      /\ k = IF c + max <= L THEN max ELSE IF c <= L THEN L - c ELSE 0
      /\ \A j \in 1..k : page[j] = Entries[c + j]
  <2>. DEFINE e == Entries
  <2>1. e \in Seq(Nat) /\ Len(e) = L /\ max \in Nat /\ page = Page(e, c, max)
    BY <1>1
  <2>. HIDE DEF e
  <2>2. /\ page \in Seq(Nat)
        /\ k = IF c + max <= L THEN max ELSE IF c <= L THEN L - c ELSE 0
        /\ \A j \in 1..k : page[j] = e[c + j]
    <3>. DEFINE p == Page(e, c, max)
    <3>1. /\ p \in Seq(Nat)
          /\ Len(p) = IF c + max <= Len(e) THEN max
                      ELSE IF c <= Len(e) THEN Len(e) - c ELSE 0
          /\ \A j \in 1..Len(p) : p[j] = e[c + j]
      BY <2>1, PageIs
    <3>2. page = p
      BY <2>1
    <3>. HIDE DEF p
    <3>. QED BY <2>1, <3>1, <3>2
  <2>. HIDE DEF k
  <2>3. k \in Nat
    BY <2>2 DEF k
  <2>. QED BY <2>2, <2>3 DEF e
<1>3. page = <<>> <=> k = 0
  BY <1>2
<1>. HIDE DEF k
<1>4. \A j \in 1..k :
        \E n \in DOMAIN folder : Place(n) = c + j /\ page[j] = folder[n]
  <2>1. ASSUME NEW j \in 1..k
        PROVE  \E n \in DOMAIN folder : Place(n) = c + j /\ page[j] = folder[n]
    <3>1. c + j \in 1..L
      BY <1>1, <1>2
    <3>2. PICK n \in DOMAIN folder : Place(n) = c + j /\ Entries[c + j] = folder[n]
      BY <1>1, <3>1
    <3>. QED BY <1>2, <3>2
  <2>. QED BY <2>1
<1>5. \A n \in W : Place(n) - c \in 1..k /\ page[Place(n) - c] = folder[n]
  <2>. SUFFICES ASSUME NEW n \in W
                PROVE  Place(n) - c \in 1..k /\ page[Place(n) - c] = folder[n]
    OBVIOUS
  <2>1. Place(n) \in Nat /\ Place(n) - c \in 1..k /\ c + (Place(n) - c) = Place(n)
    BY <1>1, <1>2 DEF Between
  <2>2. n \in DOMAIN folder
    BY DEF Between
  <2>. QED BY <1>1, <1>2, <2>1, <2>2
<1>6. Range(page) = {folder[n] : n \in W}
  <2>1. DOMAIN page = 1..k
    BY <1>2 DEF k
  <2>2. ASSUME NEW j \in 1..k
        PROVE  \E n \in W : page[j] = folder[n]
    <3>1. PICK n \in DOMAIN folder : Place(n) = c + j /\ page[j] = folder[n]
      BY <1>4
    <3>2. n \in W
      BY <1>2, <3>1 DEF Between
    <3>. QED BY <3>1, <3>2
  <2>. QED BY <1>5, <2>1, <2>2 DEF Range
<1>7. IsFiniteSet(W) /\ Cardinality(W) = k
  <2>. DEFINE p == [n \in W |-> Place(n)]
              R == {p[n] : n \in W}
  <2>1. IsFiniteSet(W)
    <3>1. W \in SUBSET DOMAIN folder
      BY DEF Between
    <3>. QED BY <3>1, FolderFacts, FS_Subset
  <2>2. \A n, m \in W : p[n] = p[m] => n = m
    BY FolderFacts DEF Between
  <2>3. R = (c + 1)..(c + k)
    <3>1. \A n \in W : p[n] \in (c + 1)..(c + k)
      BY <1>1, <1>2 DEF Between
    <3>2. ASSUME NEW i \in (c + 1)..(c + k)
          PROVE  \E n \in W : p[n] = i
      <4>1. i - c \in 1..k /\ c + (i - c) = i
        BY <1>2, <3>2
      <4>2. PICK n \in DOMAIN folder : Place(n) = i
        BY <1>4, <4>1
      <4>3. n \in W
        BY <1>2, <3>2, <4>2 DEF Between
      <4>. QED BY <4>2, <4>3
    <3>. QED BY <3>1, <3>2
  <2>4. Cardinality(R) = Cardinality(W)
    <3>. HIDE DEF p
    <3>. QED BY <2>1, <2>2, ImageCount
  <2>5. Cardinality((c + 1)..(c + k)) = k
    <3>. DEFINE a == c + 1
                b == c + k
    <3>1. a \in Int /\ b \in Int
      BY <1>2
    <3>. HIDE DEF a, b
    <3>2. Cardinality(a..b) = IF a > b THEN 0 ELSE b - a + 1
      BY <3>1, FS_Interval
    <3>3. IF a > b THEN k = 0 ELSE b - a + 1 = k
      BY <1>2 DEF a, b
    <3>4. Cardinality(a..b) = k
      BY <3>2, <3>3
    <3>. QED BY <3>4 DEF a, b
  <2>. QED BY <2>1, <2>3, <2>4, <2>5
<1>8. k < max => L <= c + k /\ \A n \in DOMAIN folder : Place(n) <= c + k
  BY <1>1, <1>2
<1>9. k # 0 => \E n \in DOMAIN folder :
                 Place(n) = c + k /\ folder[n] = Last(page)
  BY <1>2, <1>4 DEF Last, k
<1>. QED BY <1>2, <1>3, <1>4, <1>6, <1>7, <1>8, <1>9 DEF k, L, PageOf

-----------------------------------------------------------------------------
(* Files.                                                                  *)
FilesOK ==
  /\ backend \in Backends
  /\ nextFh \in 1..(MaxFh + 1)
  /\ openFiles \in [1..(nextFh - 1) -> Inodes \cup {NoFile}]
  /\ pages \subseteq Inodes /\ unhandled \subseteq Inodes
  /\ stored \in [Inodes -> 0..MaxChanges]
  /\ queued \in [Inodes -> 0..MaxChanges]
  /\ \A i \in Inodes : queued[i] <= stored[i]
  /\ ended \in BOOLEAN

FileInv == FilesOK /\ QueuedAtRest

(* A handle that is there is of a file.                                    *)
LEMMA HandleIs ==
  ASSUME FilesOK, NEW fh, Live(fh)
  PROVE  fh \in 1..(nextFh - 1) /\ openFiles[fh] \in Inodes
BY DEF FilesOK, Live

LEMMA OpenStep ==
  ASSUME FileInv, NEW i \in Inodes, Open(i)
  PROVE  FileInv'
<1>. USE AdapterAssumption DEF FileInv
<1>1. /\ nextFh <= MaxFh /\ nextFh' = nextFh + 1
      /\ openFiles' = Append(openFiles, i)
      /\ UNCHANGED <<backend, pages, stored, queued, unhandled, ended>>
  BY DEF Open
<1>2. nextFh \in Nat \ {0} /\ MaxFh \in Nat
  BY DEF FilesOK
<1>3. /\ openFiles \in Seq(Inodes \cup {NoFile})
      /\ Len(openFiles) = nextFh - 1 /\ DOMAIN openFiles = 1..(nextFh - 1)
  <2>. DEFINE m == nextFh - 1
  <2>1. m \in Nat /\ openFiles \in [1..m -> Inodes \cup {NoFile}]
    BY <1>2 DEF FilesOK
  <2>. HIDE DEF m
  <2>2. openFiles \in Seq(Inodes \cup {NoFile}) /\ Len(openFiles) = m
    BY <2>1
  <2>. QED BY <2>1, <2>2 DEF m
<1>4. /\ Append(openFiles, i) \in [1..nextFh -> Inodes \cup {NoFile}]
      /\ \A fh \in DOMAIN openFiles :
           /\ fh \in DOMAIN Append(openFiles, i)
           /\ Append(openFiles, i)[fh] = openFiles[fh]
  <2>. DEFINE t == Append(openFiles, i)
  <2>1. /\ t \in Seq(Inodes \cup {NoFile}) /\ Len(t) = nextFh
        /\ \A fh \in 1..(nextFh - 1) : t[fh] = openFiles[fh]
    BY <1>2, <1>3, AppendProperties
  <2>2. DOMAIN t = 1..nextFh
    BY <2>1
  <2>3. 1..(nextFh - 1) \subseteq 1..nextFh
    BY <1>2
  <2>. HIDE DEF t
  <2>4. t \in [1..nextFh -> Inodes \cup {NoFile}]
    BY <2>1, <2>2
  <2>. QED BY <1>3, <2>1, <2>2, <2>3, <2>4 DEF t
<1>5. FilesOK'
  BY <1>1, <1>2, <1>4 DEF FilesOK
<1>6. QueuedAtRest'
  BY <1>1, <1>4 DEF QueuedAtRest, Fuse
<1>. QED BY <1>5, <1>6

LEMMA WriteStep ==
  ASSUME FileInv, NEW fh, Dirty(fh) \/ Write(fh)
  PROVE  FileInv'
<1>. USE DEF FileInv
<1>. DEFINE i == openFiles[fh]
<1>1. Live(fh) /\ i \in Inodes /\ fh \in DOMAIN openFiles
  BY HandleIs DEF Dirty, Write, Live
<1>2. CASE Dirty(fh)
  <2>1. /\ pages' = pages \cup {i}
        /\ UNCHANGED <<backend, openFiles, nextFh, stored, queued, unhandled, ended>>
    BY <1>2 DEF Dirty
  <2>. QED BY <1>1, <2>1 DEF FilesOK, QueuedAtRest, Fuse
<1>3. CASE Write(fh)
  <2>1. /\ pages' = pages \ {i} /\ stored[i] < MaxChanges
        /\ stored' = [stored EXCEPT ![i] = @ + 1]
        /\ UNCHANGED <<backend, openFiles, nextFh, queued, unhandled, ended>>
    BY <1>3 DEF Write
  <2>2. FilesOK'
    BY <1>1, <2>1, AdapterAssumption DEF FilesOK
  <2>3. QueuedAtRest'
    BY <1>1, <2>1 DEF FilesOK, QueuedAtRest, Fuse
  <2>. QED BY <2>2, <2>3
<1>. QED BY <1>2, <1>3

(* Both enqueue the file at what is stored, so a handle may go.            *)
LEMMA CloseStep ==
  ASSUME FileInv, NEW fh, Flush(fh) \/ Release(fh)
  PROVE  FileInv'
<1>. USE DEF FileInv
<1>. DEFINE i == openFiles[fh]
<1>1. Live(fh) /\ i \in Inodes /\ fh \in 1..(nextFh - 1) /\ fh \in DOMAIN openFiles
  BY HandleIs DEF Flush, Release, Live
<1>2. /\ queued' = [queued EXCEPT ![i] = stored[i]]
      /\ unhandled' = unhandled \ {i}
      /\ openFiles' = openFiles \/ openFiles' = [openFiles EXCEPT ![fh] = NoFile]
      /\ UNCHANGED <<backend, nextFh, pages, stored, ended>>
  BY DEF Flush, Release, Enqueued
<1>3. FilesOK'
  <2>1. openFiles' \in [1..(nextFh - 1) -> Inodes \cup {NoFile}]
    BY <1>2 DEF FilesOK
  <2>2. queued' \in [Inodes -> 0..MaxChanges] /\ \A j \in Inodes : queued'[j] <= stored[j]
    BY <1>1, <1>2, AdapterAssumption DEF FilesOK
  <2>. QED BY <1>2, <2>1, <2>2 DEF FilesOK
<1>4. QueuedAtRest'
  <2>. SUFFICES ASSUME Fuse, NEW j \in Inodes, j # i
                PROVE  \/ \E h \in DOMAIN openFiles' : openFiles'[h] = j
                       \/ j \in unhandled'
                       \/ queued'[j] = stored'[j]
    BY <1>1, <1>2 DEF QueuedAtRest, Fuse, FilesOK
  <2>1. \/ \E h \in DOMAIN openFiles : openFiles[h] = j
        \/ j \in unhandled
        \/ queued[j] = stored[j]
    BY DEF QueuedAtRest
  <2>2. ASSUME NEW h \in DOMAIN openFiles, openFiles[h] = j
        PROVE  h \in DOMAIN openFiles' /\ openFiles'[h] = j
    BY <1>2, <2>2
  <2>. QED BY <1>2, <2>1, <2>2 DEF FilesOK
<1>. QED BY <1>3, <1>4

(* What the other file steps change is exempt: a setattr is noted, and the *)
(* promise is for FUSE while its session lasts.                            *)
LEMMA OtherFileStep ==
  ASSUME FileInv,
         \/ \E i \in Inodes : SetSize(i) \/ NfsWrite(i)
         \/ Destroy
  PROVE  FileInv'
<1>. USE AdapterAssumption DEF FileInv
<1>1. CASE \E i \in Inodes : SetSize(i)
  <2>1. PICK i \in Inodes : SetSize(i)
    BY <1>1
  <2>2. /\ stored[i] < MaxChanges
        /\ stored' = [stored EXCEPT ![i] = @ + 1]
        /\ unhandled' = unhandled \cup {i}
        /\ UNCHANGED <<backend, openFiles, nextFh, pages, queued, ended>>
    BY <2>1 DEF SetSize
  <2>3. FilesOK'
    BY <2>2 DEF FilesOK
  <2>4. QueuedAtRest'
    BY <2>2 DEF FilesOK, QueuedAtRest, Fuse
  <2>. QED BY <2>3, <2>4
<1>2. CASE \E i \in Inodes : NfsWrite(i)
  <2>1. PICK i \in Inodes : NfsWrite(i)
    BY <1>2
  <2>2. /\ stored[i] < MaxChanges /\ backend = "nfs"
        /\ stored' = [stored EXCEPT ![i] = @ + 1]
        /\ UNCHANGED <<backend, openFiles, nextFh, pages, queued, unhandled, ended>>
    BY <2>1 DEF NfsWrite
  <2>3. FilesOK'
    BY <2>2 DEF FilesOK
  <2>4. QueuedAtRest'
    BY <2>2 DEF QueuedAtRest, Fuse
  <2>. QED BY <2>3, <2>4
<1>3. CASE Destroy
  <2>1. /\ ended' = TRUE /\ pages' = {}
        /\ openFiles' = [fh \in DOMAIN openFiles |-> NoFile]
        /\ UNCHANGED <<backend, nextFh, stored, queued, unhandled>>
    BY <1>3 DEF Destroy
  <2>2. FilesOK'
    BY <2>1 DEF FilesOK
  <2>3. QueuedAtRest'
    BY <2>1 DEF QueuedAtRest, Fuse
  <2>. QED BY <2>2, <2>3
<1>. QED BY <1>1, <1>2, <1>3

-----------------------------------------------------------------------------
(* Listings.                                                               *)
Listings ==
  [state: {"idle", "open", "done"}, cursor: Nat, got: Seq(Nat),
   steady: SUBSET Nat, added: Nat, removed: Nat, lost: BOOLEAN]

ListingOK ==
  /\ listing \in Listings
  /\ listing.steady \subseteq Range(folder)
  /\ Range(listing.got) \subseteq 1..(nextEntry - 1)

(* What the cursor has passed over, and what it will meet again.           *)
Skipped == {n \in DOMAIN folder :
              /\ Place(n) <= listing.cursor
              /\ folder[n] \in listing.steady \ Range(listing.got)}
Again == {n \in DOMAIN folder :
            /\ Place(n) > listing.cursor
            /\ folder[n] \in Range(listing.got)}

(* The FUSE cursor counts what was listed; only a removal moves an entry   *)
(* in front of it, only a new entry moves one behind it.                   *)
FuseKeeps ==
  backend = "fuse" =>
    /\ listing.cursor = Len(listing.got)
    /\ Cardinality(Skipped) <= listing.removed
    /\ Repeated + Cardinality(Again) <= listing.added
    /\ listing.state = "done" => Cardinality(DOMAIN folder) <= listing.cursor

(* As long as the entry at the NFS cursor stays, it parts the names: of    *)
(* what is steady, all before it and nothing behind it was listed.         *)
Parts(c) ==
  \A n \in DOMAIN folder :
    folder[n] \in listing.steady => (n <= c <=> folder[n] \in Range(listing.got))

NfsKeeps ==
  backend = "nfs" /\ ~ listing.lost =>
    /\ IF listing.cursor = 0 THEN listing.got = <<>>
       ELSE listing.cursor \in Range(folder)
    /\ \A c \in DOMAIN folder : folder[c] = listing.cursor => Parts(c)
    /\ Twice \cap listing.steady = {}
    /\ listing.state = "done" => listing.steady \subseteq Range(listing.got)

ListInv == FolderOK /\ ListingOK /\ FuseKeeps /\ NfsKeeps

(* What was counted is finite.                                             *)
LEMMA CountsFinite ==
  ASSUME FolderOK, ListingOK
  PROVE  /\ IsFiniteSet(Skipped) /\ Cardinality(Skipped) \in Nat
         /\ IsFiniteSet(Again) /\ Cardinality(Again) \in Nat
         /\ IsFiniteSet(Range(listing.got))
         /\ Cardinality(Range(listing.got)) \in Nat
<1>1. IsFiniteSet(DOMAIN folder)
  BY FolderFacts
<1>2. Skipped \in SUBSET DOMAIN folder /\ Again \in SUBSET DOMAIN folder
  BY DEF Skipped, Again
<1>3. IsFiniteSet(1..(nextEntry - 1))
  <2>. DEFINE b == nextEntry - 1
  <2>1. b \in Int
    BY DEF FolderOK
  <2>. HIDE DEF b
  <2>2. IsFiniteSet(1..b)
    BY <2>1, FS_Interval
  <2>. QED BY <2>2 DEF b
<1>4. IsFiniteSet(Range(listing.got))
  BY <1>3, FS_Subset DEF ListingOK
<1>. QED BY <1>1, <1>2, <1>4, FS_Subset, FS_CardinalityType

(* The members a sequence has twice.                                       *)
Doubles(s) == {x \in Range(s) : \E i, j \in 1..Len(s) : i < j /\ s[i] = x /\ s[j] = x}

LEMMA TwiceIs == Twice = Doubles(listing.got)
BY DEF Twice, Doubles

LEMMA RangeCat ==
  ASSUME NEW s \in Seq(Nat), NEW t \in Seq(Nat)
  PROVE  /\ s \o t \in Seq(Nat) /\ Len(s \o t) = Len(s) + Len(t)
         /\ Range(s \o t) = Range(s) \cup Range(t)
         /\ IsInjective(t) =>
              Doubles(s \o t) \subseteq Doubles(s) \cup (Range(s) \cap Range(t))
<1>. DEFINE u == s \o t
<1>1. /\ u \in Seq(Nat) /\ Len(u) = Len(s) + Len(t)
      /\ \A i \in 1..(Len(s) + Len(t)) :
           u[i] = IF i <= Len(s) THEN s[i] ELSE t[i - Len(s)]
      /\ Len(s) \in Nat /\ Len(t) \in Nat
      /\ DOMAIN s = 1..Len(s) /\ DOMAIN t = 1..Len(t)
  BY ConcatProperties
<1>. HIDE DEF u
<1>2. DOMAIN u = 1..(Len(s) + Len(t))
  BY <1>1
<1>3. ASSUME NEW i \in DOMAIN u
      PROVE  \/ i \in DOMAIN s /\ u[i] = s[i]
             \/ i - Len(s) \in DOMAIN t /\ u[i] = t[i - Len(s)] /\ i > Len(s)
  BY <1>1, <1>2
<1>4. ASSUME NEW i \in DOMAIN s
      PROVE  i \in DOMAIN u /\ u[i] = s[i]
  BY <1>1, <1>2
<1>5. ASSUME NEW i \in DOMAIN t
      PROVE  i + Len(s) \in DOMAIN u /\ u[i + Len(s)] = t[i]
  <2>1. /\ i + Len(s) \in 1..(Len(s) + Len(t)) /\ ~ i + Len(s) <= Len(s)
        /\ (i + Len(s)) - Len(s) = i
    BY <1>1
  <2>. QED BY <1>1, <1>2, <2>1
<1>6. Range(u) = Range(s) \cup Range(t)
  <2>1. Range(u) \subseteq Range(s) \cup Range(t)
    BY <1>3 DEF Range
  <2>2. Range(s) \cup Range(t) \subseteq Range(u)
    BY <1>4, <1>5 DEF Range
  <2>. QED BY <2>1, <2>2
<1>7. ASSUME IsInjective(t), NEW x \in Doubles(u)
      PROVE  x \in Doubles(s) \/ x \in Range(s) \cap Range(t)
  <2>1. PICK i, j \in 1..Len(u) : i < j /\ u[i] = x /\ u[j] = x
    BY DEF Doubles
  <2>2. i \in DOMAIN u /\ j \in DOMAIN u /\ i \in Nat /\ j \in Nat
    BY <1>1, <1>2
  <2>3. CASE i \in DOMAIN s /\ j \in DOMAIN s
    <3>1. s[i] = x /\ s[j] = x /\ i \in 1..Len(s) /\ j \in 1..Len(s)
      BY <1>1, <1>4, <2>1, <2>3
    <3>2. x \in Range(s)
      BY <1>1, <3>1 DEF Range
    <3>. QED BY <2>1, <3>1, <3>2 DEF Doubles
  <2>4. CASE i \notin DOMAIN s /\ j \notin DOMAIN s
    <3>1. /\ i - Len(s) \in DOMAIN t /\ u[i] = t[i - Len(s)]
          /\ j - Len(s) \in DOMAIN t /\ u[j] = t[j - Len(s)]
      BY <1>3, <2>2, <2>4
    <3>2. i - Len(s) = j - Len(s)
      BY <1>7, <2>1, <3>1 DEF IsInjective
    <3>. QED BY <1>1, <2>1, <2>2, <3>2
  <2>5. CASE i \in DOMAIN s /\ j \notin DOMAIN s
    BY <1>3, <1>4, <2>1, <2>2, <2>5 DEF Range
  <2>6. CASE i \notin DOMAIN s /\ j \in DOMAIN s
    BY <1>1, <1>2, <2>1, <2>2, <2>6
  <2>. QED BY <2>3, <2>4, <2>5, <2>6
<1>. QED BY <1>1, <1>6, <1>7 DEF u

(* A listing that begins, or none.                                         *)
Fresh ==
  /\ listing.state # "done" /\ listing.cursor = 0 /\ listing.got = <<>>
  /\ listing.added \in Nat /\ listing.removed \in Nat

LEMMA FreshKeeps == FolderOK /\ Fresh => FuseKeeps /\ NfsKeeps
<1>. SUFFICES ASSUME FolderOK, Fresh PROVE FuseKeeps /\ NfsKeeps
  OBVIOUS
<1>1. Range(listing.got) = {} /\ Twice = {} /\ Len(listing.got) = 0
  BY DEF Fresh, Range, Twice
<1>2. /\ \A n \in DOMAIN folder : Place(n) \in Nat \ {0} /\ folder[n] # 0
  BY FolderFacts
<1>3. Skipped = {} /\ Again = {}
  BY <1>1, <1>2 DEF Skipped, Again, Fresh
<1>4. Cardinality({}) = 0
  BY FS_EmptySet
<1>5. FuseKeeps
  <2>1. Cardinality(Skipped) = 0 /\ Cardinality(Again) = 0 /\ Repeated = 0
    BY <1>1, <1>3, <1>4 DEF Repeated
  <2>. QED BY <1>1, <2>1 DEF FuseKeeps, Fresh
<1>6. NfsKeeps
  BY <1>1, <1>2 DEF NfsKeeps, Fresh
<1>. QED BY <1>5, <1>6

LEMMA StartStep ==
  ASSUME ListInv, StartListing
  PROVE  ListInv'
<1>. USE DEF ListInv
<1>1. /\ listing' = [Idle EXCEPT !.state = "open", !.steady = Range(folder)]
      /\ UNCHANGED <<backend, folder, nextEntry, returns>>
  BY EntriesAre DEF StartListing
<1>2. FolderOK'
  BY <1>1 DEF FolderOK
<1>3. Fresh'
  BY <1>1 DEF Fresh, Idle
<1>4. ListingOK'
  <2>1. Range(folder) \subseteq Nat
    BY FolderFacts DEF Range
  <2>. DEFINE S == Range(folder)
  <2>. HIDE DEF S
  <2>2. /\ listing'.steady = S /\ listing'.got = <<>>
        /\ listing' \in Listings
    <3>1. S \subseteq Nat /\ <<>> \in Seq(Nat)
      BY <2>1 DEF S
    <3>2. listing' = [state |-> "open", cursor |-> 0, got |-> <<>>, steady |-> S,
                      added |-> 0, removed |-> 0, lost |-> FALSE]
      BY <1>1 DEF Idle, S
    <3>. QED BY <3>1, <3>2 DEF Listings
  <2>3. Range(listing'.got) = {}
    BY <2>2 DEF Range
  <2>4. Range(folder') = Range(folder)
    BY <1>1
  <2>. QED BY <2>2, <2>3, <2>4 DEF ListingOK, S
<1>5. FuseKeeps' /\ NfsKeeps'
  BY <1>2, <1>3, FreshKeeps, PTL
<1>. QED BY <1>2, <1>4, <1>5

(* What a reply adds to a listing, whichever cursor it came from.          *)
Replied(page, cursor, state) ==
  [listing EXCEPT !.got = @ \o page, !.cursor = cursor, !.state = state]

Continued(page, cursor, state) ==
  /\ listing'.got = listing.got \o page
  /\ Len(listing'.got) = Len(listing.got) + Len(page)
  /\ Range(listing'.got) = Range(listing.got) \cup Range(page)
  /\ IsInjective(page)
  /\ listing'.cursor = cursor /\ listing'.state = state
  /\ listing'.steady = listing.steady /\ listing'.added = listing.added
  /\ listing'.removed = listing.removed /\ listing'.lost = listing.lost
  /\ \A n : Place(n)' = Place(n)

LEMMA ReplyStep ==
  ASSUME FolderOK, ListingOK, NEW c \in Nat, NEW max,
         NEW page, PageOf(page, c, max),
         NEW cursor \in Nat, NEW state \in {"open", "done"},
         listing' = Replied(page, cursor, state),
         UNCHANGED <<folder, nextEntry, returns>>
  PROVE  FolderOK' /\ ListingOK' /\ Continued(page, cursor, state)
<1>1. /\ listing.got \in Seq(Nat) /\ page \in Seq(Nat)
      /\ Range(page) = {folder[n] : n \in Between(c, c + Len(page))}
      /\ \A j \in 1..Len(page) :
           \E n \in DOMAIN folder : Place(n) = c + j /\ page[j] = folder[n]
  <2>1. listing.got \in Seq(Nat)
    BY DEF ListingOK, Listings
  <2>2. /\ page \in Seq(Nat)
        /\ Range(page) = {folder[n] : n \in Between(c, c + Len(page))}
        /\ \A j \in 1..Len(page) :
             \E n \in DOMAIN folder : Place(n) = c + j /\ page[j] = folder[n]
    BY DEF PageOf
  <2>. QED BY <2>1, <2>2
<1>2. /\ listing.got \o page \in Seq(Nat)
      /\ Len(listing.got \o page) = Len(listing.got) + Len(page)
      /\ Range(listing.got \o page) = Range(listing.got) \cup Range(page)
  BY <1>1, RangeCat
<1>. DEFINE g == listing.got \o page
<1>. HIDE DEF g
<1>3. /\ listing'.got = g /\ listing'.cursor = cursor /\ listing'.state = state
      /\ listing'.steady = listing.steady /\ listing'.added = listing.added
      /\ listing'.removed = listing.removed /\ listing'.lost = listing.lost
      /\ listing' \in Listings
  <2>1. listing' = [listing EXCEPT !.got = g, !.cursor = cursor, !.state = state]
    BY DEF g, Replied
  <2>2. g \in Seq(Nat) /\ listing \in Listings
    BY <1>2 DEF g, ListingOK
  <2>. QED BY <2>1, <2>2 DEF Listings
<1>4. \A n : Place(n)' = Place(n)
  BY DEF Place
<1>5. FolderOK'
  BY DEF FolderOK
<1>6. Range(page) \subseteq 1..(nextEntry - 1)
  BY <1>1 DEF Between, FolderOK
<1>7. ListingOK'
  <2>1. Range(g) = Range(listing.got) \cup Range(page)
    BY <1>2 DEF g
  <2>. QED BY <1>3, <1>6, <2>1 DEF ListingOK
<1>8. IsInjective(page)
  <2>. SUFFICES ASSUME NEW i \in 1..Len(page), NEW j \in 1..Len(page),
                       page[i] = page[j]
                PROVE  i = j
    <3>1. DOMAIN page = 1..Len(page)
      BY <1>1
    <3>. QED BY <3>1 DEF IsInjective
  <2>1. PICK n \in DOMAIN folder : Place(n) = c + i /\ page[i] = folder[n]
    BY <1>1
  <2>2. PICK m \in DOMAIN folder : Place(m) = c + j /\ page[j] = folder[m]
    BY <1>1
  <2>3. n = m
    BY <2>1, <2>2, FolderFacts
  <2>4. Len(page) \in Nat
    BY <1>1
  <2>. QED BY <2>1, <2>2, <2>3, <2>4
<1>. QED BY <1>2, <1>3, <1>4, <1>5, <1>7, <1>8 DEF g, Continued

(* A FUSE reply counts as repeated what it meets again, and passes over    *)
(* nothing.                                                                *)
LEMMA FuseStep ==
  ASSUME ListInv, FuseReadDir
  PROVE  ListInv'
<1>. USE DEF ListInv
<1>1. /\ backend = "fuse" /\ listing.state = "open"
      /\ UNCHANGED <<backend, folder, nextEntry, returns>>
      /\ listing.cursor \in Nat /\ listing \in Listings
      /\ 1..MaxReply \subseteq Nat \ {0}
  BY AdapterAssumption DEF FuseReadDir, ListingOK, Listings
<1>. PICK c \in Nat : c = listing.cursor
  BY <1>1
<1>0. PICK max \in Nat \ {0} :
       LET page == Page(Entries, c, max)
       IN listing' = [listing EXCEPT
            !.got = @ \o page,
            !.cursor = @ + Len(page),
            !.state = IF page = <<>> THEN "done" ELSE "open"]
  BY <1>1 DEF FuseReadDir
<1>a. PICK page : page = Page(Entries, c, max)
  OBVIOUS
<1>b. PageOf(page, c, max)
  BY <1>a, PageNames
<1>. DEFINE k == Len(page)
            d == c + k
            W == Between(c, d)
            state == IF page = <<>> THEN "done" ELSE "open"
<1>2. /\ page \in Seq(Nat) /\ k \in Nat
      /\ page = <<>> <=> k = 0
      /\ Range(page) = {folder[n] : n \in W}
      /\ IsFiniteSet(W) /\ Cardinality(W) = k
      /\ k < max => Cardinality(DOMAIN folder) <= d
  BY <1>b DEF PageOf
<1>3. FolderOK' /\ ListingOK' /\ Continued(page, d, state)
  <2>. PICK cursor \in Nat, st \in {"open", "done"} : cursor = d /\ st = state
    BY <1>2
  <2>1. listing' = Replied(page, cursor, st)
    BY <1>0, <1>a DEF Replied
  <2>2. UNCHANGED <<folder, nextEntry, returns>>
    BY <1>1
  <2>3. FolderOK' /\ ListingOK' /\ Continued(page, cursor, st)
    BY <1>b, <2>1, <2>2, ReplyStep
  <2>. HIDE DEF d, state
  <2>. QED BY <2>3
<1>4. /\ Len(listing'.got) = Len(listing.got) + k
      /\ Range(listing'.got) = Range(listing.got) \cup Range(page)
      /\ listing'.cursor = d /\ listing'.state = state
      /\ listing'.steady = listing.steady /\ listing'.added = listing.added
      /\ listing'.removed = listing.removed
      /\ \A n : Place(n)' = Place(n)
  BY <1>3 DEF Continued
<1>. DEFINE B == W \cap Again
            Q == {folder[n] : n \in W \ B}
            G == Range(listing.got)
<1>. HIDE DEF k, d, W
<1>5. /\ IsFiniteSet(Again) /\ Cardinality(Again) \in Nat
      /\ IsFiniteSet(Skipped) /\ Cardinality(Skipped) \in Nat
      /\ IsFiniteSet(G) /\ Cardinality(G) \in Nat
      /\ Len(listing.got) \in Nat
  BY CountsFinite DEF ListingOK, Listings
<1>6. /\ IsFiniteSet(B) /\ Cardinality(B) \in Nat
      /\ B = Again \cap B
  BY <1>2, FS_Intersection, FS_CardinalityType
<1>7. Cardinality(Skipped') <= Cardinality(Skipped)
  <2>1. ASSUME NEW n \in Skipped'
        PROVE  n \in Skipped
    <3>1. /\ n \in DOMAIN folder /\ Place(n) <= d
          /\ folder[n] \in listing.steady \ (G \cup Range(page))
      BY <1>1, <1>4, <2>1 DEF Skipped
    <3>2. n \notin W
      BY <1>2, <3>1
    <3>3. Place(n) <= c
      BY <1>1, <1>2, <3>1, <3>2, FolderFacts DEF W, Between, d
    <3>. QED BY <3>1, <3>3 DEF Skipped
  <2>. QED BY <2>1, <1>5, FS_Subset
<1>8. Cardinality(Again') = Cardinality(Again) - Cardinality(B)
  <2>1. Again' = Again \ B
    <3>1. ASSUME NEW n \in DOMAIN folder
          PROVE  n \in W <=> c < Place(n) /\ ~ Place(n) > d
      BY <1>1, <1>2, <3>1, FolderFacts DEF W, Between, d
    <3>2. Again' = {n \in DOMAIN folder :
                      Place(n) > d /\ folder[n] \in G \cup Range(page)}
      BY <1>1, <1>4 DEF Again
    <3>3. ASSUME NEW n \in DOMAIN folder, Place(n) > d
          PROVE  folder[n] \notin Range(page) /\ Place(n) > c
      <4>1. n \notin W /\ \A m \in W : m \in DOMAIN folder
        BY <3>1, <3>3 DEF W, Between
      <4>2. folder[n] \notin Range(page)
        BY <1>2, <4>1, FolderFacts
      <4>3. Place(n) > c
        BY <1>1, <1>2, <3>3, FolderFacts DEF d
      <4>. QED BY <4>2, <4>3
    <3>4. Again' = {n \in Again : Place(n) > d}
      BY <3>2, <3>3 DEF Again
    <3>5. \A n \in Again : n \in W <=> ~ Place(n) > d
      BY <1>1, <3>1, FolderFacts DEF Again
    <3>. QED BY <3>4, <3>5
  <2>2. Cardinality(Again \ B) = Cardinality(Again) - Cardinality(Again \cap B)
    BY <1>5, FS_Difference
  <2>. QED BY <1>6, <2>1, <2>2
<1>9. Cardinality(Range(listing'.got)) = Cardinality(G) + k - Cardinality(B)
  <2>1. /\ IsFiniteSet(W \ B)
        /\ Cardinality(W \ B) = k - Cardinality(B)
    <3>1. B = W \cap B
      OBVIOUS
    <3>. QED BY <1>2, <3>1, FS_Difference
  <2>2. IsFiniteSet(Q) /\ Cardinality(Q) = Cardinality(W \ B)
    <3>1. \A n, m \in W \ B : folder[n] = folder[m] => n = m
      BY FolderFacts DEF W, Between
    <3>. QED BY <2>1, <3>1, ImageCount
  <2>3. \A n \in W : n \in B <=> folder[n] \in G
    <3>1. \A n \in W : n \in DOMAIN folder /\ Place(n) > c
      BY <1>1, FolderFacts DEF W, Between
    <3>. QED BY <3>1 DEF Again
  <2>4. G \cap Q = {} /\ Range(listing'.got) = G \cup Q
    BY <1>2, <1>4, <2>3
  <2>5. Cardinality(G \cup Q) =
          Cardinality(G) + Cardinality(Q) - Cardinality(G \cap Q)
    BY <1>5, <2>2, FS_Union
  <2>6. Cardinality(G \cap Q) = 0
    BY <2>4, FS_EmptySet
  <2>. HIDE DEF Q, B, G
  <2>7. Cardinality(Range(listing'.got)) = Cardinality(G) + Cardinality(Q)
    <3>1. Cardinality(Q) \in Nat
      BY <2>2, FS_CardinalityType
    <3>. QED BY <1>5, <2>4, <2>5, <2>6, <3>1
  <2>. QED BY <1>2, <1>5, <1>6, <2>1, <2>2, <2>7
<1>10. FuseKeeps'
  <2>1. /\ listing.cursor = Len(listing.got)
        /\ Cardinality(Skipped) <= listing.removed
        /\ Repeated + Cardinality(Again) <= listing.added
    BY <1>1 DEF FuseKeeps
  <2>2. Repeated' = Repeated + Cardinality(B) /\ Repeated \in Int
    <3>1. /\ Repeated = Len(listing.got) - Cardinality(G)
          /\ Repeated' = Len(listing'.got) - Cardinality(Range(listing'.got))
      BY DEF Repeated
    <3>. DEFINE l == Len(listing.got)
                g == Cardinality(G)
                b == Cardinality(B)
    <3>2. l \in Nat /\ g \in Nat /\ b \in Nat /\ k \in Nat
      BY <1>2, <1>5, <1>6
    <3>3. Repeated = l - g /\ Repeated' = (l + k) - (g + k - b)
      BY <1>4, <1>9, <3>1
    <3>. HIDE DEF l, g, b
    <3>4. Repeated' = Repeated + b /\ Repeated \in Int
      BY <3>2, <3>3
    <3>. QED BY <3>4 DEF b
  <2>3. listing.added \in Nat /\ listing.removed \in Nat
    BY <1>1 DEF Listings
  <2>4. Repeated' + Cardinality(Again') <= listing'.added
    BY <1>4, <1>5, <1>6, <1>8, <2>1, <2>2, <2>3
  <2>5. Cardinality(Skipped') <= listing'.removed
    <3>1. Skipped' \subseteq Skipped
      BY <1>1, <1>2, <1>4, FolderFacts DEF Skipped, W, Between, d
    <3>2. Cardinality(Skipped') \in Nat
      BY <1>5, <3>1, FS_Subset, FS_CardinalityType
    <3>. QED BY <1>4, <1>5, <1>7, <2>1, <2>3, <3>2
  <2>6. listing'.cursor = Len(listing'.got)
    BY <1>4, <2>1 DEF d
  <2>7. listing'.state = "done" => Cardinality(DOMAIN folder') <= listing'.cursor
    BY <1>1, <1>2, <1>4
  <2>. QED BY <2>4, <2>5, <2>6, <2>7 DEF FuseKeeps
<1>11. NfsKeeps'
  BY <1>1 DEF NfsKeeps
<1>. QED BY <1>3, <1>10, <1>11

(* An NFS reply starts behind the entry at the cursor.                     *)
LEMMA AfterIs ==
  ASSUME FolderOK, NEW last \in Nat
  PROVE  /\ After(Entries, last) \in Nat
         /\ last = 0 => After(Entries, last) = 0
         /\ \A c \in DOMAIN folder :
              folder[c] = last => After(Entries, last) = Place(c)
         /\ last # 0 /\ last \notin Range(folder) =>
              After(Entries, last) = Cardinality(DOMAIN folder)
<1>. DEFINE at == {k \in 1..Len(Entries) : Entries[k] = last}
            L == Cardinality(DOMAIN folder)
<1>1. /\ Entries \in Seq(Nat) /\ Len(Entries) = L /\ L \in Nat
      /\ \A n \in DOMAIN folder : Entries[Place(n)] = folder[n]
      /\ \A k \in 1..L :
           \E n \in DOMAIN folder : Place(n) = k /\ Entries[k] = folder[n]
      /\ \A n \in DOMAIN folder : Place(n) \in 1..L /\ folder[n] # 0
      /\ \A n, m \in DOMAIN folder : n = m <=> folder[n] = folder[m]
  BY EntriesAre, FolderFacts
<1>. HIDE DEF at, L
<1>2. After(Entries, last) =
        IF last = 0 THEN 0 ELSE IF at = {} THEN L ELSE Min(at)
  BY <1>1 DEF After, at
<1>3. ASSUME NEW c \in DOMAIN folder, folder[c] = last
      PROVE  at = {Place(c)} /\ Min(at) = Place(c) /\ last # 0
  <2>1. Place(c) \in at
    BY <1>1, <1>3 DEF at
  <2>2. \A k \in at : k = Place(c)
    BY <1>1, <1>3 DEF at
  <2>3. at = {Place(c)}
    BY <2>1, <2>2
  <2>4. Place(c) <= Place(c)
    BY <1>1
  <2>. QED BY <1>1, <1>3, <2>3, <2>4 DEF Min
<1>4. last \notin Range(folder) => at = {}
  BY <1>1 DEF at, Range
<1>5. last \in Range(folder) => \E c \in DOMAIN folder : folder[c] = last
  BY DEF Range
<1>6. \A c \in DOMAIN folder : folder[c] = last => After(Entries, last) = Place(c)
  BY <1>2, <1>3
<1>7. last # 0 /\ last \notin Range(folder) => After(Entries, last) = L
  BY <1>2, <1>4
<1>8. After(Entries, last) \in Nat
  <2>1. CASE last = 0
    BY <1>2, <2>1
  <2>2. CASE last # 0 /\ last \notin Range(folder)
    BY <1>1, <1>7, <2>2
  <2>3. CASE last \in Range(folder)
    BY <1>1, <1>5, <1>6, <2>3
  <2>. QED BY <2>1, <2>2, <2>3
<1>. QED BY <1>2, <1>6, <1>7, <1>8 DEF L

LEMMA NfsStep ==
  ASSUME ListInv, NfsReadDir
  PROVE  ListInv'
<1>. USE DEF ListInv
<1>1. /\ backend = "nfs" /\ listing.state = "open"
      /\ UNCHANGED <<backend, folder, nextEntry, returns>>
      /\ listing.cursor \in Nat /\ listing \in Listings
      /\ 1..MaxReply \subseteq Nat \ {0}
  BY AdapterAssumption DEF NfsReadDir, ListingOK, Listings
<1>. DEFINE last == listing.cursor
            G == Range(listing.got)
<1>a. PICK a \in Nat : a = After(Entries, last)
  BY <1>1, AfterIs
<1>0. PICK max \in Nat \ {0} :
        LET page == Page(Entries, a, max)
        IN listing' = [listing EXCEPT
             !.got = @ \o page,
             !.cursor = IF page = <<>> THEN @ ELSE Last(page),
             !.state = IF Len(page) < max THEN "done" ELSE "open"]
  BY <1>1, <1>a DEF NfsReadDir
<1>b. PICK page : page = Page(Entries, a, max)
  OBVIOUS
<1>c. PageOf(page, a, max)
  BY <1>b, PageNames
<1>. DEFINE k == Len(page)
            cursor == IF page = <<>> THEN last ELSE Last(page)
            state == IF k < max THEN "done" ELSE "open"
<1>2. /\ page \in Seq(Nat) /\ k \in Nat
      /\ page = <<>> <=> k = 0
      /\ Range(page) = {folder[n] : n \in Between(a, a + k)}
      /\ k < max => \A n \in DOMAIN folder : Place(n) <= a + k
      /\ k # 0 => \E n \in DOMAIN folder :
                    Place(n) = a + k /\ folder[n] = Last(page)
  BY <1>c DEF PageOf
<1>3. FolderOK' /\ ListingOK' /\ Continued(page, cursor, state)
  <2>1. cursor \in Nat
    BY <1>1, <1>2, FolderFacts
  <2>. PICK cu \in Nat, st \in {"open", "done"} : cu = cursor /\ st = state
    BY <2>1
  <2>2. listing' = Replied(page, cu, st)
    BY <1>0, <1>b DEF Replied
  <2>3. UNCHANGED <<folder, nextEntry, returns>>
    BY <1>1
  <2>4. FolderOK' /\ ListingOK' /\ Continued(page, cu, st)
    BY <1>c, <2>2, <2>3, ReplyStep
  <2>. HIDE DEF cursor, state
  <2>. QED BY <2>4
<1>4. /\ listing'.got = listing.got \o page
      /\ Range(listing'.got) = G \cup Range(page)
      /\ listing'.cursor = cursor /\ listing'.state = state
      /\ listing'.steady = listing.steady /\ listing'.lost = listing.lost
      /\ IsInjective(page) /\ listing.got \in Seq(Nat)
      /\ listing.steady \subseteq Range(folder)
      /\ UNCHANGED folder
  BY <1>1, <1>3 DEF Continued, Listings, ListingOK
<1>. SUFFICES ASSUME ~ listing.lost PROVE NfsKeeps'
  BY <1>1, <1>3, <1>4 DEF NfsKeeps, FuseKeeps
<1>5. /\ IF last = 0 THEN listing.got = <<>> ELSE last \in Range(folder)
      /\ \A c \in DOMAIN folder : folder[c] = last => Parts(c)
      /\ Doubles(listing.got) \cap listing.steady = {}
  BY <1>1, TwiceIs DEF NfsKeeps
<1>6. /\ last = 0 => a = 0
      /\ \A c \in DOMAIN folder : folder[c] = last => a = Place(c)
  BY <1>1, <1>a, AfterIs
<1>7. \A n \in DOMAIN folder : Place(n) \in Nat \ {0} /\ folder[n] # 0
  BY FolderFacts
<1>. HIDE DEF k, cursor, state
(* Of what is steady, nothing behind the start was listed.                 *)
<1>8. ASSUME NEW n \in DOMAIN folder, folder[n] \in G, folder[n] \in listing.steady
      PROVE  Place(n) <= a
  <2>1. last # 0
    BY <1>5, <1>8 DEF Range
  <2>2. PICK c \in DOMAIN folder : folder[c] = last
    BY <1>5, <2>1 DEF Range
  <2>3. n <= c /\ a = Place(c)
    BY <1>5, <1>6, <1>8, <2>2 DEF Parts
  <2>4. n \in Nat /\ c \in Nat
    BY FolderFacts
  <2>5. n < c \/ n = c
    BY <2>3, <2>4
  <2>. QED BY <1>7, <2>3, <2>5, FolderFacts
(* Everything steady before it was, and so it is up to the end of a reply. *)
<1>9. ASSUME NEW n \in DOMAIN folder, Place(n) <= a + k, folder[n] \in listing.steady
      PROVE  folder[n] \in Range(listing'.got)
  <2>1. CASE a < Place(n)
    BY <1>2, <1>4, <1>9, <2>1 DEF Between
  <2>2. CASE ~ a < Place(n)
    <3>1. last # 0
      BY <1>6, <1>7, <2>2
    <3>2. PICK c \in DOMAIN folder : folder[c] = last
      BY <1>5, <3>1 DEF Range
    <3>3. a = Place(c) /\ Parts(c)
      BY <1>5, <1>6, <3>2
    <3>4. n \in Nat /\ c \in Nat
      BY FolderFacts
    <3>5. n <= c
      BY <2>2, <3>3, <3>4, FolderFacts
    <3>. QED BY <1>4, <1>9, <3>3, <3>5 DEF Parts
  <2>. QED BY <2>1, <2>2
<1>10. Doubles(listing'.got) \cap listing.steady = {}
  <2>. SUFFICES ASSUME NEW x \in Doubles(listing'.got), x \in listing.steady PROVE FALSE
    OBVIOUS
  <2>1. x \in Doubles(listing.got) \/ x \in G \cap Range(page)
    BY <1>2, <1>4, RangeCat
  <2>2. x \in G /\ x \in Range(page)
    BY <1>5, <2>1
  <2>3. PICK n \in Between(a, a + k) : x = folder[n]
    BY <1>2, <2>2
  <2>4. n \in DOMAIN folder /\ a < Place(n)
    BY <2>3 DEF Between
  <2>5. Place(n) <= a
    BY <1>8, <2>2, <2>3, <2>4
  <2>. QED BY <1>7, <2>4, <2>5
<1>11. listing'.state = "done" => listing'.steady \subseteq Range(listing'.got)
  <2>. SUFFICES ASSUME k < max, NEW i \in listing.steady
                PROVE  i \in Range(listing'.got)
    BY <1>4 DEF state
  <2>1. PICK n \in DOMAIN folder : folder[n] = i
    BY <1>4 DEF Range
  <2>. QED BY <1>2, <1>9, <2>1
<1>12. Twice' \cap listing'.steady = {}
  <2>1. Twice' = Doubles(listing'.got)
    BY DEF Twice, Doubles
  <2>. QED BY <1>4, <1>10, <2>1
<1>13. CASE k = 0
  <2>1. /\ listing'.got = listing.got /\ listing'.cursor = last
    BY <1>2, <1>4, <1>13, ConcatEmptySeq DEF cursor
  <2>2. \A c \in DOMAIN folder' : folder'[c] = listing'.cursor => Parts(c)'
    BY <1>4, <1>5, <2>1 DEF Parts
  <2>. QED BY <1>4, <1>5, <1>11, <1>12, <2>1, <2>2 DEF NfsKeeps
<1>14. CASE k # 0
  <2>1. PICK z \in DOMAIN folder : Place(z) = a + k /\ folder[z] = Last(page)
    BY <1>2, <1>14
  <2>2. listing'.cursor = folder[z]
    BY <1>2, <1>4, <1>14, <2>1 DEF cursor
  <2>3. listing'.cursor # 0 /\ listing'.cursor \in Range(folder)
    BY <1>7, <2>2 DEF Range
  <2>4. Parts(z)'
    <3>1. ASSUME NEW n \in DOMAIN folder, folder[n] \in listing.steady,
                 folder[n] \in Range(listing'.got)
          PROVE  n <= z
      <4>1. Place(n) <= a + k
        <5>1. CASE folder[n] \in G
          BY <1>2, <1>7, <1>8, <3>1, <5>1
        <5>2. CASE folder[n] \in Range(page)
          <6>1. PICK m \in Between(a, a + k) : folder[n] = folder[m]
            BY <1>2, <5>2
          <6>2. n = m
            BY <6>1, FolderFacts DEF Between
          <6>. QED BY <6>1, <6>2 DEF Between
        <5>. QED BY <1>4, <3>1, <5>1, <5>2
      <4>2. ~ z < n /\ n \in Nat /\ z \in Nat
        BY <2>1, <4>1, FolderFacts
      <4>. QED BY <4>2
    <3>2. ASSUME NEW n \in DOMAIN folder, n <= z, folder[n] \in listing.steady
          PROVE  folder[n] \in Range(listing'.got)
      <4>1. n < z \/ n = z
        BY <3>2, FolderFacts
      <4>2. Place(n) <= a + k
        BY <1>7, <2>1, <4>1, FolderFacts
      <4>. QED BY <1>9, <3>2, <4>2
    <3>. QED BY <1>4, <3>1, <3>2 DEF Parts
  <2>5. \A c \in DOMAIN folder' : folder'[c] = listing'.cursor => Parts(c)'
    <3>1. \A c \in DOMAIN folder : folder[c] = listing'.cursor => c = z
      BY <2>2, FolderFacts
    <3>. QED BY <1>4, <2>4, <3>1
  <2>. QED BY <1>4, <1>11, <1>12, <2>3, <2>5 DEF NfsKeeps
<1>. QED BY <1>13, <1>14

(* At most one name more.                                                  *)
LEMMA OneMore ==
  ASSUME NEW S, IsFiniteSet(S), NEW X, \A x, y \in X : x = y,
         NEW T, T \subseteq S \cup X
  PROVE  /\ Cardinality(T) \in Nat /\ Cardinality(S) \in Nat
         /\ Cardinality(T) <= Cardinality(S) + 1
<1>1. CASE X = {}
  <2>1. T \in SUBSET S
    BY <1>1
  <2>. QED BY <2>1, FS_Subset, FS_CardinalityType
<1>2. CASE X # {}
  <2>1. PICK x \in X : TRUE
    BY <1>2
  <2>2. T \in SUBSET (S \cup {x})
    BY <2>1
  <2>3. /\ IsFiniteSet(S \cup {x})
        /\ Cardinality(S \cup {x}) = IF x \in S THEN Cardinality(S) ELSE Cardinality(S) + 1
    BY FS_AddElement
  <2>4. IsFiniteSet(T) /\ Cardinality(T) <= Cardinality(S \cup {x})
    BY <2>2, <2>3, FS_Subset
  <2>5. Cardinality(T) \in Nat /\ Cardinality(S) \in Nat
    BY <2>4, FS_CardinalityType
  <2>. QED BY <2>3, <2>4, <2>5
<1>. QED BY <1>1, <1>2

(* When no listing is under way, a change of the directory ends the last.  *)
LEMMA ForgottenListing ==
  ASSUME FolderOK', listing' = Idle
  PROVE  ListInv'
<1>1. Fresh'
  BY DEF Fresh, Idle
<1>2. FuseKeeps' /\ NfsKeeps'
  BY <1>1, FreshKeeps, PTL
<1>3. listing' \in Listings /\ listing'.steady = {} /\ listing'.got = <<>>
  BY DEF Idle, Listings
<1>4. Range(listing'.got) = {}
  BY <1>3 DEF Range
<1>5. ListingOK'
  BY <1>3, <1>4 DEF ListingOK
<1>. QED BY <1>2, <1>5 DEF ListInv

(* An entry that comes moves the names behind it: at most one that was     *)
(* listed comes behind the FUSE cursor, it or the one at the cursor; and   *)
(* nothing steady comes in front of it.                                    *)
LEMMA AddStep ==
  ASSUME ListInv, NEW n \in 1..NameCount, NEW i \in 1..nextEntry, AddEntry(n, i)
  PROVE  ListInv'
<1>. USE DEF ListInv
<1>. DEFINE D == DOMAIN folder
            G == Range(listing.got)
<1>1. /\ n \notin D /\ n \in Nat /\ i \notin Range(folder) /\ i \in Nat \ {0}
      /\ folder' = [m \in D \cup {n} |-> IF m = n THEN i ELSE folder[m]]
      /\ nextEntry \in Nat \ {0} /\ nextEntry' \in Nat \ {0}
      /\ nextEntry' >= nextEntry /\ i < nextEntry' /\ returns' \in 0..MaxReturns
      /\ backend' = backend
  BY AdapterAssumption DEF AddEntry, FolderOK
<1>2. /\ DOMAIN folder' = D \cup {n} /\ folder'[n] = i
      /\ \A m \in D : /\ folder'[m] = folder[m] /\ folder[m] \in 1..(nextEntry - 1)
                      /\ m # n /\ folder[m] # i
  BY <1>1 DEF FolderOK, Range
<1>3. i \in 1..(nextEntry' - 1) /\ 1..(nextEntry - 1) \subseteq 1..(nextEntry' - 1)
  <2>1. /\ nextEntry \in Nat \ {0} /\ nextEntry' \in Nat \ {0}
        /\ nextEntry' >= nextEntry /\ i < nextEntry' /\ i \in Nat \ {0}
    BY <1>1
  <2>2. \A x, y \in Nat \ {0} : x <= y => 1..(x - 1) \subseteq 1..(y - 1)
    OBVIOUS
  <2>3. \A x, y \in Nat \ {0} : x < y => x \in 1..(y - 1)
    OBVIOUS
  <2>4. nextEntry <= nextEntry'
    BY <2>1
  <2>. QED BY ONLY <2>1, <2>2, <2>3, <2>4
<1>4. FolderOK'
  <2>1. \A m \in DOMAIN folder' : folder'[m] \in 1..(nextEntry' - 1)
    BY <1>2, <1>3
  <2>2. IsInjective(folder')
    BY <1>2 DEF FolderOK, IsInjective
  <2>3. DOMAIN folder' \subseteq 1..NameCount
    BY <1>2 DEF FolderOK
  <2>4. folder' \in [DOMAIN folder' -> 1..(nextEntry' - 1)]
    BY <1>1, <1>2, <2>1
  <2>. QED BY <1>1, <2>2, <2>3, <2>4 DEF FolderOK
<1>5. CASE listing.state # "open"
  <2>1. listing' = Idle
    BY <1>5 DEF AddEntry
  <2>. QED BY <1>4, <2>1, ForgottenListing
<1>6. CASE listing.state = "open"
  <2>1. /\ listing' = [listing EXCEPT !.added = @ + 1] /\ listing \in Listings
        /\ listing.steady \subseteq Range(folder) /\ G \subseteq 1..(nextEntry - 1)
    BY <1>6 DEF AddEntry, ListingOK
  <2>2. /\ listing'.got = listing.got /\ listing'.cursor = listing.cursor
        /\ listing'.state = "open" /\ listing'.steady = listing.steady
        /\ listing'.removed = listing.removed /\ listing'.lost = listing.lost
        /\ listing'.added = listing.added + 1 /\ listing' \in Listings
        /\ listing.added \in Nat /\ listing.removed \in Nat /\ listing.cursor \in Nat
    <3>1. /\ listing' = [listing EXCEPT !.added = @ + 1] /\ listing.state = "open"
          /\ listing \in Listings
      BY <1>6, <2>1
    <3>2. /\ listing.cursor \in Nat /\ listing.got \in Seq(Nat)
          /\ listing.steady \in SUBSET Nat /\ listing.added \in Nat
          /\ listing.removed \in Nat /\ listing.lost \in BOOLEAN
      BY ONLY <3>1 DEF Listings
    <3>3. listing' = [state |-> "open", cursor |-> listing.cursor, got |-> listing.got,
                      steady |-> listing.steady, added |-> listing.added + 1,
                      removed |-> listing.removed, lost |-> listing.lost]
      BY ONLY <3>1 DEF Listings
    <3>4. listing' \in Listings
      BY ONLY <3>2, <3>3 DEF Listings
    <3>. QED BY ONLY <3>2, <3>3, <3>4
  <2>3. Range(folder) \subseteq Range(folder')
    BY <1>2 DEF Range
  <2>4. ListingOK'
    BY <1>3, <2>1, <2>2, <2>3 DEF ListingOK
  <2>5. folder'[n] \notin listing.steady
    BY <1>1, <1>2, <2>1
  <2>6. ASSUME NEW m \in D
        PROVE  /\ Place(m) \in Nat /\ m \in Nat
               /\ Place(m)' = IF n <= m THEN Place(m) + 1 ELSE Place(m)
    <3>1. D \subseteq Nat /\ IsFiniteSet(D) /\ Place(m) \in Nat /\ m \in Nat
      BY FolderFacts
    <3>2. Place(m) = Rank(D, m) /\ Place(m)' = Rank(D \cup {n}, m)
      BY <1>2 DEF Place, Rank, UpTo
    <3>. QED BY <1>1, <3>1, <3>2, RankPut
  <2>7. FuseKeeps'
    <3>. SUFFICES ASSUME backend = "fuse" PROVE FuseKeeps'
      BY <1>1 DEF FuseKeeps
    <3>1. /\ listing.cursor = Len(listing.got)
          /\ Cardinality(Skipped) <= listing.removed
          /\ Repeated + Cardinality(Again) <= listing.added
      BY DEF FuseKeeps
    <3>2. /\ IsFiniteSet(Skipped) /\ Cardinality(Skipped) \in Nat
          /\ IsFiniteSet(Again) /\ Cardinality(Again) \in Nat
          /\ Cardinality(G) \in Nat
      BY CountsFinite
    <3>3. Skipped' \subseteq Skipped
      <4>. SUFFICES ASSUME NEW m \in Skipped' PROVE m \in Skipped
        OBVIOUS
      <4>1. /\ m \in DOMAIN folder' /\ Place(m)' <= listing.cursor
            /\ folder'[m] \in listing.steady \ G
        BY <2>2 DEF Skipped
      <4>2. m \in D
        BY <1>2, <2>5, <4>1
      <4>3. Place(m) <= listing.cursor
        BY <2>2, <2>6, <4>1, <4>2
      <4>. QED BY <1>2, <4>1, <4>2, <4>3 DEF Skipped
    <3>4. Cardinality(Skipped') \in Nat /\ Cardinality(Skipped') <= Cardinality(Skipped)
      BY <3>2, <3>3, FS_Subset, FS_CardinalityType
    <3>. DEFINE X == IF Place(n)' > listing.cursor THEN {n}
                     ELSE {m \in D : Place(m) = listing.cursor}
    <3>11. /\ Place(n)' \in Nat
           /\ \A m \in D : n < m => Place(n)' < Place(m)'
      <4>1. (\A x, m \in DOMAIN folder : Place(x) \in Nat /\ (x < m => Place(x) < Place(m)))'
        BY <1>4, PlacesOrdered, PTL
      <4>. QED BY <1>2, <4>1
    <3>5. Again' \subseteq Again \cup X
      <4>. SUFFICES ASSUME NEW m \in Again', m \notin X PROVE m \in Again
        OBVIOUS
      <4>1. /\ m \in DOMAIN folder' /\ Place(m)' > listing.cursor
            /\ folder'[m] \in G
        BY <2>2 DEF Again
      <4>2. m \in D
        BY <1>2, <4>1
      <4>3. Place(m) > listing.cursor
        <5>1. CASE n <= m
          <6>1. n < m
            BY <1>1, <1>2, <2>6, <4>2, <5>1
          <6>2. Place(m)' = Place(m) + 1 /\ Place(m) \in Nat
            BY <2>6, <4>2, <5>1
          <6>3. CASE Place(n)' > listing.cursor
            <7>1. Place(n)' < Place(m)'
              BY <3>11, <4>2, <6>1
            <7>. QED BY <2>2, <3>11, <6>2, <6>3, <7>1
          <6>4. CASE ~ Place(n)' > listing.cursor
            <7>1. Place(m) # listing.cursor
              BY <4>2, <6>4
            <7>. QED BY <2>2, <4>1, <6>2, <7>1
          <6>. QED BY <6>3, <6>4
        <5>2. CASE ~ n <= m
          BY <2>6, <4>1, <4>2, <5>2
        <5>. QED BY <5>1, <5>2
      <4>. QED BY <1>2, <4>1, <4>2, <4>3 DEF Again
    <3>6. \A x, y \in X : x = y
      BY FolderFacts
    <3>7. Cardinality(Again') \in Nat /\ Cardinality(Again') <= Cardinality(Again) + 1
      <4>. HIDE DEF X
      <4>. QED BY <3>2, <3>5, <3>6, OneMore
    <3>8. Repeated' = Repeated /\ Repeated \in Int
      <4>1. Len(listing.got) \in Nat
        BY <2>1 DEF Listings
      <4>. QED BY <2>2, <3>2, <4>1 DEF Repeated
    <3>9. Repeated' + Cardinality(Again') <= listing'.added
      BY <2>2, <3>1, <3>2, <3>7, <3>8
    <3>10. Cardinality(Skipped') <= listing'.removed
      BY <2>2, <3>1, <3>2, <3>4
    <3>. QED BY <2>2, <3>1, <3>9, <3>10 DEF FuseKeeps
  <2>8. NfsKeeps'
    <3>. SUFFICES ASSUME backend = "nfs", ~ listing.lost PROVE NfsKeeps'
      BY <1>1, <2>2 DEF NfsKeeps
    <3>1. /\ IF listing.cursor = 0 THEN listing.got = <<>>
             ELSE listing.cursor \in Range(folder)
          /\ \A c \in D : folder[c] = listing.cursor => Parts(c)
          /\ Twice \cap listing.steady = {}
      BY DEF NfsKeeps
    <3>2. ASSUME NEW c \in DOMAIN folder', folder'[c] = listing.cursor
          PROVE  Parts(c)'
      <4>1. c \in D
        BY <1>1, <1>2, <3>1, <3>2
      <4>2. Parts(c)
        BY <1>2, <3>1, <3>2, <4>1
      <4>. QED BY <1>2, <2>2, <2>5, <4>2 DEF Parts
    <3>3. Twice' \cap listing'.steady = {}
      BY <2>2, <3>1 DEF Twice
    <3>. QED BY <2>2, <2>3, <3>1, <3>2, <3>3 DEF NfsKeeps
  <2>. QED BY <1>4, <2>4, <2>7, <2>8
<1>. QED BY <1>5, <1>6

(* A removed entry lets the names behind it move up: at most one that was  *)
(* not listed comes before the FUSE cursor.                                *)
LEMMA RemoveStep ==
  ASSUME ListInv, NEW n \in 1..NameCount, RemoveEntry(n)
  PROVE  ListInv'
<1>. USE DEF ListInv
<1>. DEFINE D == DOMAIN folder
            G == Range(listing.got)
<1>1. /\ n \in D
      /\ folder' = [m \in D \ {n} |-> folder[m]]
      /\ nextEntry' = nextEntry /\ returns' = returns /\ backend' = backend
  BY DEF RemoveEntry
<1>2. /\ DOMAIN folder' = D \ {n}
      /\ \A m \in D \ {n} : folder'[m] = folder[m] /\ folder[m] # folder[n]
  BY <1>1, FolderFacts
<1>3. FolderOK'
  <2>1. folder' \in [DOMAIN folder' -> 1..(nextEntry' - 1)]
    BY <1>1, <1>2 DEF FolderOK
  <2>2. IsInjective(folder')
    BY <1>2 DEF FolderOK, IsInjective
  <2>. QED BY <1>1, <1>2, <2>1, <2>2 DEF FolderOK
<1>4. CASE listing.state # "open"
  <2>1. listing' = Idle
    BY <1>4 DEF RemoveEntry
  <2>. QED BY <1>3, <2>1, ForgottenListing
<1>5. CASE listing.state = "open"
  <2>1. /\ listing' = [listing EXCEPT !.steady = @ \ {folder[n]},
                                       !.removed = @ + 1,
                                       !.lost = @ \/ folder[n] = listing.cursor]
        /\ listing \in Listings
        /\ listing.steady \subseteq Range(folder) /\ G \subseteq 1..(nextEntry - 1)
    BY <1>5 DEF RemoveEntry, ListingOK
  <2>2. /\ listing'.got = listing.got /\ listing'.cursor = listing.cursor
        /\ listing'.state = "open" /\ listing'.steady = listing.steady \ {folder[n]}
        /\ listing'.removed = listing.removed + 1 /\ listing'.added = listing.added
        /\ listing'.lost = (listing.lost \/ folder[n] = listing.cursor)
        /\ listing' \in Listings
        /\ listing.added \in Nat /\ listing.removed \in Nat /\ listing.cursor \in Nat
    <3>. DEFINE S == listing.steady \ {folder[n]}
                v == listing.lost \/ folder[n] = listing.cursor
    <3>1. S \in SUBSET Nat
      BY <2>1 DEF Listings
    <3>2. v \in BOOLEAN
      OBVIOUS
    <3>. HIDE DEF S, v
    <3>3. listing' = [listing EXCEPT !.steady = S, !.removed = @ + 1, !.lost = v]
      BY <2>1 DEF S, v
    <3>4. /\ listing'.got = listing.got /\ listing'.cursor = listing.cursor
          /\ listing'.state = "open" /\ listing'.steady = S
          /\ listing'.removed = listing.removed + 1 /\ listing'.added = listing.added
          /\ listing.added \in Nat /\ listing.removed \in Nat /\ listing.cursor \in Nat
      BY <1>5, <2>1, <3>3 DEF Listings
    <3>5. listing'.lost = v
      BY <2>1, <3>3 DEF Listings
    <3>6. listing' = [state |-> "open", cursor |-> listing.cursor, got |-> listing.got,
                      steady |-> S, added |-> listing.added,
                      removed |-> listing.removed + 1, lost |-> v]
      BY <1>5, <2>1, <3>3 DEF Listings
    <3>7. /\ listing.cursor \in Nat /\ listing.got \in Seq(Nat)
          /\ listing.added \in Nat /\ listing.removed + 1 \in Nat
      BY <2>1 DEF Listings
    <3>8. listing' \in Listings
      BY <3>1, <3>2, <3>6, <3>7 DEF Listings
    <3>. QED BY <3>4, <3>5, <3>8 DEF S, v
  <2>3. Range(folder) \ {folder[n]} \subseteq Range(folder')
    BY <1>2 DEF Range
  <2>4. ListingOK'
    BY <1>1, <2>1, <2>2, <2>3 DEF ListingOK
  <2>5. ASSUME NEW m \in D \ {n}
        PROVE  /\ Place(m) \in Nat /\ Place(m)' \in Nat
               /\ Place(m) = Place(m)' \/ Place(m) = Place(m)' + 1
    <3>1. D \subseteq Nat /\ IsFiniteSet(D) /\ Place(m) \in Nat /\ m \in Nat
      BY FolderFacts
    <3>2. Place(m) = Rank(D, m) /\ Place(m)' = Rank(D \ {n}, m)
      BY <1>2 DEF Place, Rank, UpTo
    <3>3. Rank(D \ {n}, m) \in Nat
      <4>1. D \ {n} \subseteq Nat /\ IsFiniteSet(D \ {n})
        BY <3>1, FS_RemoveElement
      <4>. QED BY <3>1, <4>1, RankType
    <3>. QED BY <1>1, <3>1, <3>2, <3>3, RankCut
  <2>6. FuseKeeps'
    <3>. SUFFICES ASSUME backend = "fuse" PROVE FuseKeeps'
      BY <1>1 DEF FuseKeeps
    <3>1. /\ listing.cursor = Len(listing.got)
          /\ Cardinality(Skipped) <= listing.removed
          /\ Repeated + Cardinality(Again) <= listing.added
      BY DEF FuseKeeps
    <3>2. /\ IsFiniteSet(Skipped) /\ Cardinality(Skipped) \in Nat
          /\ IsFiniteSet(Again) /\ Cardinality(Again) \in Nat
          /\ Cardinality(G) \in Nat
      BY CountsFinite
    <3>3. Again' \subseteq Again
      <4>. SUFFICES ASSUME NEW m \in Again' PROVE m \in Again
        OBVIOUS
      <4>1. /\ m \in D \ {n} /\ Place(m)' > listing.cursor /\ folder'[m] \in G
        BY <1>2, <2>2 DEF Again
      <4>2. Place(m) > listing.cursor
        BY <2>2, <2>5, <4>1
      <4>. QED BY <1>2, <4>1, <4>2 DEF Again
    <3>4. Cardinality(Again') \in Nat /\ Cardinality(Again') <= Cardinality(Again)
      BY <3>2, <3>3, FS_Subset, FS_CardinalityType
    <3>. DEFINE X == {m \in D : Place(m) = listing.cursor + 1}
    <3>5. Skipped' \subseteq Skipped \cup X
      <4>. SUFFICES ASSUME NEW m \in Skipped', m \notin X PROVE m \in Skipped
        OBVIOUS
      <4>1. /\ m \in D \ {n} /\ Place(m)' <= listing.cursor
            /\ folder'[m] \in listing.steady \ G
        BY <1>2, <2>2 DEF Skipped
      <4>2. Place(m) <= listing.cursor
        BY <2>2, <2>5, <4>1
      <4>. QED BY <1>2, <4>1, <4>2 DEF Skipped
    <3>6. \A x, y \in X : x = y
      BY FolderFacts
    <3>7. Cardinality(Skipped') \in Nat /\ Cardinality(Skipped') <= Cardinality(Skipped) + 1
      <4>. HIDE DEF X
      <4>. QED BY <3>2, <3>5, <3>6, OneMore
    <3>8. Repeated' = Repeated /\ Repeated \in Int
      <4>1. Len(listing.got) \in Nat
        BY <2>1 DEF Listings
      <4>. QED BY <2>2, <3>2, <4>1 DEF Repeated
    <3>9. Repeated' + Cardinality(Again') <= listing'.added
      BY <2>2, <3>1, <3>2, <3>4, <3>8
    <3>10. Cardinality(Skipped') <= listing'.removed
      BY <2>2, <3>1, <3>2, <3>7
    <3>. QED BY <2>2, <3>1, <3>9, <3>10 DEF FuseKeeps
  <2>7. NfsKeeps'
    <3>. SUFFICES ASSUME backend = "nfs", ~ listing'.lost PROVE NfsKeeps'
      BY <1>1 DEF NfsKeeps
    <3>1. /\ IF listing.cursor = 0 THEN listing.got = <<>>
             ELSE listing.cursor \in Range(folder)
          /\ \A c \in D : folder[c] = listing.cursor => Parts(c)
          /\ Twice \cap listing.steady = {} /\ folder[n] # listing.cursor
      BY <2>2 DEF NfsKeeps
    <3>2. ASSUME NEW c \in DOMAIN folder', folder'[c] = listing.cursor
          PROVE  Parts(c)'
      <4>1. c \in D /\ Parts(c)
        BY <1>2, <3>1, <3>2
      <4>. QED BY <1>2, <2>2, <4>1 DEF Parts
    <3>3. listing'.cursor # 0 => listing'.cursor \in Range(folder')
      BY <2>2, <2>3, <3>1
    <3>4. Twice' \cap listing'.steady = {}
      BY <2>2, <3>1 DEF Twice
    <3>. QED BY <2>2, <3>1, <3>2, <3>3, <3>4 DEF NfsKeeps
  <2>. QED BY <1>3, <2>4, <2>6, <2>7
<1>. QED BY <1>4, <1>5

-----------------------------------------------------------------------------
(* The steps of the files leave the directory alone, and the other way     *)
(* round.                                                                  *)
IInv == FileInv /\ ListInv

LEMMA InvInit == Init => IInv
<1>. SUFFICES ASSUME Init PROVE IInv
  OBVIOUS
<1>. USE AdapterAssumption
<1>1. FilesOK
  <2>1. openFiles \in [1..(nextFh - 1) -> Inodes \cup {NoFile}] /\ nextFh = 1
    BY DEF Init
  <2>2. nextFh \in 1..(MaxFh + 1)
    BY <2>1
  <2>3. /\ stored \in [Inodes -> 0..MaxChanges] /\ queued = stored
        /\ \A i \in Inodes : queued[i] <= stored[i]
    BY DEF Init
  <2>. QED BY <2>1, <2>2, <2>3 DEF Init, FilesOK
<1>2. QueuedAtRest
  BY DEF Init, QueuedAtRest
<1>3. FolderOK
  BY DEF Init, FolderOK, IsInjective
<1>4. Fresh
  BY DEF Init, Fresh, Idle
<1>5. FuseKeeps /\ NfsKeeps
  BY <1>3, <1>4, FreshKeeps
<1>6. ListingOK
  <2>1. listing \in Listings /\ listing.steady = {} /\ listing.got = <<>>
    BY DEF Init, Idle, Listings
  <2>2. Range(listing.got) = {}
    BY <2>1 DEF Range
  <2>. QED BY <2>1, <2>2 DEF ListingOK
<1>. QED BY <1>1, <1>2, <1>3, <1>5, <1>6 DEF IInv, FileInv, ListInv

LEMMA FilesAlone ==
  ASSUME FileInv, UNCHANGED <<backend, files>>
  PROVE  FileInv'
BY DEF FileInv, FilesOK, QueuedAtRest, Fuse, files

LEMMA ListAlone ==
  ASSUME ListInv, UNCHANGED <<backend, directory>>
  PROVE  ListInv'
BY DEF ListInv, FolderOK, ListingOK, FuseKeeps, NfsKeeps, Parts, Skipped, Again,
       Place, Repeated, Twice, directory

LEMMA InvStep == IInv /\ [Next]_vars => IInv'
<1>. SUFFICES ASSUME IInv, [Next]_vars PROVE IInv'
  OBVIOUS
<1>. USE DEF IInv
<1>1. CASE FileStep
  <2>1. FileInv'
    BY <1>1, OpenStep, WriteStep, CloseStep, OtherFileStep DEF FileStep
  <2>2. UNCHANGED <<backend, directory>>
    BY <1>1 DEF FileStep, Open, SetSize, NfsWrite, Dirty, Write, Flush, Release, Destroy
  <2>. QED BY <2>1, <2>2, ListAlone
<1>2. CASE ListStep
  <2>1. ListInv'
    BY <1>2, StartStep, FuseStep, NfsStep DEF ListStep
  <2>2. UNCHANGED <<backend, files>>
    BY <1>2 DEF ListStep, StartListing, FuseReadDir, NfsReadDir
  <2>. QED BY <2>1, <2>2, FilesAlone
<1>3. CASE \E n \in 1..NameCount :
             (\E i \in 1..nextEntry : AddEntry(n, i)) \/ RemoveEntry(n)
  <2>1. ListInv'
    BY <1>3, AddStep, RemoveStep
  <2>2. UNCHANGED <<backend, files>>
    BY <1>3 DEF AddEntry, RemoveEntry
  <2>. QED BY <2>1, <2>2, FilesAlone
<1>4. CASE UNCHANGED vars
  BY <1>4, FilesAlone, ListAlone DEF vars
<1>. QED BY <1>1, <1>2, <1>3, <1>4 DEF Next

(* The invariant of the files and of the listing, which the others follow  *)
(* from.                                                                   *)
THEOREM Invariance == Spec => []IInv
BY InvInit, InvStep, PTL DEF Spec

(* open_files, the directory and the listing keep their types, no file has *)
(* more in the queue than was stored, and no listing gives what was never  *)
(* there.                                                                  *)
THEOREM TypeCorrect == Spec => []TypeOK
<1>1. IInv => TypeOK
  BY DEF IInv, FileInv, ListInv, FilesOK, FolderOK, ListingOK, TypeOK
<1>. QED BY <1>1, Invariance, PTL

(* What was written through FUSE is in the push queue once nobody has the  *)
(* file open, whichever handles, pages and sizes came in between.          *)
THEOREM WrittenIsQueued == Spec => []QueuedAtRest
<1>1. IInv => QueuedAtRest
  BY DEF IInv, FileInv
<1>. QED BY <1>1, Invariance, PTL

(* A FUSE listing misses and repeats at most as much as the directory      *)
(* changed; an NFS listing gives what stayed once, unless the entry it     *)
(* stands at was removed or renamed.                                       *)
THEOREM PlaceKept == Spec => []ListingKeepsPlace
<1>1. ASSUME IInv
      PROVE  ListingKeepsPlace
  <2>. FilesOK /\ FolderOK /\ ListingOK /\ FuseKeeps /\ NfsKeeps
    BY <1>1 DEF IInv, FileInv, ListInv
  <2>1. CASE backend = "fuse"
    <3>1. /\ Cardinality(Skipped) <= listing.removed
          /\ Repeated + Cardinality(Again) <= listing.added
          /\ listing.state = "done" => Cardinality(DOMAIN folder) <= listing.cursor
      BY <2>1 DEF FuseKeeps
    <3>2. /\ IsFiniteSet(Skipped) /\ Cardinality(Again) \in Nat
          /\ Cardinality(Range(listing.got)) \in Nat
      BY CountsFinite
    <3>3. /\ Len(listing.got) \in Nat /\ listing.added \in Nat
          /\ listing.removed \in Nat /\ listing.cursor \in Nat
      BY DEF ListingOK, Listings
    <3>4. Repeated <= listing.added
      <4>1. Repeated \in Int
        BY <3>2, <3>3 DEF Repeated
      <4>. QED BY <3>1, <3>2, <3>3, <4>1
    <3>5. listing.state = "done" => Missed <= listing.removed
      <4>. SUFFICES ASSUME listing.state = "done" PROVE Missed <= listing.removed
        OBVIOUS
      <4>. DEFINE M == {folder[n] : n \in Skipped}
      <4>1. \A n \in DOMAIN folder : Place(n) <= listing.cursor
        BY <3>1, <3>3, FolderFacts
      <4>2. listing.steady \ Range(listing.got) = M
        BY <4>1 DEF Skipped, ListingOK, Range
      <4>3. Cardinality(M) = Cardinality(Skipped)
        <5>1. \A n, m \in Skipped : folder[n] = folder[m] => n = m
          BY FolderFacts DEF Skipped
        <5>. QED BY <3>2, <5>1, ImageCount
      <4>. QED BY <3>1, <4>2, <4>3 DEF Missed
    <3>. QED BY <2>1, <3>4, <3>5 DEF ListingKeepsPlace
  <2>2. CASE backend # "fuse"
    <3>1. backend = "nfs"
      BY <2>2, AdapterAssumption DEF FilesOK
    <3>2. ASSUME ~ listing.lost
          PROVE  /\ Twice \cap listing.steady = {}
                 /\ listing.state = "done" => listing.steady \subseteq Range(listing.got)
      BY <3>1, <3>2 DEF NfsKeeps
    <3>3. ~ listing.lost /\ listing.state = "done" => Missed = 0
      <4>. SUFFICES ASSUME listing.state = "done", ~ listing.lost PROVE Missed = 0
        OBVIOUS
      <4>1. listing.steady \ Range(listing.got) = {}
        BY <3>2
      <4>. QED BY <4>1, FS_EmptySet DEF Missed
    <3>. QED BY <2>2, <3>2, <3>3 DEF ListingKeepsPlace
  <2>. QED BY <2>1, <2>2
<1>. QED BY <1>1, Invariance, PTL
=============================================================================
