---------------------------- MODULE DbFileProofs ----------------------------
(***************************************************************************)
(* The chunks of a file hold a vector of bytes, for every chunk size, file *)
(* size and alphabet: an undamaged file is exactly the chunks of its size  *)
(* (ChunksContiguous), a read at any offset returns what is there          *)
(* (ReadsRight), and every operation, complete or cut short by a kill, is  *)
(* an operation of FlatFile on the joined chunks (FileImplementsFlat).     *)
(*                                                                         *)
(* Contiguous is inductive.  The proof counts in offsets: Start(i) is      *)
(* where chunk i begins, Fits says of Contiguous that the rows are those   *)
(* that begin before size, and At(k) is the byte at offset k.  One group   *)
(* of lemmas says what joining rows gives (FlattenEven, JoinedIs: chunks   *)
(* that are all full but the last put byte p of row i at Start(i) + p),    *)
(* the next what Body and Read are in terms of At, the third what each     *)
(* operation makes of the rows and of At.                                  *)
(***************************************************************************)
EXTENDS DbFile, SequenceTheorems, WellFoundedInduction, TLAPS

(* Induction, for a set instead of an operator.                            *)
LEMMA Induction ==
  ASSUME NEW T, 0 \in T, \A n \in Nat : n \in T => n + 1 \in T
  PROVE  Nat \subseteq T
<1> SUFFICES ASSUME ~ Nat \subseteq T PROVE FALSE
  OBVIOUS
<1> DEFINE U == Nat \ T
<1>1. PICK x \in U : \A y \in U : ~ (<<y, x>> \in OpToRel(<, Nat))
  BY WFMin, NatLessThanWellFounded, Zenon
<1>2. x \in Nat /\ x # 0 /\ x \notin T
  OBVIOUS
<1>3. x - 1 \in Nat /\ x - 1 < x /\ (x - 1) + 1 = x
  BY <1>2
<1>4. <<x - 1, x>> \in OpToRel(<, Nat)
  BY <1>2, <1>3 DEF OpToRel
<1>5. x - 1 \in T
  BY <1>1, <1>3, <1>4
<1>6. QED
  BY <1>2, <1>3, <1>5

(* What flatten[i] of FlattenSeq is: the function exists.                  *)
Flattening(s, g) ==
  g = [i \in 1..Len(s) |-> IF i = 1 THEN s[i] ELSE g[i - 1] \o s[i]]

LEMMA FlattenIs ==
  ASSUME NEW s, Len(s) \in Nat \ {0}, NEW g, Flattening(s, g)
  PROVE  \E f : Flattening(s, f) /\ FlattenSeq(s) = f[Len(s)]
<1> DEFINE flatten[i \in 1..Len(s)] == IF i = 1 THEN s[i] ELSE flatten[i - 1] \o s[i]
<1>1. FlattenSeq(s) = flatten[Len(s)]
  BY DEF FlattenSeq
<1>2. Flattening(s, flatten)
  BY DEF Flattening
<1> HIDE DEF flatten
<1>3. QED
  BY <1>1, <1>2
-----------------------------------------------------------------------------
(* Offsets of chunks. *)
Start(i) == i * ChunkSize

LEMMA StartTyped == \A i \in Int : Start(i) \in Int
BY DbFileAssumption DEF Start

LEMMA StartNext ==
  Start(0) = 0 /\ \A i, j \in Int : j = i + 1 => Start(j) = Start(i) + ChunkSize
BY DbFileAssumption DEF Start

LEMMA StartOrder == \A i, j \in Int : i < j => Start(i) + ChunkSize <= Start(j)
<1> SUFFICES ASSUME NEW i \in Int, NEW j \in Int, i < j
             PROVE  Start(i) + ChunkSize <= Start(j)
  OBVIOUS
<1> DEFINE k == j - i - 1
<1>1. k \in Nat /\ j = i + 1 + k
  OBVIOUS
<1> HIDE DEF k
<1>2. k * ChunkSize \in Nat
  BY <1>1, DbFileAssumption
<1>3. Start(j) = Start(i) + ChunkSize + k * ChunkSize
  BY <1>1, DbFileAssumption DEF Start
<1>4. QED
  BY <1>2, <1>3, StartTyped, DbFileAssumption

LEMMA StartNat == \A i \in Nat : Start(i) \in Nat
<1> SUFFICES ASSUME NEW i \in Nat PROVE Start(i) \in Nat
  OBVIOUS
<1>1. CASE i = 0
  BY <1>1, StartNext
<1>2. CASE 0 < i
  <2>1. Start(0) + ChunkSize <= Start(i) /\ Start(0) = 0 /\ Start(i) \in Int
    BY <1>2, StartOrder, StartNext, StartTyped
  <2>2. QED
    BY <2>1, DbFileAssumption
<1>3. QED
  BY <1>1, <1>2

LEMMA StartAbove == \A i \in Nat : i <= Start(i)
<1> SUFFICES ASSUME NEW i \in Nat PROVE i <= Start(i)
  OBVIOUS
<1>1. CASE i = 0
  BY <1>1, StartNext
<1>2. CASE i # 0
  BY <1>2, DbFileAssumption DEF Start
<1>3. QED
  BY <1>1, <1>2

LEMMA Division ==
  ASSUME NEW a \in Nat, NEW c \in Nat \ {0}
  PROVE  a \div c \in Nat /\ a % c \in 0..(c - 1) /\ a = c * (a \div c) + (a % c)
<1>1. a \div c \in Nat
  BY SMT
<1>2. a % c \in 0..(c - 1)
  BY SMT
<1>3. a = c * (a \div c) + (a % c)
  BY SMT
<1>4. QED
  BY <1>1, <1>2, <1>3

(* The chunk of a byte: i is at most the chunk of byte a exactly if it     *)
(* starts at or before a.                                                  *)
LEMMA ChunkOf ==
  ASSUME NEW a \in Nat
  PROVE  /\ a \div ChunkSize \in Nat
         /\ a % ChunkSize = a - Start(a \div ChunkSize)
         /\ Start(a \div ChunkSize) <= a
         /\ a < Start(a \div ChunkSize) + ChunkSize
         /\ \A i \in Int : i <= a \div ChunkSize <=> Start(i) <= a
<1> DEFINE q == a \div ChunkSize
           r == a % ChunkSize
<1>1. q \in Nat /\ r \in 0..(ChunkSize - 1) /\ a = ChunkSize * q + r
  BY Division, DbFileAssumption
<1> HIDE DEF q, r
<1>2. ChunkSize * q = Start(q) /\ Start(q) \in Int
  BY <1>1, StartTyped, DbFileAssumption DEF Start
<1>3. Start(q) <= a /\ a < Start(q) + ChunkSize /\ r = a - Start(q)
  <2>1. a = Start(q) + r
    BY <1>1, <1>2
  <2>2. QED
    BY <2>1, <1>1, <1>2, DbFileAssumption
<1>4. ASSUME NEW i \in Int PROVE i <= q <=> Start(i) <= a
  <2>1. CASE i < q
    BY <2>1, <1>1, <1>3, StartOrder, StartTyped, DbFileAssumption
  <2>2. CASE i = q
    BY <2>2, <1>3, <1>1
  <2>3. CASE q < i
    BY <2>3, <1>1, <1>3, StartOrder, StartTyped, DbFileAssumption
  <2>4. QED
    BY <2>1, <2>2, <2>3, <1>1
<1>5. QED
  BY <1>1, <1>3, <1>4 DEF q, r
-----------------------------------------------------------------------------
LEMMA FlattenExists ==
  ASSUME NEW B, NEW s \in Seq(Seq(B))
  PROVE  \E g : Flattening(s, g)
<1> DEFINE T == {n \in Nat : n <= Len(s) =>
                   \E g \in [1..n -> Seq(B)] : \A i \in 1..n :
                     g[i] = IF i = 1 THEN s[i] ELSE g[i - 1] \o s[i]}
<1>0. Len(s) \in Nat
  BY LenProperties
<1>1. 0 \in T
  <2> DEFINE none == [i \in 1..0 |-> <<>>]
  <2>1. 1..0 = {}
    OBVIOUS
  <2>2. none \in [1..0 -> Seq(B)]
    BY <2>1, EmptySeq
  <2> HIDE DEF none
  <2>3. \A i \in 1..0 : none[i] = IF i = 1 THEN s[i] ELSE none[i - 1] \o s[i]
    BY <2>1
  <2>4. QED
    BY <2>2, <2>3
<1>2. ASSUME NEW n \in Nat, n \in T PROVE n + 1 \in T
  <2> SUFFICES ASSUME n + 1 <= Len(s)
               PROVE  \E g \in [1..(n + 1) -> Seq(B)] : \A i \in 1..(n + 1) :
                        g[i] = IF i = 1 THEN s[i] ELSE g[i - 1] \o s[i]
    <3>1. n + 1 \in Nat
      OBVIOUS
    <3>2. QED
      BY <3>1, Zenon
  <2>1. PICK g \in [1..n -> Seq(B)] : \A i \in 1..n :
               g[i] = IF i = 1 THEN s[i] ELSE g[i - 1] \o s[i]
    <3>1. n <= Len(s)
      BY <1>0
    <3>2. QED
      BY <1>2, <3>1
  <2> DEFINE last == IF n = 0 THEN s[1] ELSE g[n] \o s[n + 1]
             h == [i \in 1..(n + 1) |-> IF i <= n THEN g[i] ELSE last]
  <2>2. s[n + 1] \in Seq(B)
    BY <1>0, ElementOfSeq
  <2>3. last \in Seq(B)
    BY <2>1, <2>2, ConcatProperties
  <2> HIDE DEF last
  <2>4. h \in [1..(n + 1) -> Seq(B)]
    BY <2>3
  <2> HIDE DEF h
  <2>5. ASSUME NEW i \in 1..(n + 1)
        PROVE  h[i] = IF i = 1 THEN s[i] ELSE h[i - 1] \o s[i]
    <3>1. CASE i <= n
      <4>1. h[i] = g[i] /\ (i # 1 => h[i - 1] = g[i - 1])
        BY <3>1 DEF h
      <4>2. i \in 1..n
        BY <3>1
      <4>3. CASE i = 1
        BY <4>1, <4>2, <4>3, <2>1
      <4>4. CASE i # 1
        <5>1. g[i] = g[i - 1] \o s[i]
          BY <4>2, <4>4, <2>1
        <5>2. QED
          BY <4>1, <4>4, <5>1, Zenon
      <4>5. QED
        BY <4>3, <4>4
    <3>2. CASE i = n + 1
      <4>1. h[i] = last /\ (i # 1 => h[i - 1] = g[n] /\ n # 0) /\ (i = 1 => n = 0)
        BY <3>2 DEF h
      <4>2. CASE n = 0
        BY <4>1, <4>2, <3>2 DEF last
      <4>3. CASE n # 0
        <5>1. i # 1 /\ last = g[n] \o s[i] /\ h[i - 1] = g[n]
          BY <4>3, <4>1, <3>2 DEF last
        <5>2. QED
          BY <4>1, <5>1, Zenon
      <4>4. QED
        BY <4>2, <4>3
    <3>3. QED
      BY <3>1, <3>2
  <2>6. QED
    BY <2>4, <2>5
<1> HIDE DEF T
<1>3. Len(s) \in T
  BY <1>1, <1>2, Induction, LenProperties
<1>4. PICK g \in [1..Len(s) -> Seq(B)] : \A i \in 1..Len(s) :
             g[i] = IF i = 1 THEN s[i] ELSE g[i - 1] \o s[i]
  BY <1>3 DEF T
<1>5. g = [i \in 1..Len(s) |-> IF i = 1 THEN s[i] ELSE g[i - 1] \o s[i]]
  BY <1>4
<1>6. QED
  BY <1>5 DEF Flattening

(* Joined sequences over B are one. *)
LEMMA FlattenTyped ==
  ASSUME NEW B, NEW s \in Seq(Seq(B))
  PROVE  FlattenSeq(s) \in Seq(B)
<1>1. CASE Len(s) = 0
  <2>1. s = <<>>
    BY <1>1, EmptySeq
  <2>2. QED
    BY <1>1, <2>1, EmptySeq DEF FlattenSeq
<1>2. CASE Len(s) # 0
  <2>1. Len(s) \in Nat \ {0}
    BY <1>2, LenProperties
  <2>2. PICK f : Flattening(s, f) /\ FlattenSeq(s) = f[Len(s)]
    BY <2>1, FlattenExists, FlattenIs
  <2> DEFINE T == {n \in Nat : n + 1 <= Len(s) => f[n + 1] \in Seq(B)}
  <2>3. \A i \in 1..Len(s) : f[i] = IF i = 1 THEN s[i] ELSE f[i - 1] \o s[i]
    BY <2>2 DEF Flattening
  <2>4. 0 \in T
    BY <2>1, <2>3, ElementOfSeq
  <2>5. ASSUME NEW n \in Nat, n \in T PROVE n + 1 \in T
    <3> SUFFICES ASSUME n + 2 <= Len(s) PROVE f[n + 2] \in Seq(B)
      OBVIOUS
    <3>1. f[n + 1] \in Seq(B) /\ s[n + 2] \in Seq(B)
      BY <2>5, <2>1, ElementOfSeq
    <3>2. n + 2 \in 1..Len(s) /\ n + 2 # 1 /\ (n + 2) - 1 = n + 1
      BY <2>1
    <3>3. f[n + 2] = f[n + 1] \o s[n + 2]
      BY <2>3, <3>2
    <3>4. f[n + 2] \in Seq(B)
      BY <3>1, <3>3, ConcatProperties
    <3>5. QED
      BY <3>4
  <2> HIDE DEF T
  <2>6. Nat \subseteq T
    BY <2>4, <2>5, Induction
  <2>7. Len(s) - 1 \in Nat /\ (Len(s) - 1) + 1 = Len(s)
    BY <2>1
  <2>8. f[Len(s)] \in Seq(B)
    BY <2>6, <2>7 DEF T
  <2>9. QED
    BY <2>2, <2>8
<1>3. QED
  BY <1>1, <1>2

(* Joined sequences of ChunkSize elements, but for the last one: where an  *)
(* element goes.                                                           *)
LEMMA FlattenEven ==
  ASSUME NEW B, NEW s \in Seq(Seq(B)), NEW last \in Nat, Len(s) = last + 1,
         \A i \in 1..last : Len(s[i]) = ChunkSize
  PROVE  /\ Len(FlattenSeq(s)) = Start(last) + Len(s[last + 1])
         /\ \A i \in 0..last : \A p \in 1..Len(s[i + 1]) :
              FlattenSeq(s)[Start(i) + p] = s[i + 1][p]
<1>1. \A i \in 1..(last + 1) : s[i] \in Seq(B) /\ Len(s[i]) \in Nat
  BY LenProperties, ElementOfSeq
<1>2. PICK f : Flattening(s, f) /\ FlattenSeq(s) = f[last + 1]
  <2>1. last + 1 \in Nat \ {0}
    OBVIOUS
  <2>2. PICK g : Flattening(s, g)
    BY FlattenExists
  <2>3. QED
    BY <2>1, <2>2, FlattenIs
<1>3. \A i \in 1..(last + 1) : f[i] = IF i = 1 THEN s[i] ELSE f[i - 1] \o s[i]
  BY <1>2 DEF Flattening
<1> DEFINE Placed(n) ==
             /\ f[n + 1] \in Seq(B) /\ Len(f[n + 1]) = Start(n) + Len(s[n + 1])
             /\ \A i \in 0..n : \A p \in 1..Len(s[i + 1]) :
                  f[n + 1][Start(i) + p] = s[i + 1][p]
           T == {n \in Nat : n <= last => Placed(n)}
<1> HIDE DEF Placed
<1>4. Placed(0)
  <2>1. f[1] = s[1] /\ s[1] \in Seq(B) /\ Len(s[1]) \in Nat
    BY <1>1, <1>3
  <2>2. 0 + 1 = 1 /\ Start(0) = 0 /\ 0 + Len(s[1]) = Len(s[1])
    BY <2>1, StartNext
  <2>3. ASSUME NEW i \in 0..0, NEW p \in 1..Len(s[i + 1])
        PROVE  f[1][Start(i) + p] = s[i + 1][p]
    <3>1. i = 0 /\ i + 1 = 1
      OBVIOUS
    <3>2. Start(i) + p = p
      BY <3>1, <2>1, <2>2
    <3>3. QED
      BY <3>1, <3>2, <2>1
  <2>4. QED
    BY <2>1, <2>2, <2>3 DEF Placed
<1>5. ASSUME NEW n \in Nat, n + 1 <= last, Placed(n) PROVE Placed(n + 1)
  <2> DEFINE m == n + 1
             here == s[n + 2]
  <2>0. m = n + 1 /\ m \in Nat /\ here = s[n + 2]
    OBVIOUS
  <2> HIDE DEF m, here
  <2>1. m \in 1..last /\ m + 1 = n + 2 /\ n + 2 \in 1..(last + 1) /\ (n + 2) - 1 = m /\ n + 2 # 1
    BY <1>5, <2>0
  <2>2. /\ Len(s[m]) = ChunkSize
        /\ here \in Seq(B) /\ Len(here) \in Nat
        /\ f[n + 2] = f[m] \o here
    BY <2>0, <2>1, <1>1, <1>3
  <2>3. Start(m) = Start(n) + ChunkSize /\ Start(n) \in Nat /\ Start(m) \in Nat
    <3>1. n \in Int /\ m \in Int /\ m = n + 1
      BY <2>0
    <3>2. Start(m) = Start(n) + ChunkSize
      BY <3>1, StartNext
    <3>3. QED
      BY <2>0, <3>2, StartNat
  <2>4. Len(f[m]) = Start(m) /\ f[m] \in Seq(B)
    BY <1>5, <2>0, <2>2, <2>3 DEF Placed
  <2>5. /\ f[n + 2] \in Seq(B)
        /\ Len(f[n + 2]) = Start(m) + Len(here)
        /\ \A k \in 1..(Start(m) + Len(here)) : f[n + 2][k] =
             IF k <= Start(m) THEN f[m][k] ELSE here[k - Start(m)]
    <3>1. f[m] \o here \in Seq(B)
      BY <2>2, <2>4, ConcatProperties
    <3>2. Len(f[m] \o here) = Len(f[m]) + Len(here)
      BY <2>2, <2>4, ConcatProperties
    <3>3. \A k \in 1..(Start(m) + Len(here)) : (f[m] \o here)[k] =
             IF k <= Start(m) THEN f[m][k] ELSE here[k - Start(m)]
      <4>1. \A k \in 1..(Len(f[m]) + Len(here)) : (f[m] \o here)[k] =
               IF k <= Len(f[m]) THEN f[m][k] ELSE here[k - Len(f[m])]
        BY ONLY <2>2, <2>4, ConcatProperties
      <4>2. QED
        BY ONLY <4>1, <2>4
    <3>4. Len(f[m] \o here) = Start(m) + Len(here)
      BY <2>4, <3>2
    <3> DEFINE joined == f[m] \o here
    <3> HIDE DEF joined
    <3>5. /\ joined \in Seq(B) /\ Len(joined) = Start(m) + Len(here)
          /\ \A k \in 1..(Start(m) + Len(here)) : joined[k] =
               IF k <= Start(m) THEN f[m][k] ELSE here[k - Start(m)]
      BY <3>1, <3>3, <3>4 DEF joined
    <3>6. f[n + 2] = joined
      BY <2>2 DEF joined
    <3>7. QED
      BY ONLY <3>5, <3>6
  <2>6. ASSUME NEW i \in 0..m, NEW p \in 1..Len(s[i + 1])
        PROVE  f[n + 2][Start(i) + p] = s[i + 1][p]
    <3> DEFINE k == Start(i) + p
    <3>1. i \in Nat /\ Start(i) \in Nat /\ i + 1 \in 1..(last + 1)
      <4>1. i \in Nat /\ i <= last
        BY <2>1
      <4>2. QED
        BY <4>1, StartNat
    <3>2. Len(s[i + 1]) \in Nat
      BY <3>1, <1>1
    <3>3. p \in Nat /\ 1 <= p /\ p <= Len(s[i + 1])
      BY <3>2
    <3>4. CASE i = m
      <4>1. s[i + 1] = here
        BY <3>4, <2>0, <2>1
      <4>2. k = Start(m) + p
        BY <3>4
      <4> HIDE DEF k
      <4>3. p \in Nat /\ 1 <= p /\ p <= Len(here) /\ Len(here) \in Nat /\ Start(m) \in Nat
        BY <4>1, <3>3, <2>2, <2>3
      <4>4. k \in 1..(Start(m) + Len(here)) /\ ~ k <= Start(m) /\ k - Start(m) = p
        BY ONLY <4>2, <4>3
      <4>5. f[n + 2][k] = here[p]
        BY <4>4, <2>5
      <4>6. QED
        BY <4>1, <4>5 DEF k
    <3>5. CASE i # m
      <4>1. i \in 0..n /\ i + 1 \in 1..last /\ i < m
        BY <3>5, <2>0, <2>1
      <4>2. Len(s[i + 1]) = ChunkSize /\ Start(i) + ChunkSize <= Start(m)
        BY <4>1, <2>1, StartOrder
      <4>3. f[m][k] = s[i + 1][p]
        BY <1>5, <2>0, <4>1 DEF Placed
      <4>4. k = Start(i) + p
        OBVIOUS
      <4> HIDE DEF k
      <4>5. p \in Nat /\ 1 <= p /\ p <= ChunkSize /\ ChunkSize \in Nat
        BY <4>2, <3>3, DbFileAssumption
      <4>6. Start(i) \in Nat /\ Start(m) \in Nat /\ Len(here) \in Nat
        BY <3>1, <2>2, <2>3
      <4>7. 1 <= k /\ k <= Start(m) /\ k \in Nat
        BY ONLY <4>2, <4>4, <4>5, <4>6
      <4>8. k \in 1..(Start(m) + Len(here)) /\ k <= Start(m)
        BY ONLY <4>6, <4>7
      <4>9. f[n + 2][k] = s[i + 1][p]
        BY <4>8, <4>3, <2>5
      <4>10. QED
        BY <4>9 DEF k
    <3>6. QED
      BY <3>4, <3>5
  <2>7. m = n + 1 /\ here = s[m + 1] /\ m + 1 = n + 2
    BY <2>0, <2>1
  <2>8. Placed(m)
    BY <2>5, <2>6, <2>7 DEF Placed
  <2>9. QED
    BY <2>7, <2>8
<1>6. 0 \in T
  BY <1>4
<1>7. ASSUME NEW n \in Nat, n \in T PROVE n + 1 \in T
  BY <1>5, <1>7
<1>8. Nat \subseteq T
  <2> HIDE DEF T
  <2>1. QED
    BY <1>6, <1>7, Induction
<1>9. Placed(last)
  BY <1>8
<1>10. QED
  BY <1>2, <1>9 DEF Placed
-----------------------------------------------------------------------------
(* Contiguous, in terms of offsets. *)
Fits ==
  /\ DOMAIN chunk = {i \in Nat : Start(i) < size}
  /\ \A i \in DOMAIN chunk : Len(chunk[i]) = AtMost(ChunkSize, size - Start(i))

LEMMA ContiguousFits ==
  ASSUME TypeOK
  PROVE  Contiguous <=> (~ torn => Fits)
<1> DEFINE a == size + ChunkSize - 1
           last == (a \div ChunkSize) - 1
<1>1. a \in Nat /\ size \in Nat
  BY DbFileAssumption DEF TypeOK
<1>2. ASSUME NEW i \in Nat PROVE i <= last <=> Start(i) < size
  <2>1. /\ a \div ChunkSize \in Int
        /\ i + 1 <= a \div ChunkSize <=> Start(i + 1) <= a
    BY <1>1, ChunkOf
  <2>2. Start(i + 1) = Start(i) + ChunkSize /\ Start(i) \in Nat
    <3>1. i + 1 \in Int /\ i \in Int
      OBVIOUS
    <3>2. QED
      BY <3>1, StartNext, StartNat
  <2>3. QED
    BY <2>1, <2>2, <1>1, DbFileAssumption
<1>3. last \in Int
  BY <1>1, ChunkOf
<1> HIDE DEF last
<1>4. 0..last = {i \in Nat : Start(i) < size}
  BY <1>2, <1>3
<1>5. \A i : i * ChunkSize = Start(i)
  BY DEF Start
<1>6. QED
  BY <1>4, <1>5 DEF Contiguous, Fits, last

LEMMA SeqIs ==
  ASSUME NEW S, NEW n \in Nat, NEW s \in [1..n -> S]
  PROVE  s \in Seq(S) /\ Len(s) = n
BY SeqDef

Rows(from, to) == [k \in 1..(to - from + 1) |-> OldChunk(from + k - 1)]

LEMMA RowsTyped ==
  ASSUME TypeOK, NEW from \in Nat, NEW to \in Int
  PROVE  /\ Rows(from, to) \in Seq(Seq(Byte))
         /\ Joined(from, to) = FlattenSeq(Rows(from, to))
         /\ Joined(from, to) \in Seq(Byte)
<1>1. \A i : OldChunk(i) \in Seq(Byte)
  BY EmptySeq DEF OldChunk, TypeOK
<1>2. Rows(from, to) \in [1..(to - from + 1) -> Seq(Byte)]
  BY <1>1 DEF Rows
<1>3. Rows(from, to) \in Seq(Seq(Byte))
  <2>1. CASE to - from + 1 \in Nat
    BY <2>1, <1>2, SeqIs
  <2>2. CASE to - from + 1 \notin Nat
    <3>1. 1..(to - from + 1) = 1..0
      BY <2>2
    <3>2. QED
      BY <3>1, <1>2, SeqIs
  <2>3. QED
    BY <2>1, <2>2
<1>4. Joined(from, to) = FlattenSeq(Rows(from, to))
  BY DEF Joined, Rows
<1>5. QED
  BY <1>3, <1>4, FlattenTyped

(* The byte at offset k of an undamaged file. *)
At(k) == chunk[k \div ChunkSize][k - Start(k \div ChunkSize) + 1]

LEMMA StartMinus == \A i, j \in Int : Start(i - j) = Start(i) - Start(j)
BY DbFileAssumption DEF Start

LEMMA JoinedIs ==
  ASSUME TypeOK, Fits, NEW from \in Nat, NEW to \in DOMAIN chunk, from <= to,
         NEW end, end = AtMost(Start(to + 1), size)
  PROVE  /\ Joined(from, to) \in Seq(Byte)
         /\ Len(Joined(from, to)) = end - Start(from)
         /\ \A k \in Nat : Start(from) <= k /\ k < end =>
              Joined(from, to)[k - Start(from) + 1] = At(k)
<1> DEFINE last == to - from
           s == Rows(from, to)
<1>1. /\ to \in Nat /\ last \in Nat /\ size \in Nat
      /\ Start(to) < size /\ Start(to) \in Nat /\ Start(from) \in Nat
      /\ Start(last) = Start(to) - Start(from)
      /\ Start(to + 1) = Start(to) + ChunkSize
  <2>1. to \in Nat /\ Start(to) < size /\ size \in Nat
    BY DEF Fits, TypeOK
  <2>2. last \in Nat /\ to + 1 \in Int
    BY <2>1
  <2>3. Start(to + 1) = Start(to) + ChunkSize
    BY <2>1, <2>2, StartNext
  <2>4. Start(last) = Start(to) - Start(from)
    BY <2>1, StartMinus
  <2>5. Start(to) \in Nat /\ Start(from) \in Nat
    BY <2>1, StartNat
  <2>6. QED
    BY <2>1, <2>2, <2>3, <2>4, <2>5
<1>2. s \in Seq(Seq(Byte)) /\ Joined(from, to) = FlattenSeq(s) /\ Joined(from, to) \in Seq(Byte)
  BY <1>1, RowsTyped
<1>3. Len(s) = last + 1 /\ \A i \in 0..last : s[i + 1] = OldChunk(from + i)
  <2>1. s = [k \in 1..(last + 1) |-> OldChunk(from + k - 1)]
    BY DEF Rows
  <2>2. last + 1 \in Nat
    BY <1>1
  <2>3. Len(s) = last + 1
    BY <2>1, <2>2
  <2> HIDE DEF s
  <2>4. ASSUME NEW i \in 0..last PROVE s[i + 1] = OldChunk(from + i)
    <3>1. i + 1 \in 1..(last + 1) /\ from + (i + 1) - 1 = from + i
      BY <1>1
    <3>2. QED
      BY <2>1, <3>1
  <2>5. QED
    BY <2>3, <2>4
<1>0. last = to - from
  OBVIOUS
<1> HIDE DEF s, last
<1>4. ASSUME NEW i \in Nat, from <= i, i <= to
      PROVE  /\ i \in DOMAIN chunk /\ s[i - from + 1] = chunk[i]
             /\ Start(i) \in Nat /\ Len(chunk[i]) = AtMost(ChunkSize, size - Start(i))
             /\ i < to => Len(chunk[i]) = ChunkSize
  <2>1. Start(i) \in Nat
    BY StartNat
  <2>2. i < to => Start(i) + ChunkSize <= Start(to)
    BY <1>1, StartOrder
  <2>3. Start(i) < size
    BY <2>1, <2>2, <1>1, <1>4, DbFileAssumption
  <2>4. i \in DOMAIN chunk /\ Len(chunk[i]) = AtMost(ChunkSize, size - Start(i))
    BY <2>3 DEF Fits
  <2>5. i - from \in 0..last /\ from + (i - from) = i
    BY <1>0, <1>1, <1>4
  <2>6. s[i - from + 1] = chunk[i]
    BY <2>4, <2>5, <1>3 DEF OldChunk
  <2>7. i < to => Len(chunk[i]) = ChunkSize
    BY <2>1, <2>2, <2>4, <1>1, DbFileAssumption DEF AtMost
  <2>8. QED
    BY <2>1, <2>4, <2>6, <2>7
<1>5. ASSUME NEW i \in 1..last PROVE Len(s[i]) = ChunkSize
  <2>1. /\ from + i - 1 \in Nat /\ from <= from + i - 1 /\ from + i - 1 < to
        /\ (from + i - 1) - from + 1 = i
    BY <1>0, <1>1
  <2>2. QED
    BY <2>1, <1>1, <1>4
<1>6. s[last + 1] = chunk[to] /\ Len(chunk[to]) = AtMost(ChunkSize, size - Start(to))
  BY <1>0, <1>1, <1>4
<1>7. Len(FlattenSeq(s)) = Start(last) + Len(chunk[to])
  <2>1. Len(FlattenSeq(s)) = Start(last) + Len(s[last + 1])
    BY <1>1, <1>2, <1>3, <1>5, FlattenEven
  <2>2. QED
    BY <2>1, <1>6
<1>8. Len(Joined(from, to)) = end - Start(from)
  BY <1>1, <1>2, <1>6, <1>7, DbFileAssumption DEF AtMost
<1>9. ASSUME NEW k \in Nat, Start(from) <= k, k < end
      PROVE  Joined(from, to)[k - Start(from) + 1] = At(k)
  <2> DEFINE i == k \div ChunkSize
             p == k - Start(i) + 1
  <2>1. /\ i \in Nat /\ Start(i) <= k /\ k < Start(i) + ChunkSize
        /\ \A j \in Int : j <= i <=> Start(j) <= k
    BY ChunkOf
  <2>2. end \in Nat /\ end <= size /\ end <= Start(to + 1)
    BY <1>1, DbFileAssumption DEF AtMost
  <2> HIDE DEF i
  <2>3. from <= i
    BY <2>1, <1>9
  <2>4. ~ to + 1 <= i
    <3>1. to + 1 \in Int /\ ~ Start(to + 1) <= k
      BY <1>1, <1>9, <2>2, DbFileAssumption
    <3>2. QED
      BY <3>1, <2>1
  <2>5. i <= to
    BY <2>1, <2>4, <1>1
  <2>6. /\ s[i - from + 1] = chunk[i] /\ Start(i) \in Nat
        /\ Len(chunk[i]) = AtMost(ChunkSize, size - Start(i))
    BY <2>1, <2>3, <2>5, <1>4
  <2>7. p \in 1..Len(chunk[i])
    <3>0. k < size
      BY <2>2, <1>1, <1>9
    <3>1. p \in Nat /\ 1 <= p /\ p <= ChunkSize /\ p <= size - Start(i)
      <4>1. /\ Start(i) \in Nat /\ Start(i) <= k /\ k < Start(i) + ChunkSize
            /\ size \in Nat /\ ChunkSize \in Nat
        BY <2>1, <2>6, <1>1, DbFileAssumption
      <4> HIDE DEF At
      <4>2. QED
        BY ONLY k \in Nat, <3>0, <4>1
    <3> HIDE DEF p
    <3>2. QED
      BY <3>1, <2>6, <1>1, DbFileAssumption DEF AtMost
  <2>8. i - from \in 0..last
    BY <2>1, <2>3, <2>5, <1>0, <1>1
  <2>9. FlattenSeq(s)[Start(i - from) + p] = chunk[i][p]
    <3> HIDE DEF p
    <3>1. \A j \in 0..last : \A x \in 1..Len(s[j + 1]) :
            FlattenSeq(s)[Start(j) + x] = s[j + 1][x]
      BY <1>1, <1>2, <1>3, <1>5, FlattenEven
    <3>2. QED
      BY <3>1, <2>6, <2>7, <2>8
  <2>10. Start(i - from) + p = k - Start(from) + 1
    <3>1. Start(i - from) = Start(i) - Start(from)
      BY <2>1, StartMinus
    <3>2. QED
      BY <3>1, <2>6, <1>1
  <2>11. QED
    BY <1>2, <2>9, <2>10 DEF At, i
<1>10. QED
  BY <1>2, <1>8, <1>9

(* A nonempty set of numbers with an upper bound has a largest one.        *)
LEMMA HasLargest ==
  ASSUME NEW n \in Nat, NEW S \in SUBSET (0..n), S # {}
  PROVE  \E i \in S : \A j \in S : j <= i
<1> DEFINE T == {m \in Nat : \A U \in SUBSET (0..m) :
                   U # {} => \E i \in U : \A j \in U : j <= i}
<1>1. 0 \in T
  <2>1. \A i \in 0..0 : i = 0 /\ i <= 0
    OBVIOUS
  <2>2. ASSUME NEW U \in SUBSET (0..0), U # {}
        PROVE  \E i \in U : \A j \in U : j <= i
    <3>1. PICK i \in U : TRUE
      BY <2>2
    <3>2. \A j \in U : j = 0
      BY <2>1
    <3>3. QED
      BY <2>1, <3>1, <3>2
  <2>3. QED
    BY <2>2
<1>2. ASSUME NEW m \in Nat, m \in T PROVE m + 1 \in T
  <2>1. ASSUME NEW U \in SUBSET (0..(m + 1)), U # {}
        PROVE  \E i \in U : \A j \in U : j <= i
    <3>1. CASE m + 1 \in U
      BY <3>1
    <3>2. CASE m + 1 \notin U
      <4>1. U \in SUBSET (0..m)
        BY <3>2
      <4>2. QED
        BY <4>1, <2>1, <1>2
    <3>3. QED
      BY <3>1, <3>2
  <2>2. m + 1 \in Nat
    OBVIOUS
  <2>3. QED
    BY <2>1, <2>2
<1> HIDE DEF T
<1>3. n \in T
  BY <1>1, <1>2, Induction
<1>4. QED
  BY <1>3 DEF T

LEMMA LastIs ==
  ASSUME TypeOK
  PROVE  /\ LastIndex \in Nat
         /\ DOMAIN chunk # {} =>
              LastIndex \in DOMAIN chunk /\ \A j \in DOMAIN chunk : j <= LastIndex
<1>1. CASE DOMAIN chunk = {}
  <2>1. chunk = <<>>
    BY <1>1 DEF TypeOK
  <2>2. QED
    BY <1>1, <2>1 DEF LastIndex
<1>2. CASE DOMAIN chunk # {}
  <2>1. chunk # <<>>
    BY <1>2
  <2>2. \E i \in DOMAIN chunk : \A j \in DOMAIN chunk : j <= i
    BY <1>2, HasLargest, DbFileAssumption DEF TypeOK
  <2>3. LastIndex \in DOMAIN chunk /\ \A j \in DOMAIN chunk : j <= LastIndex
    BY <2>1, <2>2 DEF LastIndex
  <2>4. QED
    BY <2>3 DEF TypeOK
<1>3. QED
  BY <1>1, <1>2

LEMMA BodyTyped ==
  ASSUME TypeOK
  PROVE  Body \in Seq(Byte)
<1> DEFINE all == Joined(0, LastIndex)
           n == AtMost(size, Len(all))
<1>1. all \in Seq(Byte) /\ Len(all) \in Nat
  BY LastIs, RowsTyped, LenProperties
<1>2. n \in Int /\ n <= Len(all)
  BY <1>1 DEF AtMost, TypeOK
<1> HIDE DEF all
<1>3. \A i \in 1..n : all[i] \in Byte
  BY <1>1, <1>2, ElementOfSeq
<1>4. Body = SubSeq(all, 1, n)
  BY DEF Body, all
<1> HIDE DEF n
<1>5. QED
  BY <1>2, <1>3, <1>4, SubSeqProperties

(* The body of an undamaged file has size bytes, each where At says.       *)
LEMMA BodyIs ==
  ASSUME TypeOK, Fits
  PROVE  /\ Body \in Seq(Byte) /\ Len(Body) = size
         /\ \A k \in 0..(size - 1) : Body[k + 1] = At(k)
<1> DEFINE all == Joined(0, LastIndex)
<1>0. size \in Nat /\ ChunkSize \in Nat \ {0}
  BY DbFileAssumption DEF TypeOK
<1>1. all \in Seq(Byte) /\ Len(all) \in Nat
  BY LastIs, RowsTyped, LenProperties
<1>2. CASE size = 0
  <2>1. Body = SubSeq(all, 1, AtMost(size, Len(all)))
    BY DEF Body
  <2> HIDE DEF all
  <2>2. AtMost(size, Len(all)) = 0
    BY <1>1, <1>2 DEF AtMost
  <2>3. Body = <<>>
    BY <2>1, <2>2, SubSeqEmpty
  <2>4. QED
    BY <2>3, <1>2, EmptySeq
<1>3. CASE size # 0
  <2> DEFINE m == (size - 1) \div ChunkSize
  <2>0. size - 1 \in Nat
    BY <1>0, <1>3
  <2>1. /\ m \in Nat /\ Start(m) <= size - 1 /\ size - 1 < Start(m) + ChunkSize
        /\ \A i \in Int : i <= m <=> Start(i) <= size - 1
    BY <2>0, ChunkOf
  <2> HIDE DEF m
  <2>2. Start(m) \in Nat
    BY <2>1, StartNat
  <2>3. m \in DOMAIN chunk
    BY <1>0, <2>1, <2>2 DEF Fits
  <2>4. \A i \in DOMAIN chunk : i \in Nat /\ i <= m
    <3>1. \A i \in DOMAIN chunk : i \in Nat /\ Start(i) < size
      BY DEF Fits
    <3>2. \A i \in DOMAIN chunk : Start(i) <= size - 1
      BY <1>0, <3>1, StartNat
    <3>3. QED
      BY <3>1, <3>2, <2>1
  <2>5. LastIndex = m
    <3>1. LastIndex \in DOMAIN chunk /\ m <= LastIndex
      BY <2>3, LastIs
    <3>2. QED
      BY <3>1, <2>1, <2>4
  <2>6. AtMost(Start(m + 1), size) = size
    <3>1. m \in Int /\ m + 1 \in Int
      BY <2>1
    <3>2. Start(m + 1) = Start(m) + ChunkSize
      BY <3>1, StartNext
    <3>3. QED
      BY <3>2, <2>1, <2>2, <1>0 DEF AtMost
  <2>7. /\ Len(all) = size - Start(0)
        /\ \A k \in Nat : Start(0) <= k /\ k < size => all[k - Start(0) + 1] = At(k)
    BY <2>1, <2>3, <2>5, <2>6, JoinedIs
  <2> HIDE DEF all
  <2>8. Len(all) = size /\ \A k \in 0..(size - 1) : all[k + 1] = At(k)
    <3>0. Start(0) = 0
      BY StartNext
    <3>a. Len(all) = size
      BY <2>7, <3>0, <1>0
    <3>b. \A k \in Nat : 0 <= k /\ k < size => all[k - 0 + 1] = At(k)
      BY <2>7, <3>0, Zenon
    <3>1. Len(all) = size /\ \A k \in Nat : 0 <= k /\ k < size => all[k - 0 + 1] = At(k)
      BY <3>a, <3>b
    <3>2. ASSUME NEW k \in 0..(size - 1) PROVE all[k + 1] = At(k)
      <4>1. k \in Nat /\ 0 <= k /\ k < size /\ k - 0 + 1 = k + 1
        BY <1>0
      <4>2. all[k - 0 + 1] = At(k)
        BY <3>1, <4>1
      <4>3. QED
        BY <4>1, <4>2
    <3>3. QED
      BY <3>1, <3>2
  <2>9. Body = SubSeq(all, 1, size)
    BY <2>8, <1>0 DEF Body, AtMost, all
  <2>10. Body = all
    BY <1>1, <2>8, <2>9, SubSeqFull
  <2>11. QED
    BY <1>1, <2>8, <2>10
<1>4. QED
  BY <1>2, <1>3

(* DbFile::read takes the bytes of the body that are there.                *)
LEMMA ReadIs ==
  ASSUME TypeOK, Fits, NEW off \in Nat, NEW n \in Nat
  PROVE  Read(off, n) = SubSeq(Body, off + 1, AtMost(off + n, size))
<1> DEFINE end == AtMost(off + n, size)
<1>0. size \in Nat /\ ChunkSize \in Nat \ {0} /\ end \in Nat
  BY DbFileAssumption DEF TypeOK, AtMost
<1>1. CASE off >= size
  <2>1. Read(off, n) = <<>>
    BY <1>1 DEF Read
  <2>2. end < off + 1
    BY <1>0, <1>1 DEF AtMost
  <2> HIDE DEF end
  <2>3. SubSeq(Body, off + 1, end) = <<>>
    BY <1>0, <2>2, SubSeqEmpty
  <2>4. QED
    BY <2>1, <2>3 DEF end
<1>2. CASE ~ off >= size
  <2> DEFINE first == off \div ChunkSize
             last == Longer(end - 1, 0) \div ChunkSize
             got == Joined(first, last)
             skip == off - first * ChunkSize
             take == AtMost(AtMost(n, Longer(Len(got) - skip, 0)), size - off)
  <2>1. Read(off, n) =
          IF skip > Len(got) THEN Panic ELSE SubSeq(got, skip + 1, skip + take)
    BY <1>2 DEF Read
  <2>2. Longer(end - 1, 0) \in Nat
    BY <1>0 DEF Longer
  <2>3. first \in Nat /\ Start(first) \in Nat /\ Start(first) <= off
    BY ChunkOf, StartNat
  <2>4. last \in Nat
    BY <2>2, ChunkOf
  <2>5. got \in Seq(Byte) /\ Len(got) \in Nat
    <3> HIDE DEF first, last
    <3>1. last \in Int
      BY <2>4
    <3>2. got \in Seq(Byte)
      BY <3>1, <2>3, RowsTyped
    <3>3. QED
      BY <3>2, LenProperties
  <2>6. skip = off - Start(first)
    BY DEF Start
  <2> HIDE DEF first, got, skip
  <2>7. CASE n = 0
    <3>1. take = 0
      BY <2>7, <1>0, <1>2, <2>3, <2>5, <2>6 DEF AtMost, Longer
    <3>2. end = off
      BY <2>7, <1>0, <1>2 DEF AtMost
    <3> HIDE DEF take, end
    <3>6. ~ skip > Len(got)
      <4>1. CASE off = Start(first)
        BY <4>1, <2>3, <2>5, <2>6
      <4>2. CASE off # Start(first)
        <5>1. off - 1 \in Nat /\ Longer(end - 1, 0) = off - 1 /\ Start(first) <= off - 1
          BY <4>2, <3>2, <2>3 DEF Longer
        <5>2. off < Start(first) + ChunkSize
          BY ChunkOf DEF first
        <5>3. first = last
          <6>1. first <= last
            BY <5>1, <2>3, ChunkOf
          <6>2. last <= first
            <7>1. Start(last) <= off - 1
              BY <5>1, ChunkOf
            <7>2. Start(last) <= off
              BY <7>1, <2>4, StartNat
            <7>3. QED
              BY <7>2, <2>4, ChunkOf DEF first
          <6>3. QED
            BY <6>1, <6>2, <2>3, <2>4
        <5> HIDE DEF last
        <5>4. first \in DOMAIN chunk
          BY <2>3, <1>0, <1>2 DEF Fits
        <5> DEFINE stop == AtMost(Start(first + 1), size)
        <5>5. stop \in Nat /\ stop >= off
          <6>1. first \in Int /\ first + 1 \in Int
            BY <2>3
          <6>2. Start(first + 1) = Start(first) + ChunkSize
            BY <6>1, StartNext
          <6>3. QED
            BY <6>2, <5>2, <2>3, <1>0, <1>2 DEF AtMost
        <5> HIDE DEF stop
        <5>6. Len(got) = stop - Start(first)
          BY <2>3, <5>3, <5>4, JoinedIs DEF got, stop
        <5>7. QED
          BY <5>5, <5>6, <2>3, <2>5, <2>6
      <4>3. QED
        BY <4>1, <4>2
    <3>3. SubSeq(got, skip + 1, skip + take) = <<>>
      BY <3>1, <2>3, <2>6, SubSeqEmpty
    <3>4. SubSeq(Body, off + 1, end) = <<>>
      BY <3>2, SubSeqEmpty
    <3>5. QED
      BY <2>1, <3>3, <3>4, <3>6 DEF end
  <2>8. CASE n # 0
    <3>1. end - 1 \in Nat /\ end <= size /\ off < end /\ Longer(end - 1, 0) = end - 1
      BY <2>8, <1>0, <1>2 DEF AtMost, Longer
    <3> HIDE DEF end
    <3>2. /\ Start(last) <= end - 1 /\ end - 1 < Start(last) + ChunkSize
          /\ \A i \in Int : i <= last <=> Start(i) <= end - 1
      BY <3>1, ChunkOf
    <3> HIDE DEF last
    <3>3. Start(last) \in Nat /\ Start(last) < size
      BY <3>1, <3>2, <2>4, <1>0, StartNat
    <3>4. last \in DOMAIN chunk
      BY <3>3, <2>4 DEF Fits
    <3>5. first <= last
      BY <3>1, <3>2, <2>3, <1>0
    <3> DEFINE stop == AtMost(Start(last + 1), size)
    <3>6. stop \in Nat /\ end <= stop /\ stop <= size
      <4>1. last \in Int /\ last + 1 \in Int
        BY <2>4
      <4>2. Start(last + 1) = Start(last) + ChunkSize
        BY <4>1, StartNext
      <4>3. QED
        BY <4>2, <3>1, <3>2, <3>3, <1>0 DEF AtMost
    <3> HIDE DEF stop
    <3>7. /\ Len(got) = stop - Start(first)
          /\ \A k \in Nat : Start(first) <= k /\ k < stop =>
               got[k - Start(first) + 1] = At(k)
      BY <2>3, <3>4, <3>5, JoinedIs DEF got, stop
    <3>8. take = end - off
      BY <3>7, <3>6, <3>1, <2>3, <2>5, <2>6, <1>0, <1>2 DEF AtMost, Longer, end
    <3>20. ~ skip > Len(got)
      BY <3>7, <3>6, <3>1, <2>3, <2>6, <1>0
    <3> HIDE DEF take
    <3>9. /\ Body \in Seq(Byte) /\ Len(Body) = size
          /\ \A k \in 0..(size - 1) : Body[k + 1] = At(k)
      BY BodyIs
    <3> DEFINE some == end - off
               left == SubSeq(got, skip + 1, skip + take)
               right == SubSeq(Body, off + 1, end)
    <3>10. some \in Nat /\ skip \in Nat
      BY <3>1, <2>3, <2>6, <1>0
    <3>11. /\ left \in Seq(Byte) /\ Len(left) = some
           /\ \A i \in 1..some : left[i] = At(off + i - 1)
      <4>1. ASSUME NEW i \in (skip + 1)..(skip + take)
            PROVE  i \in 1..Len(got)
        BY <3>6, <3>7, <3>8, <3>10, <2>3, <2>6, <1>0
      <4>2. \A i \in (skip + 1)..(skip + take) : got[i] \in Byte
        BY <4>1, <2>5, ElementOfSeq
      <4>3. skip + 1 \in Int /\ skip + take \in Int /\ (skip + take) - (skip + 1) + 1 = some
        BY <3>8, <3>10
      <4>4. /\ left \in Seq(Byte)
            /\ Len(left) = IF skip + 1 <= skip + take THEN (skip + take) - (skip + 1) + 1 ELSE 0
            /\ \A i \in 1..((skip + take) - (skip + 1) + 1) : left[i] = got[(skip + 1) + i - 1]
        BY <4>2, <4>3, SubSeqProperties
      <4> HIDE DEF left
      <4>5. Len(left) = some
        BY <4>3, <4>4, <3>8, <3>10
      <4>6. ASSUME NEW i \in 1..some PROVE left[i] = At(off + i - 1)
        <5> DEFINE k == off + i - 1
        <5>1. /\ k \in Nat /\ Start(first) <= k /\ k < stop
              /\ (skip + 1) + i - 1 = k - Start(first) + 1
          BY <3>1, <3>6, <3>10, <2>3, <2>6, <1>0
        <5> HIDE DEF k
        <5>2. got[k - Start(first) + 1] = At(k)
          BY <5>1, <3>7
        <5>3. left[i] = got[(skip + 1) + i - 1]
          BY <4>3, <4>4
        <5>4. QED
          BY <5>1, <5>2, <5>3 DEF k
      <4>7. QED
        BY <4>4, <4>5, <4>6
    <3>12. /\ right \in Seq(Byte) /\ Len(right) = some
           /\ \A i \in 1..some : right[i] = At(off + i - 1)
      <4>1. \A i \in (off + 1)..end : Body[i] \in Byte
        <5>1. \A i \in (off + 1)..end : i \in 1..Len(Body)
          BY <3>1, <3>9, <1>0
        <5>2. QED
          BY <5>1, <3>9, ElementOfSeq
      <4>2. off + 1 \in Int /\ end \in Int /\ end - (off + 1) + 1 = some /\ off + 1 <= end
        BY <3>1, <1>0
      <4>3. /\ right \in Seq(Byte)
            /\ Len(right) = IF off + 1 <= end THEN end - (off + 1) + 1 ELSE 0
            /\ \A i \in 1..(end - (off + 1) + 1) : right[i] = Body[(off + 1) + i - 1]
        BY <4>1, <4>2, SubSeqProperties
      <4> HIDE DEF right
      <4>4. ASSUME NEW i \in 1..some PROVE right[i] = At(off + i - 1)
        <5> DEFINE k == off + i - 1
        <5>1. k \in 0..(size - 1) /\ (off + 1) + i - 1 = k + 1
          BY <3>1, <3>10, <1>0
        <5> HIDE DEF k
        <5>2. right[i] = Body[(off + 1) + i - 1]
          BY <4>2, <4>3
        <5>3. QED
          BY <5>1, <5>2, <3>9 DEF k
      <4>5. Len(right) = some
        BY <4>2, <4>3
      <4>6. QED
        BY <4>3, <4>4, <4>5
    <3> HIDE DEF left, right
    <3>13. left = right
      <4>1. \A i \in 1..Len(left) : left[i] = right[i]
        BY <3>11, <3>12
      <4>2. QED
        BY <4>1, <3>11, <3>12, SeqEqual
    <3>14. QED
      BY <2>1, <3>13, <3>20 DEF left, right, end
  <2>9. QED
    BY <2>7, <2>8
<1>3. QED
  BY <1>1, <1>2
-----------------------------------------------------------------------------
(* What the operations make of the rows. *)
LEMMA ContentsAre ==
  ASSUME NEW bytes \in Contents
  PROVE  bytes \in Seq(Byte) /\ Len(bytes) \in Nat
<1>1. PICK n \in 0..MaxInput : bytes \in [1..n -> Byte]
  BY DEF Contents
<1>2. n \in Nat
  OBVIOUS
<1>3. QED
  BY <1>1, <1>2, SeqIs

LEMMA InputsAre ==
  ASSUME NEW bytes \in Inputs
  PROVE  bytes \in Contents /\ bytes \in Seq(Byte) /\ Len(bytes) \in Nat \ {0}
<1>1. PICK n \in 1..MaxInput : bytes \in [1..n -> Byte]
  BY DEF Inputs
<1>2. n \in Nat \ {0} /\ n \in 0..MaxInput
  BY DbFileAssumption
<1>3. bytes \in Seq(Byte) /\ Len(bytes) = n
  BY <1>1, <1>2, SeqIs
<1>4. QED
  BY <1>1, <1>2, <1>3 DEF Contents

LEMMA TouchedIs ==
  ASSUME NEW off \in Nat, NEW bytes, Len(bytes) \in Nat \ {0}, NEW i \in Int
  PROVE  /\ i \in Touched(off, bytes) <=>
              off < Start(i) + ChunkSize /\ Start(i) < off + Len(bytes)
         /\ i \in Touched(off, bytes) => i \in Nat
<1> DEFINE end == off + Len(bytes) - 1
           first == off \div ChunkSize
           last == end \div ChunkSize
<1>1. end \in Nat
  OBVIOUS
<1>2. first \in Nat /\ last \in Nat
  BY <1>1, ChunkOf
<1>3. i <= last <=> Start(i) <= end
  BY <1>1, ChunkOf
<1>4. i + 1 <= first <=> Start(i + 1) <= off
  BY ChunkOf
<1>5. Start(i + 1) = Start(i) + ChunkSize /\ Start(i) \in Int /\ ChunkSize \in Nat
  <2>1. i + 1 \in Int
    OBVIOUS
  <2>2. QED
    BY <2>1, StartNext, StartTyped, DbFileAssumption
<1>6. Touched(off, bytes) = first..last
  BY DEF Touched
<1> HIDE DEF first, last
<1>7. first <= i <=> off < Start(i) + ChunkSize
  BY <1>2, <1>4, <1>5
<1>8. i <= last <=> Start(i) < off + Len(bytes)
  BY <1>3, <1>5
<1>9. QED
  BY <1>2, <1>6, <1>7, <1>8

(* The merged chunk, by offsets. *)
LEMMA MergedIs ==
  ASSUME TypeOK, NEW off \in Nat, NEW bytes \in Inputs, NEW i \in Touched(off, bytes),
         NEW upto, upto = Longer(Len(OldChunk(i)),
                                 AtMost(off + Len(bytes) - Start(i), ChunkSize))
  PROVE  /\ upto \in 1..ChunkSize
         /\ Merged(off, bytes, i) \in Seq(Byte) /\ Len(Merged(off, bytes, i)) = upto
         /\ \A k \in 1..upto : Merged(off, bytes, i)[k] =
              IF Start(i) + k \in (off + 1)..(off + Len(bytes))
              THEN bytes[Start(i) + k - off]
              ELSE IF k <= Len(OldChunk(i)) THEN OldChunk(i)[k] ELSE Zero
<1> DEFINE old == OldChunk(i)
           n == Len(bytes)
           byte(k) == IF Start(i) + k \in (off + 1)..(off + n)
                      THEN bytes[Start(i) + k - off]
                      ELSE IF k <= Len(old) THEN old[k] ELSE Zero
           merged == [k \in 1..upto |-> byte(k)]
<1>1. bytes \in Seq(Byte) /\ n \in Nat \ {0}
  BY InputsAre
<1>2. i \in Int
  BY <1>1, ChunkOf DEF Touched
<1>3. i \in Nat /\ off < Start(i) + ChunkSize /\ Start(i) < off + n
  BY <1>1, <1>2, TouchedIs
<1>4. Start(i) \in Nat /\ ChunkSize \in Nat \ {0} /\ Zero \in Byte
  BY <1>3, StartNat, DbFileAssumption
<1>5. old \in Seq(Byte) /\ Len(old) \in 0..ChunkSize
  <2>1. CASE i \in DOMAIN chunk
    BY <2>1, <1>4 DEF OldChunk, TypeOK
  <2>2. CASE i \notin DOMAIN chunk
    BY <2>2, <1>4, EmptySeq DEF OldChunk
  <2>3. QED
    BY <2>1, <2>2
<1>6. upto \in 1..ChunkSize
  BY <1>1, <1>3, <1>4, <1>5 DEF Longer, AtMost
<1>7. Merged(off, bytes, i) = merged
  BY DEF Merged, Start
<1> HIDE DEF old
<1>8. ASSUME NEW k \in 1..upto PROVE byte(k) \in Byte
  <2>0. k \in Nat /\ 1 <= k
    BY <1>6
  <2>1. CASE Start(i) + k \in (off + 1)..(off + n)
    <3>1. Start(i) + k - off \in 1..n
      BY <2>0, <2>1, <1>1, <1>4
    <3>2. QED
      BY <2>1, <3>1, <1>1, ElementOfSeq
  <2>2. CASE ~ (Start(i) + k \in (off + 1)..(off + n))
    <3>1. k <= Len(old) => old[k] \in Byte
      BY <2>0, <1>5, ElementOfSeq
    <3>2. QED
      BY <2>2, <3>1, <1>4
  <2>3. QED
    BY <2>1, <2>2
<1> HIDE DEF byte
<1>9. merged \in Seq(Byte) /\ Len(merged) = upto
  <2>1. upto \in Nat /\ merged \in [1..upto -> Byte]
    BY <1>6, <1>8
  <2>2. QED
    BY <2>1, SeqIs
<1>10. \A k \in 1..upto : merged[k] = byte(k)
  OBVIOUS
<1> HIDE DEF merged
<1>11. QED
  BY <1>6, <1>7, <1>9, <1>10 DEF byte, old

RowsOK ==
  /\ DOMAIN chunk \subseteq 0..MaxSize
  /\ chunk \in [DOMAIN chunk -> Seq(Byte)]
  /\ \A i \in DOMAIN chunk : Len(chunk[i]) \in 1..ChunkSize

LEMMA StoredTyped ==
  ASSUME TypeOK, NEW off \in 0..MaxSize, NEW bytes \in Inputs,
         off + Len(bytes) <= MaxSize,
         NEW S \in SUBSET Touched(off, bytes), chunk' = Stored(off, bytes, S)
  PROVE  RowsOK'
<1>1. bytes \in Seq(Byte) /\ Len(bytes) \in Nat \ {0} /\ off \in Nat /\ MaxSize \in Nat
  BY InputsAre, DbFileAssumption
<1>2. chunk' = [i \in DOMAIN chunk \cup S |->
                  IF i \in S THEN Merged(off, bytes, i) ELSE chunk[i]]
  BY DEF Stored
<1>3. ASSUME NEW i \in S
      PROVE  /\ i \in 0..MaxSize
             /\ Merged(off, bytes, i) \in Seq(Byte)
             /\ Len(Merged(off, bytes, i)) \in 1..ChunkSize
  <2>1. i \in Touched(off, bytes)
    OBVIOUS
  <2>2. i \in Int
    BY <1>1, <2>1, ChunkOf DEF Touched
  <2>3. i \in Nat /\ Start(i) < off + Len(bytes)
    BY <1>1, <2>1, <2>2, TouchedIs
  <2>4. i <= Start(i)
    BY <2>3, StartAbove
  <2>5. Start(i) \in Nat
    BY <2>3, StartNat
  <2>6. i \in 0..MaxSize
    BY <2>3, <2>4, <2>5, <1>1
  <2>7. QED
    BY <1>1, <2>1, <2>6, MergedIs
<1>4. \A i \in DOMAIN chunk \cup S :
        /\ chunk'[i] \in Seq(Byte) /\ Len(chunk'[i]) \in 1..ChunkSize
        /\ i \in 0..MaxSize
  BY <1>2, <1>3 DEF TypeOK
<1>5. DOMAIN chunk' = DOMAIN chunk \cup S
  BY <1>2
<1>6. QED
  BY <1>2, <1>4, <1>5 DEF RowsOK

(* A write that leaves no gap, to an undamaged file. *)
LEMMA WriteFits ==
  ASSUME TypeOK, Fits, NEW off \in 0..MaxSize, NEW bytes \in Inputs,
         ~ LeavesGap(off), Write(off, bytes)
  PROVE  /\ Fits'
         /\ \A k \in 0..(size' - 1) :
              At(k)' = IF k \in off..(off + Len(bytes) - 1) THEN bytes[k - off + 1]
                       ELSE IF k < size THEN At(k) ELSE Zero
<1> DEFINE n == Len(bytes)
           S == Touched(off, bytes)
<1>1. /\ bytes \in Seq(Byte) /\ n \in Nat \ {0} /\ off \in Nat
      /\ size \in Nat /\ ChunkSize \in Nat \ {0}
  BY InputsAre, DbFileAssumption DEF TypeOK
<1>2. /\ chunk' = [i \in DOMAIN chunk \cup S |->
                     IF i \in S THEN Merged(off, bytes, i) ELSE chunk[i]]
      /\ size' = Longer(off + n, size)
  BY DEF Write, Stored
<1>3. size' \in Nat /\ size' >= off + n /\ size' >= size /\ (size' = size \/ size' = off + n)
  BY <1>1, <1>2 DEF Longer
<1>4. \A i \in Int : /\ i \in S <=> off < Start(i) + ChunkSize /\ Start(i) < off + n
                     /\ i \in S => i \in Nat
  BY <1>1, TouchedIs
<1>5. \A i \in S : i \in Int
  BY <1>1, ChunkOf DEF Touched
(* The write starts in the file or right behind it. *)
<1>6. ASSUME NEW i \in Nat, Start(i) + ChunkSize <= off
      PROVE  Start(i) + ChunkSize <= size
  <2> DEFINE a == off \div ChunkSize
             b == size \div ChunkSize
  <2>1. /\ a \in Nat /\ b \in Nat
        /\ \A j \in Int : j <= a <=> Start(j) <= off
        /\ \A j \in Int : j <= b <=> Start(j) <= size
    BY <1>1, ChunkOf
  <2>2. ~ a > b
    BY DEF LeavesGap
  <2> HIDE DEF a, b
  <2>3. i + 1 \in Int /\ Start(i + 1) = Start(i) + ChunkSize
    <3>1. i \in Int /\ i + 1 \in Int
      OBVIOUS
    <3>2. QED
      BY <3>1, StartNext
  <2>4. i + 1 <= a
    BY <1>6, <2>1, <2>3
  <2>5. i + 1 <= b
    BY <2>1, <2>2, <2>4
  <2>6. QED
    BY <2>1, <2>3, <2>5
<1> HIDE DEF S
<1>7. ASSUME NEW i \in Nat
      PROVE  /\ i \in DOMAIN chunk' <=> Start(i) < size'
             /\ i \in DOMAIN chunk' => Len(chunk'[i]) = AtMost(ChunkSize, size' - Start(i))
             /\ i \in S => /\ chunk'[i] = Merged(off, bytes, i)
                           /\ Len(OldChunk(i)) = IF Start(i) < size
                                THEN AtMost(ChunkSize, size - Start(i)) ELSE 0
             /\ i \in DOMAIN chunk' \ S => i \in DOMAIN chunk /\ chunk'[i] = chunk[i]
  <2>1. Start(i) \in Nat
    BY StartNat
  <2>2. i \in S <=> off < Start(i) + ChunkSize /\ Start(i) < off + n
    BY <1>4
  <2>3. /\ i \in DOMAIN chunk <=> Start(i) < size
        /\ i \in DOMAIN chunk => Len(chunk[i]) = AtMost(ChunkSize, size - Start(i))
    BY DEF Fits
  <2>4. i \in DOMAIN chunk' <=> i \in DOMAIN chunk \/ i \in S
    BY <1>2
  <2>5. i \in DOMAIN chunk' <=> Start(i) < size'
    BY <2>1, <2>2, <2>3, <2>4, <1>1, <1>3, <1>6
  <2>6. Len(OldChunk(i)) = IF Start(i) < size THEN AtMost(ChunkSize, size - Start(i)) ELSE 0
    BY <2>3, EmptySeq DEF OldChunk
  <2>7. CASE i \in S
    <3>1. chunk'[i] = Merged(off, bytes, i) /\ i \in DOMAIN chunk'
      BY <2>7, <1>2
    <3> DEFINE upto == Longer(Len(OldChunk(i)), AtMost(off + n - Start(i), ChunkSize))
    <3>2. Len(Merged(off, bytes, i)) = upto
      BY <2>7, <1>1, MergedIs DEF S
    <3>3. upto = AtMost(ChunkSize, size' - Start(i))
      BY <2>1, <2>2, <2>6, <2>7, <1>1, <1>2 DEF Longer, AtMost
    <3>4. QED
      BY <2>5, <2>6, <2>7, <3>1, <3>2, <3>3
  <2>8. CASE i \notin S
    <3>1. i \in DOMAIN chunk' => i \in DOMAIN chunk /\ chunk'[i] = chunk[i]
      BY <2>8, <1>2
    <3>2. i \in DOMAIN chunk =>
            AtMost(ChunkSize, size - Start(i)) = AtMost(ChunkSize, size' - Start(i))
      BY <2>1, <2>2, <2>3, <2>8, <1>1, <1>3, <1>6 DEF AtMost
    <3>3. QED
      BY <2>3, <2>5, <2>8, <3>1, <3>2
  <2>9. QED
    BY <2>7, <2>8
<1>8. Fits'
  <2>1. \A i \in DOMAIN chunk' : i \in Nat
    BY <1>2, <1>4, <1>5 DEF Fits
  <2>2. QED
    BY <2>1, <1>7 DEF Fits
<1>9. ASSUME NEW k \in Nat, k < size'
      PROVE  At(k)' = IF k \in off..(off + n - 1) THEN bytes[k - off + 1]
                      ELSE IF k < size THEN At(k) ELSE Zero
  <2> DEFINE i == k \div ChunkSize
             p == k - Start(i) + 1
  <2>0. k \in Nat /\ k < size'
    BY <1>9
  <2>1. i \in Nat /\ Start(i) <= k /\ k < Start(i) + ChunkSize /\ Start(i) \in Nat
    BY <2>0, ChunkOf, StartNat
  <2>2. At(k) = chunk[i][p] /\ At(k)' = chunk'[i][p]
    BY DEF At
  <2> HIDE DEF i
  <2>3. p \in Nat /\ 1 <= p /\ p <= ChunkSize /\ Start(i) + p = k + 1
    BY <2>0, <2>1, <1>1
  <2>4. i \in DOMAIN chunk'
    BY <2>0, <2>1, <1>3, <1>7
  <2>6. CASE i \in S
    <3> DEFINE upto == Longer(Len(OldChunk(i)), AtMost(off + n - Start(i), ChunkSize))
    <3>1. upto = Len(chunk'[i]) /\ chunk'[i] = Merged(off, bytes, i)
      BY <2>1, <2>6, <1>1, <1>7, MergedIs DEF S
    <3>2. p \in 1..upto
      <4>1. Len(chunk'[i]) = AtMost(ChunkSize, size' - Start(i))
        BY <2>1, <2>4, <1>7
      <4> HIDE DEF p, upto
      <4>2. p <= size' - Start(i)
        BY <2>0, <2>1, <2>3, <1>3
      <4>3. QED
        BY <3>1, <4>1, <4>2, <2>1, <2>3, <1>1, <1>3 DEF AtMost
    <3> HIDE DEF p
    <3>3. chunk'[i][p] = IF Start(i) + p \in (off + 1)..(off + n)
                         THEN bytes[Start(i) + p - off]
                         ELSE IF p <= Len(OldChunk(i)) THEN OldChunk(i)[p] ELSE Zero
      <4>1. \A j \in 1..upto : Merged(off, bytes, i)[j] =
              IF Start(i) + j \in (off + 1)..(off + n)
              THEN bytes[Start(i) + j - off]
              ELSE IF j <= Len(OldChunk(i)) THEN OldChunk(i)[j] ELSE Zero
        BY <2>6, <1>1, MergedIs DEF S
      <4> HIDE DEF upto
      <4>2. QED
        BY <3>1, <3>2, <4>1
    <3>4. CASE k \in off..(off + n - 1)
      <4>1. Start(i) + p \in (off + 1)..(off + n) /\ Start(i) + p - off = k - off + 1
        <5>1. Start(i) + p = k + 1
          BY <2>3 DEF p
        <5>2. k + 1 \in (off + 1)..(off + n) /\ k + 1 - off = k - off + 1
          BY ONLY <3>4, <2>0, <1>1
        <5>3. QED
          BY <5>1, <5>2, <2>1, <2>3
      <4>2. QED
        BY <2>2, <3>3, <3>4, <4>1 DEF p
    <3>5. CASE k \notin off..(off + n - 1)
      <4>1. Start(i) + p \notin (off + 1)..(off + n)
        <5>1. Start(i) + p = k + 1
          BY <2>3 DEF p
        <5>2. k + 1 \notin (off + 1)..(off + n)
          BY ONLY <3>5, <2>0, <1>1
        <5>3. QED
          BY <5>1, <5>2
      <4>2. Len(OldChunk(i)) = IF Start(i) < size
              THEN AtMost(ChunkSize, size - Start(i)) ELSE 0
        BY <2>1, <2>6, <1>7
      <4>3. p <= Len(OldChunk(i)) <=> k < size
        BY <4>2, <2>0, <2>1, <2>3, <1>1 DEF AtMost, p
      <4>4. k < size => OldChunk(i)[p] = At(k)
        <5>1. k < size => Start(i) < size
          BY <2>0, <2>1, <1>1
        <5>2. QED
          BY <5>1, <2>1, <2>2 DEF Fits, OldChunk, p
      <4>5. QED
        BY <2>2, <3>3, <3>5, <4>1, <4>3, <4>4 DEF p
    <3>6. QED
      BY <3>4, <3>5
  <2>7. CASE i \notin S
    <3>1. chunk'[i] = chunk[i] /\ i \in DOMAIN chunk
      BY <2>1, <2>4, <2>7, <1>7
    <3>2. k \notin off..(off + n - 1)
      BY <2>0, <2>1, <2>7, <1>1, <1>4
    <3>3. k < size
      <4>1. Start(i) < size /\ Len(chunk[i]) = AtMost(ChunkSize, size - Start(i))
        BY <3>1 DEF Fits
      <4>2. off >= Start(i) + ChunkSize \/ Start(i) >= off + n
        BY <2>7, <2>1, <1>1, <1>4
      <4>3. CASE off >= Start(i) + ChunkSize
        BY <4>3, <2>0, <2>1, <1>1, <1>6
      <4>4. CASE Start(i) >= off + n
        BY <4>1, <4>4, <2>0, <2>1, <1>1, <1>3
      <4>5. QED
        BY <4>2, <4>3, <4>4
    <3>4. QED
      BY <2>2, <3>1, <3>2, <3>3
  <2>8. QED
    BY <2>6, <2>7
<1>10. \A k \in 0..(size' - 1) : k \in Nat /\ k < size'
  <2> DEFINE m == size'
  <2>1. m \in Nat
    BY <1>3
  <2> HIDE DEF m
  <2>2. \A k \in 0..(m - 1) : k \in Nat /\ k < m
    BY <2>1
  <2>3. QED
    BY <2>2 DEF m
<1>11. QED
  BY <1>8, <1>9, <1>10

(* BodyTyped and BodyIs, of the next state.                                *)
BodyRight ==
  /\ TypeOK => Body \in Seq(Byte)
  /\ TypeOK /\ Fits => Len(Body) = size /\ \A k \in 0..(size - 1) : Body[k + 1] = At(k)

LEMMA BodyNow == BodyRight
BY BodyTyped, BodyIs DEF BodyRight

LEMMA BodyNext == BodyRight'
BY BodyNow, PTL

(* Truncation to a size of n > 0 leaves rows of the right shape.           *)
LEMMA KeptTyped ==
  ASSUME TypeOK, NEW n \in Nat \ {0},
         chunk' = Kept(n) \/ chunk' = [i \in DOMAIN Kept(n) |-> chunk[i]]
  PROVE  RowsOK'
<1> DEFINE last == (n - 1) \div ChunkSize
           rest == n % ChunkSize
           kept == {j \in DOMAIN chunk : j <= last}
           trim(i) == SubSeq(chunk[i], 1, AtMost(rest, Len(chunk[i])))
<1>0. rest \in Nat
  BY Division, DbFileAssumption
<1>1. Kept(n) = [i \in kept |-> IF i = last /\ rest > 0 THEN trim(i) ELSE chunk[i]]
  BY DEF Kept
<1>2. ASSUME NEW i \in kept, rest > 0
      PROVE  trim(i) \in Seq(Byte) /\ Len(trim(i)) \in 1..ChunkSize
  <2> DEFINE c == chunk[i]
             m == AtMost(rest, Len(c))
  <2>1. c \in Seq(Byte) /\ Len(c) \in 1..ChunkSize /\ ChunkSize \in Nat
    BY DbFileAssumption DEF TypeOK
  <2>2. m \in 1..Len(c)
    BY <2>1, <1>0, <1>2 DEF AtMost
  <2>3. trim(i) = SubSeq(c, 1, m)
    OBVIOUS
  <2> HIDE DEF c, m, trim
  <2>4. \A k \in 1..m : c[k] \in Byte
    BY <2>1, <2>2, ElementOfSeq
  <2>5. SubSeq(c, 1, m) \in Seq(Byte) /\ Len(SubSeq(c, 1, m)) = m
    BY <2>1, <2>2, <2>4, SubSeqProperties
  <2>6. QED
    BY <2>1, <2>2, <2>3, <2>5
<1> HIDE DEF trim, last, rest
<1>3. DOMAIN Kept(n) = kept /\ kept \subseteq DOMAIN chunk
  BY <1>1
<1>4. DOMAIN chunk' = kept
  BY <1>1, <1>3
<1>5. ASSUME NEW i \in kept
      PROVE  /\ chunk'[i] \in Seq(Byte) /\ Len(chunk'[i]) \in 1..ChunkSize
             /\ i \in 0..MaxSize
  <2>1. chunk[i] \in Seq(Byte) /\ Len(chunk[i]) \in 1..ChunkSize /\ i \in 0..MaxSize
    BY DEF TypeOK
  <2>2. chunk'[i] = chunk[i] \/ (rest > 0 /\ chunk'[i] = trim(i))
    BY <1>1, <1>3
  <2>3. QED
    BY <1>2, <2>1, <2>2
<1>6. chunk' = [i \in kept |-> chunk'[i]]
  BY <1>1, <1>3
<1>7. QED
  BY <1>4, <1>5, <1>6 DEF RowsOK

(* An undamaged file keeps its first n bytes.                              *)
LEMMA KeptFits ==
  ASSUME TypeOK, Fits, NEW n \in 1..size, chunk' = Kept(n), size' = n
  PROVE  Fits' /\ \A k \in 0..(n - 1) : At(k)' = At(k)
<1> DEFINE last == (n - 1) \div ChunkSize
           q == n \div ChunkSize
           rest == n % ChunkSize
           kept == {j \in DOMAIN chunk : j <= last}
<1>0. size \in Nat /\ ChunkSize \in Nat \ {0} /\ n \in Nat \ {0} /\ n - 1 \in Nat
  BY DbFileAssumption DEF TypeOK
<1>1. chunk' = [i \in kept |->
                  IF i = last /\ rest > 0
                  THEN SubSeq(chunk[i], 1, AtMost(rest, Len(chunk[i]))) ELSE chunk[i]]
  BY DEF Kept
<1>2. /\ last \in Nat /\ Start(last) <= n - 1 /\ n - 1 < Start(last) + ChunkSize
      /\ \A i \in Int : i <= last <=> Start(i) <= n - 1
  BY <1>0, ChunkOf
<1>3. q \in Nat /\ rest = n - Start(q) /\ Start(q) <= n /\ n < Start(q) + ChunkSize
  BY <1>0, ChunkOf
<1>4. Start(last) \in Nat /\ Start(q) \in Nat
  BY <1>2, <1>3, StartNat
<1> HIDE DEF last, q, rest
<1>5. rest \in Nat
  BY <1>3, <1>4, <1>0
(* Either n lies inside the last chunk, or on the border behind it.        *)
<1>6. \/ rest > 0 /\ rest = n - Start(last)
      \/ rest = 0 /\ n = Start(last) + ChunkSize
  <2>1. CASE q = last
    BY <2>1, <1>0, <1>2, <1>3, <1>4
  <2>2. CASE q < last
    <3>1. Start(q) + ChunkSize <= Start(last)
      BY <2>2, <1>2, <1>3, StartOrder
    <3>2. QED
      BY <3>1, <1>0, <1>2, <1>3, <1>4
  <2>3. CASE last < q
    <3>1. Start(last) + ChunkSize <= Start(q)
      BY <2>3, <1>2, <1>3, StartOrder
    <3>2. QED
      BY <3>1, <1>0, <1>2, <1>3, <1>4
  <2>4. QED
    BY <2>1, <2>2, <2>3, <1>2, <1>3
<1>7. ASSUME NEW i \in Nat
      PROVE  i \in DOMAIN chunk' <=> Start(i) < n
  <2>1. Start(i) \in Nat /\ i \in Int
    BY StartNat
  <2>2. i \in DOMAIN chunk <=> Start(i) < size
    BY DEF Fits
  <2>3. i \in DOMAIN chunk' <=> i \in DOMAIN chunk /\ i <= last
    BY <1>1
  <2>4. QED
    BY <2>1, <2>2, <2>3, <1>0, <1>2
<1>8. ASSUME NEW i \in DOMAIN chunk'
      PROVE  /\ i \in Nat /\ i \in DOMAIN chunk
             /\ Len(chunk'[i]) = AtMost(ChunkSize, n - Start(i))
             /\ \A p \in 1..AtMost(ChunkSize, n - Start(i)) : chunk'[i][p] = chunk[i][p]
  <2>1. i \in Nat /\ i \in DOMAIN chunk /\ i <= last
    BY <1>1 DEF Fits
  <2>2. /\ chunk[i] \in Seq(Byte) /\ Len(chunk[i]) = AtMost(ChunkSize, size - Start(i))
        /\ Start(i) \in Nat /\ Start(i) < n
    BY <2>1, <1>7, StartNat DEF Fits, TypeOK
  <2>3. CASE i = last /\ rest > 0
    <3> DEFINE c == chunk[i]
               m == AtMost(rest, Len(c))
    <3>1. m = n - Start(i) /\ m = AtMost(ChunkSize, n - Start(i))
      BY <2>2, <2>3, <1>0, <1>2, <1>4, <1>6 DEF AtMost
    <3>2. m \in 1..Len(c)
      BY <3>1, <2>2, <1>0 DEF AtMost
    <3>3. chunk'[i] = SubSeq(c, 1, m)
      BY <1>1, <2>1, <2>3
    <3> HIDE DEF m
    <3>4. c \in Seq(Byte) /\ Len(c) \in Nat
      BY <2>2, LenProperties
    <3> HIDE DEF c
    <3>5. \A k \in 1..m : c[k] \in Byte
      BY <3>2, <3>4, ElementOfSeq
    <3>6. /\ Len(SubSeq(c, 1, m)) = m
          /\ \A p \in 1..m : SubSeq(c, 1, m)[p] = c[p]
      BY <3>2, <3>4, <3>5, SubSeqProperties
    <3>7. QED
      BY <2>1, <3>1, <3>3, <3>6 DEF c
  <2>4. CASE ~ (i = last /\ rest > 0)
    <3>1. chunk'[i] = chunk[i]
      BY <1>1, <2>1, <2>4
    <3>2. i < last \/ (i = last /\ rest = 0)
      BY <2>1, <2>4, <1>2, <1>5
    <3>3. i < last => Start(i) + ChunkSize <= Start(last)
      BY <2>1, <1>2, StartOrder
    <3>4. Start(i) + ChunkSize <= n
      BY <2>2, <3>2, <3>3, <1>0, <1>2, <1>4, <1>6
    <3>5. AtMost(ChunkSize, size - Start(i)) = AtMost(ChunkSize, n - Start(i))
      BY <2>2, <3>4, <1>0 DEF AtMost
    <3>6. QED
      BY <2>1, <2>2, <3>1, <3>5
  <2>5. QED
    BY <2>3, <2>4
<1>9. Fits'
  BY <1>7, <1>8 DEF Fits
<1>10. ASSUME NEW k \in 0..(n - 1)
       PROVE  At(k)' = At(k)
  <2> DEFINE i == k \div ChunkSize
             p == k - Start(i) + 1
  <2>1. k \in Nat /\ k < n
    BY <1>0
  <2>2. i \in Nat /\ Start(i) <= k /\ k < Start(i) + ChunkSize /\ Start(i) \in Nat
    BY <2>1, ChunkOf, StartNat
  <2>3. At(k) = chunk[i][p] /\ At(k)' = chunk'[i][p]
    BY DEF At
  <2> HIDE DEF i
  <2>4. i \in DOMAIN chunk'
    BY <2>1, <2>2, <1>0, <1>7
  <2>5. p \in 1..AtMost(ChunkSize, n - Start(i))
    BY <2>1, <2>2, <1>0 DEF AtMost
  <2> HIDE DEF p
  <2>6. QED
    BY <2>3, <2>4, <2>5, <1>8
<1>11. QED
  BY <1>9, <1>10

-----------------------------------------------------------------------------
(* The first m chunks of bytes, all of them if m is their number.          *)
LEMMA ChunksAre ==
  ASSUME DbFileAssumption, NEW bytes \in Contents, NEW m \in 0..NumChunks(bytes),
         chunk' = Chunks(bytes, m)
  PROVE  /\ RowsOK'
         /\ m = NumChunks(bytes) /\ size' = Len(bytes) =>
              /\ Fits'
              /\ \A k \in 0..(size' - 1) : At(k)' = bytes[k + 1]
<1> DEFINE n == Len(bytes)
           a == n + ChunkSize - 1
<1>1. /\ bytes \in Seq(Byte) /\ n \in Nat /\ n <= MaxSize /\ MaxSize \in Nat
      /\ ChunkSize \in Nat \ {0}
  <2>1. PICK l \in 0..MaxInput : bytes \in [1..l -> Byte]
    BY DEF Contents
  <2>2. l \in Nat /\ l <= MaxSize
    BY <2>1, DbFileAssumption
  <2>3. QED
    BY <2>1, <2>2, SeqIs, DbFileAssumption
<1>2. a \in Nat /\ NumChunks(bytes) = a \div ChunkSize /\ NumChunks(bytes) \in Nat
  <2>1. a \in Nat
    BY <1>1
  <2>2. QED
    BY <2>1, ChunkOf DEF NumChunks
<1>3. ASSUME NEW i \in Nat
      PROVE  i + 1 <= NumChunks(bytes) <=> Start(i) < n
  <2>1. i + 1 \in Int /\ i \in Int
    OBVIOUS
  <2>2. i + 1 <= a \div ChunkSize <=> Start(i + 1) <= a
    BY <1>2, <2>1, ChunkOf
  <2>3. Start(i + 1) = Start(i) + ChunkSize /\ Start(i) \in Nat
    BY <2>1, StartNext, StartNat
  <2>4. QED
    BY <1>1, <1>2, <2>2, <2>3
<1> DEFINE part(i) == SubSeq(bytes, Start(i) + 1, AtMost(Start(i) + ChunkSize, n))
<1>4. chunk' = [i \in 0..(m - 1) |-> part(i)]
  <2>1. \A i \in 0..(m - 1) : (i + 1) * ChunkSize = Start(i) + ChunkSize
                              /\ i * ChunkSize = Start(i)
    <3>1. \A i \in 0..(m - 1) : i \in Int /\ i + 1 \in Int
      BY <1>2
    <3>2. QED
      BY <3>1, StartNext DEF Start
  <2>2. chunk' = [i \in 0..(m - 1) |->
                    SubSeq(bytes, i * ChunkSize + 1,
                           AtMost((i + 1) * ChunkSize, Len(bytes)))]
    BY DEF Chunks
  <2>3. QED
    BY <2>1, <2>2
<1>5. m \in Nat /\ m <= NumChunks(bytes)
  BY <1>2
<1>6. ASSUME NEW i \in Nat, Start(i) < n
      PROVE  /\ part(i) \in Seq(Byte)
             /\ Len(part(i)) = AtMost(ChunkSize, n - Start(i))
             /\ Len(part(i)) \in 1..ChunkSize
             /\ \A p \in 1..Len(part(i)) : part(i)[p] = bytes[Start(i) + p]
  <2> DEFINE from == Start(i) + 1
             to == AtMost(Start(i) + ChunkSize, n)
  <2>1. Start(i) \in Nat
    BY StartNat
  <2>2. /\ from \in 1..n /\ to \in 1..n /\ from <= to
        /\ to - from + 1 = AtMost(ChunkSize, n - Start(i))
        /\ to - from + 1 \in 1..ChunkSize
    <3>1. n \in Nat /\ ChunkSize \in Nat \ {0} /\ Start(i) < n
      BY <1>1, <1>6
    <3>2. \A s, c, l \in Nat : c # 0 /\ s < l =>
            /\ s + 1 \in 1..l /\ AtMost(s + c, l) \in 1..l /\ s + 1 <= AtMost(s + c, l)
            /\ AtMost(s + c, l) - (s + 1) + 1 = AtMost(c, l - s)
            /\ AtMost(c, l - s) \in 1..c
      BY DEF AtMost
    <3> QED
      BY ONLY <2>1, <3>1, <3>2
  <2>3. from = Start(i) + 1 /\ part(i) = SubSeq(bytes, from, to)
    OBVIOUS
  <2> HIDE DEF from, to, part
  <2>4. \A k \in from..to : bytes[k] \in Byte
    <3>1. \A k \in from..to : k \in 1..Len(bytes)
      BY <2>2, <1>1
    <3>2. QED
      BY <3>1, <1>1, ElementOfSeq
  <2>5. /\ part(i) \in Seq(Byte) /\ Len(part(i)) = to - from + 1
        /\ \A p \in 1..(to - from + 1) : part(i)[p] = bytes[from + p - 1]
    <3>1. from \in Int /\ to \in Int /\ ~ from > to
      BY <2>2, <1>1
    <3>2. QED
      BY <2>3, <2>4, <3>1, SubSeqProperties
  <2>6. \A p \in 1..(to - from + 1) : from + p - 1 = Start(i) + p
    BY <2>1, <2>2, <2>3, <1>1
  <2>7. QED
    BY <2>2, <2>5, <2>6
<1> HIDE DEF part
<1>7. \A i \in 0..(m - 1) : i \in Nat /\ Start(i) < n
  <2>1. \A i \in 0..(m - 1) : i \in Nat /\ i + 1 <= NumChunks(bytes)
    BY <1>2, <1>5
  <2>2. QED
    BY <2>1, <1>3
<1>8. RowsOK'
  <2>1. DOMAIN chunk' = 0..(m - 1)
    BY <1>4
  <2>2. ASSUME NEW i \in 0..(m - 1) PROVE i \in 0..MaxSize
    <3>1. i \in Nat /\ Start(i) < n
      BY <1>7
    <3>2. i <= Start(i) /\ Start(i) \in Nat
      BY <3>1, StartAbove, StartNat
    <3>3. QED
      BY <3>1, <3>2, <1>1
  <2>3. \A i \in 0..(m - 1) : chunk'[i] \in Seq(Byte) /\ Len(chunk'[i]) \in 1..ChunkSize
    BY <1>4, <1>6, <1>7
  <2>4. chunk' = [i \in DOMAIN chunk' |-> chunk'[i]]
    BY <1>4
  <2>5. QED
    BY <2>1, <2>2, <2>3, <2>4 DEF RowsOK
<1>9. ASSUME m = NumChunks(bytes), size' = n
      PROVE  Fits' /\ \A k \in 0..(size' - 1) : At(k)' = bytes[k + 1]
  <2>1. \A i \in Nat : i \in DOMAIN chunk' <=> Start(i) < n
    <3>1. \A i \in Nat : i \in 0..(m - 1) <=> i + 1 <= NumChunks(bytes)
      BY <1>2, <1>9
    <3>2. QED
      BY <3>1, <1>3, <1>4
  <2>2. \A i \in DOMAIN chunk' : i \in Nat /\ Start(i) < n /\ chunk'[i] = part(i)
    BY <1>4, <1>7
  <2>3. Fits'
    BY <2>1, <2>2, <1>6, <1>9 DEF Fits
  <2>4. ASSUME NEW k \in 0..(n - 1)
        PROVE  At(k)' = bytes[k + 1]
    <3> DEFINE i == k \div ChunkSize
               p == k - Start(i) + 1
    <3>1. k \in Nat /\ k < n
      BY <1>1
    <3>2. i \in Nat /\ Start(i) <= k /\ k < Start(i) + ChunkSize /\ Start(i) \in Nat
      BY <3>1, ChunkOf, StartNat
    <3>3. At(k)' = chunk'[i][p]
      BY DEF At
    <3> HIDE DEF i
    <3>4. Start(i) < n
      BY <3>1, <3>2, <1>1
    <3>5. i \in DOMAIN chunk' /\ chunk'[i] = part(i)
      BY <3>2, <3>4, <2>1, <2>2
    <3>6. p \in 1..Len(part(i)) /\ Start(i) + p = k + 1
      <4>1. Len(part(i)) = AtMost(ChunkSize, n - Start(i))
        BY <3>2, <3>4, <1>6
      <4>2. p \in 1..AtMost(ChunkSize, n - Start(i)) /\ Start(i) + p = k + 1
        BY <3>1, <3>2, <1>1 DEF AtMost
      <4>3. QED
        BY <4>1, <4>2
    <3> HIDE DEF p
    <3>7. QED
      BY <3>2, <3>3, <3>4, <3>5, <3>6, <1>6
  <2>5. QED
    BY <2>3, <2>4, <1>9
<1>10. QED
  BY <1>8, <1>9
-----------------------------------------------------------------------------
(* The operations, as steps of one vector of bytes. *)
LEMMA WriteFlat ==
  ASSUME TypeOK, Fits, TypeOK', NEW off \in 0..MaxSize, NEW bytes \in Inputs,
         ~ LeavesGap(off), Write(off, bytes)
  PROVE  Body' = Flat!Written(Body, off, bytes)
<1> DEFINE n == Len(bytes)
           new == Flat!Written(Body, off, bytes)
           end == Flat!Larger(Len(Body), off + n)
<1>1. /\ bytes \in Seq(Byte) /\ n \in Nat \ {0} /\ off \in Nat /\ size \in Nat
      /\ size' = Longer(off + n, size)
  BY InputsAre, DbFileAssumption DEF TypeOK, Write
<1>2. /\ Fits'
      /\ \A k \in 0..(size' - 1) :
           At(k)' = IF k \in off..(off + n - 1) THEN bytes[k - off + 1]
                    ELSE IF k < size THEN At(k) ELSE Zero
  BY WriteFits
<1>3. Len(Body) = size /\ \A k \in 0..(size - 1) : Body[k + 1] = At(k)
  BY BodyNow DEF BodyRight
<1>4. /\ Body' \in Seq(Byte) /\ Len(Body') = size'
      /\ \A k \in 0..(size' - 1) : Body'[k + 1] = At(k)'
  BY <1>2, BodyNext DEF BodyRight
<1>5. end = size' /\ end \in Nat
  BY <1>1, <1>3 DEF Flat!Larger, Longer
<1>6. new = [k \in 1..end |->
               IF k \in (off + 1)..(off + n) THEN bytes[k - off]
               ELSE IF k <= Len(Body) THEN Body[k] ELSE Zero]
  BY DEF Flat!Written
<1> HIDE DEF new, end
<1>0. end \in Nat
  BY <1>5
<1>7. ASSUME NEW k \in 1..end PROVE Body'[k] = new[k]
  <2>0. k \in Nat /\ 1 <= k /\ k <= end /\ k - 1 \in 0..(end - 1) /\ (k - 1) + 1 = k
    BY <1>0
  <2>1. Body'[k] = At(k - 1)'
    BY <2>0, <1>4, <1>5
  <2>2. At(k - 1)' = IF k - 1 \in off..(off + n - 1) THEN bytes[(k - 1) - off + 1]
                     ELSE IF k - 1 < size THEN At(k - 1) ELSE Zero
    BY <2>0, <1>2, <1>5
  <2>3. /\ k - 1 \in off..(off + n - 1) <=> k \in (off + 1)..(off + n)
        /\ (k - 1) - off + 1 = k - off
        /\ k - 1 < size <=> k <= Len(Body)
    BY <2>0, <1>1, <1>3
  <2>4. k - 1 < size => Body[k] = At(k - 1)
    <3>1. k - 1 < size => k - 1 \in 0..(size - 1)
      BY <2>0, <1>1
    <3>2. QED
      BY <3>1, <2>0, <1>3
  <2>5. QED
    BY <2>1, <2>2, <2>3, <2>4, <1>6
<1>8. Body' = new
  <2>1. new = [k \in 1..end |-> new[k]]
    BY <1>6
  <2>2. Body' = [k \in 1..end |-> Body'[k]]
    BY <1>4, <1>5, SeqDef
  <2>3. QED
    BY <2>1, <2>2, <1>7
<1>9. QED
  BY <1>8 DEF new

LEMMA TruncateFlat ==
  ASSUME TypeOK, Fits, TypeOK', NEW n \in 1..size, chunk' = Kept(n), size' = n
  PROVE  Body' = Flat!Resized(Body, n)
<1> DEFINE new == Flat!Resized(Body, n)
<1>1. size \in Nat /\ n \in Nat
  BY DbFileAssumption DEF TypeOK
<1>2. Fits' /\ \A k \in 0..(n - 1) : At(k)' = At(k)
  BY KeptFits
<1>3. Len(Body) = size /\ \A k \in 0..(size - 1) : Body[k + 1] = At(k)
  BY BodyNow DEF BodyRight
<1>4. /\ Body' \in Seq(Byte) /\ Len(Body') = n
      /\ \A k \in 0..(n - 1) : Body'[k + 1] = At(k)'
  BY <1>2, BodyNext DEF BodyRight
<1>5. new = [k \in 1..n |-> IF k <= Len(Body) THEN Body[k] ELSE Zero]
  BY DEF Flat!Resized
<1> HIDE DEF new
<1>6. ASSUME NEW k \in 1..n PROVE Body'[k] = new[k]
  <2>1. k - 1 \in 0..(n - 1) /\ (k - 1) + 1 = k /\ k <= size /\ k - 1 \in 0..(size - 1)
    BY <1>1
  <2>2. QED
    BY <2>1, <1>2, <1>3, <1>4, <1>5
<1>7. new = [k \in 1..n |-> new[k]] /\ Body' = [k \in 1..n |-> Body'[k]]
  BY <1>4, <1>5, SeqDef
<1>8. QED
  BY <1>6, <1>7 DEF new

LEMMA ContentsFit ==
  ASSUME NEW bytes \in Contents
  PROVE  NumChunks(bytes) \in 0..NumChunks(bytes) /\ Len(bytes) \in 0..MaxSize
<1>1. PICK n \in 0..MaxInput : bytes \in [1..n -> Byte]
  BY DEF Contents
<1>2. n \in 0..MaxSize /\ n \in Nat
  BY DbFileAssumption
<1>3. Len(bytes) = n
  BY <1>1, <1>2, SeqIs
<1>4. n + ChunkSize - 1 \in Nat
  BY <1>2, DbFileAssumption
<1>5. NumChunks(bytes) \in Nat
  BY <1>3, <1>4, ChunkOf DEF NumChunks
<1>6. QED
  BY <1>2, <1>3, <1>5

LEMMA ReplaceFlat ==
  ASSUME DbFileAssumption, TypeOK', NEW bytes \in Contents, Replace(bytes)
  PROVE  Fits' /\ Body' = bytes
<1> DEFINE n == Len(bytes)
<1>1. bytes \in Seq(Byte) /\ n \in Nat
  BY ContentsAre
<1>2. NumChunks(bytes) \in 0..NumChunks(bytes)
  BY ContentsFit
<1>3. chunk' = Chunks(bytes, NumChunks(bytes)) /\ size' = n
  BY DEF Replace
<1>4. Fits' /\ \A k \in 0..(n - 1) : At(k)' = bytes[k + 1]
  BY <1>2, <1>3, ChunksAre
<1>5. /\ Body' \in Seq(Byte) /\ Len(Body') = n
      /\ \A k \in 0..(n - 1) : Body'[k + 1] = At(k)'
  BY <1>3, <1>4, BodyNext DEF BodyRight
<1>6. ASSUME NEW k \in 1..n PROVE Body'[k] = bytes[k]
  <2>1. k - 1 \in 0..(n - 1) /\ (k - 1) + 1 = k
    BY <1>1
  <2>2. QED
    BY <2>1, <1>4, <1>5
<1>7. Body' = bytes
  BY <1>1, <1>5, <1>6, SeqEqual
<1>8. QED
  BY <1>4, <1>7

-----------------------------------------------------------------------------
LEMMA InitContiguous == Init => Contiguous
<1> SUFFICES ASSUME Init PROVE Contiguous
  OBVIOUS
<1>1. TypeOK
  <2>1. /\ DOMAIN chunk = {} /\ chunk \in [DOMAIN chunk -> Seq(Byte)]
        /\ size \in 0..MaxSize /\ torn \in BOOLEAN
    <3>1. size \in 0..MaxSize
      BY DbFileAssumption DEF Init
    <3>2. torn \in BOOLEAN
      BY DEF Init
    <3>3. chunk = [i \in {} |-> <<>>]
      BY DEF Init
    <3>4. DOMAIN chunk = {}
      BY <3>3
    <3>5. QED
      BY <3>1, <3>2, <3>3, <3>4
  <2>2. QED
    BY <2>1 DEF TypeOK
<1>2. Fits
  <2>1. \A i \in Nat : ~ Start(i) < size
    BY StartNat DEF Init
  <2>2. QED
    BY <2>1 DEF Init, Fits
<1>3. QED
  BY <1>1, <1>2, ContiguousFits

(* The state that ContiguousFits and BodyNow speak of, after a step.       *)
ContiguousIs == TypeOK => (Contiguous <=> (~ torn => Fits))

LEMMA ContiguousNext == ContiguousIs'
<1>1. ContiguousIs
  BY ContiguousFits DEF ContiguousIs
<1>2. QED
  BY <1>1, PTL

(* What one step does, to the rows and to the body.                        *)
LEMMA StepRight ==
  ASSUME Contiguous, [Next]_vars
  PROVE  TypeOK' /\ Contiguous' /\ [Flat!Next(0..MaxSize, Contents)]_<<Body, torn>>
<1>1. TypeOK /\ (~ torn => Fits)
  BY ContiguousFits DEF Contiguous
<1>2. TypeOK' /\ (~ torn => Fits)' => Contiguous'
  BY ContiguousNext DEF ContiguousIs
<1>3. TypeOK' => Body' \in Seq(Byte)
  BY BodyNext DEF BodyRight
<1>4. RowsOK' /\ size' \in 0..MaxSize /\ torn' \in BOOLEAN => TypeOK'
  BY DEF RowsOK, TypeOK
<1>5. size \in 0..MaxSize /\ torn \in BOOLEAN /\ size \in Nat /\ MaxSize \in Nat
  BY DbFileAssumption DEF TypeOK, Contiguous
<1>6. ASSUME TypeOK', torn'
      PROVE  Contiguous' /\ Flat!Next(0..MaxSize, Contents)
  BY <1>2, <1>3, <1>6 DEF Flat!Next, Flat!Tear, TypeOK
<1>7. ASSUME NEW off \in 0..MaxSize, NEW bytes \in Inputs, Write(off, bytes)
      PROVE  TypeOK' /\ Contiguous' /\ Flat!Next(0..MaxSize, Contents)
  <2>1. bytes \in Contents /\ Len(bytes) \in Nat \ {0} /\ off \in Nat
    BY InputsAre, DbFileAssumption
  <2>2. RowsOK'
    <3>1. /\ off + Len(bytes) <= MaxSize
          /\ chunk' = Stored(off, bytes, Touched(off, bytes))
          /\ Touched(off, bytes) \in SUBSET Touched(off, bytes)
      BY <1>7 DEF Write
    <3>2. QED
      BY <1>1, <3>1, StoredTyped
  <2>3. TypeOK'
    BY <2>1, <2>2, <1>4, <1>5, <1>7 DEF Write, Longer
  <2>4. CASE torn \/ LeavesGap(off)
    <3>1. torn'
      BY <2>4, <1>7 DEF Write
    <3>2. QED
      BY <2>3, <3>1, <1>6
  <2>5. CASE ~ torn /\ ~ LeavesGap(off)
    <3>1. Fits' /\ Body' = Flat!Written(Body, off, bytes)
      BY <1>1, <1>7, <2>3, <2>5, WriteFits, WriteFlat
    <3>2. torn' = torn
      <4>1. torn' = (torn \/ LeavesGap(off)) /\ torn = FALSE
        BY <2>5, <1>5, <1>7 DEF Write
      <4>2. QED
        BY <2>5, <4>1
    <3>3. Flat!Write(off, bytes)
      BY <3>1, <3>2 DEF Flat!Write
    <3>4. QED
      BY <2>1, <2>3, <3>1, <3>3, <1>2 DEF Flat!Next
  <2>6. QED
    BY <2>4, <2>5
<1>8. ASSUME NEW off \in 0..MaxSize, NEW bytes \in Inputs, WriteCut(off, bytes)
      PROVE  TypeOK' /\ Contiguous' /\ Flat!Next(0..MaxSize, Contents)
  <2>1. RowsOK'
    <3>1. off + Len(bytes) <= MaxSize
      BY <1>8 DEF WriteCut
    <3>2. PICK S \in SUBSET Touched(off, bytes) : chunk' = Stored(off, bytes, S)
      BY <1>8 DEF WriteCut
    <3>3. QED
      BY <1>1, <3>1, <3>2, StoredTyped
  <2>2. TypeOK' /\ torn'
    BY <2>1, <1>4, <1>5, <1>8 DEF WriteCut
  <2>3. QED
    BY <2>2, <1>6
<1>9. ASSUME NEW n \in 0..MaxSize, Truncate(n)
      PROVE  TypeOK' /\ Contiguous' /\ Flat!Next(0..MaxSize, Contents)
  <2>1. n \in Nat /\ size' = n /\ torn' = (n > 0 /\ (torn \/ n > size))
    BY <1>5, <1>9 DEF Truncate
  <2>2. CASE n = 0
    <3>1. chunk' = <<>> /\ ~ torn' /\ torn' \in BOOLEAN
      <4>1. chunk' = <<>>
        BY <2>2, <1>9 DEF Truncate
      <4>2. ~ n > 0
        BY <2>2
      <4>3. torn' = FALSE
        BY <2>1, <4>2
      <4>4. QED
        BY <4>1, <4>3
    <3>2. RowsOK' /\ TypeOK'
      BY <3>1, <2>1, <2>2, <1>4, <1>5 DEF RowsOK
    <3>3. Fits'
      <4>1. \A i \in Nat : ~ Start(i) < 0
        BY StartNat
      <4>2. QED
        BY <4>1, <3>1, <2>1, <2>2 DEF Fits
    <3>4. Body' = <<>>
      <4>1. Body' \in Seq(Byte) /\ Len(Body') = 0
        BY <3>2, <3>3, <2>1, <2>2, BodyNext DEF BodyRight
      <4>2. QED
        BY <4>1, EmptySeq
    <3>5. Flat!Drop
      BY <3>1, <3>4 DEF Flat!Drop
    <3>6. QED
      BY <3>2, <3>3, <3>5, <1>2 DEF Flat!Next
  <2>3. CASE n # 0
    <3>1. chunk' = Kept(n) /\ n \in Nat \ {0}
      BY <2>1, <2>3, <1>9 DEF Truncate
    <3>2. TypeOK'
      <4>1. RowsOK'
        BY <3>1, <1>1, KeptTyped
      <4>2. size' \in 0..MaxSize /\ torn' \in BOOLEAN
        BY <2>1
      <4>3. QED
        BY <4>1, <4>2, <1>4
    <3>3. CASE torn \/ n > size
      <4>1. torn'
        <5>1. n > 0
          BY <3>1
        <5>2. torn' = (n > 0 /\ (torn \/ n > size))
          BY <2>1
        <5>3. QED
          BY <5>1, <5>2, <3>3
      <4>2. QED
        BY <4>1, <3>2, <1>6
    <3>4. CASE ~ torn /\ ~ n > size
      <4>1. n \in 1..size /\ torn' = torn
        BY <2>1, <3>1, <3>4, <1>5
      <4>2. Fits' /\ Body' = Flat!Resized(Body, n)
        BY <4>1, <3>1, <3>2, <3>4, <2>1, <1>1, KeptFits, TruncateFlat
      <4>3. Flat!Truncate(n)
        BY <4>1, <4>2 DEF Flat!Truncate
      <4>4. QED
        BY <4>2, <4>3, <3>2, <1>2 DEF Flat!Next
    <3>5. QED
      BY <3>3, <3>4
  <2>4. QED
    BY <2>2, <2>3
<1>10. ASSUME NEW n \in 0..MaxSize, TruncateCut(n)
       PROVE  TypeOK' /\ Contiguous' /\ Flat!Next(0..MaxSize, Contents)
  <2>1. RowsOK'
    <3>1. CASE n = 0
      BY <3>1, <1>10 DEF TruncateCut, RowsOK
    <3>2. CASE n # 0
      <4>1. n \in Nat \ {0}
        BY <3>2, <1>5
      <4>2. chunk' = Kept(n) \/ chunk' = [i \in DOMAIN Kept(n) |-> chunk[i]]
        BY <3>2, <1>10 DEF TruncateCut
      <4>3. QED
        BY <4>1, <4>2, <1>1, KeptTyped
    <3>3. QED
      BY <3>1, <3>2
  <2>2. TypeOK' /\ torn'
    BY <2>1, <1>4, <1>5, <1>10 DEF TruncateCut
  <2>3. QED
    BY <2>2, <1>6
<1>11. ASSUME NEW bytes \in Contents, Replace(bytes)
       PROVE  TypeOK' /\ Contiguous' /\ Flat!Next(0..MaxSize, Contents)
  <2>1. chunk' = Chunks(bytes, NumChunks(bytes)) /\ size' = Len(bytes) /\ torn' = FALSE
    BY <1>11 DEF Replace
  <2>2. NumChunks(bytes) \in 0..NumChunks(bytes) /\ Len(bytes) \in 0..MaxSize
    BY ContentsFit
  <2>3. TypeOK'
    <3>1. RowsOK'
      BY <2>1, <2>2, ChunksAre, DbFileAssumption
    <3>2. QED
      BY <3>1, <2>1, <2>2, <1>4
  <2>4. Fits' /\ Body' = bytes
    BY <2>3, <1>11, ReplaceFlat, DbFileAssumption
  <2>5. Flat!Replace(bytes)
    BY <2>1, <2>4 DEF Flat!Replace
  <2>6. QED
    BY <2>3, <2>4, <2>5, <1>2 DEF Flat!Next
<1>12. ASSUME NEW bytes \in Contents, ReplaceCut(bytes)
       PROVE  TypeOK' /\ Contiguous' /\ Flat!Next(0..MaxSize, Contents)
  <2>1. RowsOK'
    <3>1. PICK k \in 0..NumChunks(bytes) : chunk' = Chunks(bytes, k)
      BY <1>12 DEF ReplaceCut
    <3>2. QED
      BY <3>1, ChunksAre, DbFileAssumption
  <2>2. TypeOK' /\ torn'
    BY <2>1, <1>4, <1>5, <1>12 DEF ReplaceCut
  <2>3. QED
    BY <2>2, <1>6
<1>13. ASSUME UNCHANGED vars
       PROVE  TypeOK' /\ Contiguous' /\ UNCHANGED <<Body, torn>>
  <2>1. chunk' = chunk /\ size' = size /\ torn' = torn
    BY <1>13 DEF vars
  <2>2. TypeOK'
    BY <2>1, <1>1 DEF TypeOK
  <2>3. Contiguous'
    BY <2>1, <2>2, <1>1, <1>2 DEF Fits
  <2>4. Body' = Body
    BY <2>1 DEF Body, Joined, LastIndex, OldChunk
  <2>5. QED
    BY <2>1, <2>2, <2>3, <2>4
<1>14. QED
  BY <1>7, <1>8, <1>9, <1>10, <1>11, <1>12, <1>13 DEF Next
-----------------------------------------------------------------------------
(* An undamaged file is exactly the chunks of its size, all full but the   *)
(* last, whatever writes, truncations, replacements and kills led to it.   *)
THEOREM ChunksContiguous == Spec => []Contiguous
<1>1. Contiguous /\ [Next]_vars => Contiguous'
  BY StepRight
<1>2. QED
  BY <1>1, InitContiguous, PTL DEF Spec

(* DbFile::read at any offset returns the bytes read_all_content has there.*)
THEOREM ReadsRight == Spec => []ReadsAgree
<1>1. Contiguous => ReadsAgree
  <2> SUFFICES ASSUME Contiguous, ~ torn, NEW off \in 0..MaxSize, NEW n \in 0..MaxSize
               PROVE  Read(off, n) = SubSeq(Body, off + 1, AtMost(off + n, size))
    BY DEF ReadsAgree
  <2>1. TypeOK /\ Fits
    BY ContiguousFits DEF Contiguous
  <2>2. off \in Nat /\ n \in Nat
    BY DbFileAssumption
  <2>3. QED
    BY <2>1, <2>2, ReadIs
<1>2. QED
  BY <1>1, ChunksContiguous, PTL

(* The chunks implement the vector of bytes of FlatFile.                   *)
THEOREM FileImplementsFlat == Spec => ImplementsFlat
<1>1. Init => Flat!Init
  <2> SUFFICES ASSUME Init PROVE Flat!Init
    OBVIOUS
  <2>1. TypeOK /\ Fits /\ size = 0 /\ torn = FALSE
    BY InitContiguous, ContiguousFits DEF Contiguous, Init
  <2>2. Body \in Seq(Byte) /\ Len(Body) = 0
    BY <2>1, BodyNow DEF BodyRight
  <2>3. QED
    BY <2>1, <2>2, EmptySeq DEF Flat!Init
<1>2. Contiguous /\ [Next]_vars => [Flat!Next(0..MaxSize, Contents)]_<<Body, torn>>
  BY StepRight
<1>3. QED
  BY <1>1, <1>2, ChunksContiguous, PTL DEF Spec, ImplementsFlat, FlatSpec
=============================================================================
