------------------------------- MODULE DbFile -------------------------------
(***************************************************************************)
(* The contents of a file in the cache (cache/file.rs, and the two places  *)
(* that read or replace them whole, Db::read_all_content and               *)
(* UnisonFs::write_content_to_ino): rows of fs_data, chunks of ChunkSize   *)
(* bytes and a shorter last one, and the size in fs_inode.                 *)
(*                                                                         *)
(* An operation holds the connection throughout but is no transaction:     *)
(* each statement commits by itself, so a kill leaves a part of them done. *)
(***************************************************************************)
EXTENDS Integers, SequencesExt

CONSTANTS
  ChunkSize,
  Byte, Zero,  (* bytes, Zero among them                                 *)
  Panic,       (* a slice out of range                                   *)
  MaxSize,     (* bound: size of the file                                *)
  MaxInput     (* bound: bytes of one write                              *)

ASSUME DbFileAssumption ==
  /\ ChunkSize \in Nat \ {0}
  /\ Zero \in Byte
  /\ MaxSize \in Nat /\ MaxInput \in 0..MaxSize

VARIABLES
  chunk,   (* fs_data of the inode: chunk_index -> data                  *)
  size,    (* fs_inode.size                                              *)
  torn     (* history: chunks and size no longer fit together            *)

vars == <<chunk, size, torn>>

Inputs == UNION {[1..n -> Byte] : n \in 1..MaxInput}
Contents == UNION {[1..n -> Byte] : n \in 0..MaxInput}

Init == chunk = <<>> /\ size = 0 /\ torn = FALSE

OldChunk(i) == IF i \in DOMAIN chunk THEN chunk[i] ELSE <<>>
AtMost(a, b) == IF a <= b THEN a ELSE b
Longer(a, b) == IF a >= b THEN a ELSE b

(* The rows with an index in from..to, joined in order: a missing row      *)
(* leaves no gap, a short one is not padded.                               *)
Joined(from, to) ==
  FlattenSeq([k \in 1..(to - from + 1) |-> OldChunk(from + k - 1)])

LastIndex == IF chunk = <<>> THEN 0
             ELSE CHOOSE i \in DOMAIN chunk : \A j \in DOMAIN chunk : j <= i

(* read_all_content: all rows, cut off at size. *)
Body ==
  LET all == Joined(0, LastIndex) IN SubSeq(all, 1, AtMost(size, Len(all)))

(* Mutant of Read: the chunk of the byte after the last one is taken. *)
ReadShort(off, n) ==
  IF off >= size THEN <<>>
  ELSE LET first == off \div ChunkSize
           last == (AtMost(off + n, size) \div ChunkSize) - 1
           got == Joined(first, last)
           skip == off - first * ChunkSize
           take == AtMost(AtMost(n, Longer(Len(got) - skip, 0)), size - off)
       IN IF skip > Len(got) THEN Panic ELSE SubSeq(got, skip + 1, skip + take)

(* DbFile::read: a file with missing or short rows may not reach as far as *)
(* its size says, and the slice that starts behind the bytes there are     *)
(* panics.                                                                 *)
Read(off, n) ==
  IF off >= size THEN <<>>
  ELSE LET first == off \div ChunkSize
           last == Longer(AtMost(off + n, size) - 1, 0) \div ChunkSize
           got == Joined(first, last)
           skip == off - first * ChunkSize
           take == AtMost(AtMost(n, Longer(Len(got) - skip, 0)), size - off)
       IN IF skip > Len(got) THEN Panic ELSE SubSeq(got, skip + 1, skip + take)
-----------------------------------------------------------------------------
(* The chunks that a write of bytes at off touches.                        *)
Touched(off, bytes) ==
  (off \div ChunkSize)..((off + Len(bytes) - 1) \div ChunkSize)

(* Mutant of Merged: only the last chunk is padded, to what is written.    *)
MergedUnpadded(off, bytes, i) ==
  LET start == i * ChunkSize
      upto == AtMost(off + Len(bytes) - start, ChunkSize)
  IN [k \in 1..upto |->
        IF start + k \in (off + 1)..(off + Len(bytes))
        THEN bytes[start + k - off]
        ELSE IF k <= Len(OldChunk(i)) THEN OldChunk(i)[k] ELSE Zero]

(* Chunk i after it: padded with zeros up to the last byte written in it.  *)
Merged(off, bytes, i) ==
  LET start == i * ChunkSize
      upto == Longer(Len(OldChunk(i)),
                     AtMost(off + Len(bytes) - start, ChunkSize))
  IN [k \in 1..upto |->
        IF start + k \in (off + 1)..(off + Len(bytes))
        THEN bytes[start + k - off]
        ELSE IF k <= Len(OldChunk(i)) THEN OldChunk(i)[k] ELSE Zero]

Stored(off, bytes, S) ==
  [i \in DOMAIN chunk \cup S |->
     IF i \in S THEN Merged(off, bytes, i) ELSE chunk[i]]

(* The write starts in a chunk behind the one the file ends in: the rows   *)
(* between are missing, or the last one stays short.                       *)
LeavesGap(off) == off \div ChunkSize > size \div ChunkSize

Write(off, bytes) ==
  /\ off + Len(bytes) <= MaxSize
  /\ chunk' = Stored(off, bytes, Touched(off, bytes))
  /\ size' = Longer(off + Len(bytes), size)
  /\ torn' = (torn \/ LeavesGap(off))

(* Killed after some rows, written in the order of a hash map, are in.     *)
WriteCut(off, bytes) ==
  /\ off + Len(bytes) <= MaxSize
  /\ \E S \in SUBSET Touched(off, bytes) : chunk' = Stored(off, bytes, S)
  /\ torn' = TRUE
  /\ UNCHANGED size

(* Mutant of Kept: the chunk behind the last byte stays. *)
KeptOneMore(n) ==
  LET last == n \div ChunkSize
      rest == n % ChunkSize
  IN [i \in {j \in DOMAIN chunk : j <= last} |->
        IF i = last /\ rest > 0
        THEN SubSeq(chunk[i], 1, AtMost(rest, Len(chunk[i])))
        ELSE chunk[i]]

(* The rows that truncate keeps for a size of n > 0, the last one trimmed. *)
Kept(n) ==
  LET last == (n - 1) \div ChunkSize
      rest == n % ChunkSize
  IN [i \in {j \in DOMAIN chunk : j <= last} |->
        IF i = last /\ rest > 0
        THEN SubSeq(chunk[i], 1, AtMost(rest, Len(chunk[i])))
        ELSE chunk[i]]

(* truncate to nothing mends the file; to more than there is adds no row.  *)
Truncate(n) ==
  /\ n \in 0..MaxSize
  /\ chunk' = IF n = 0 THEN <<>> ELSE Kept(n)
  /\ size' = n
  /\ torn' = (n > 0 /\ (torn \/ n > size))

(* Killed before the size is set, the rows beyond it deleted, the last one *)
(* perhaps trimmed.                                                        *)
TruncateCut(n) ==
  /\ n \in 0..MaxSize
  /\ chunk' \in IF n = 0 THEN {<<>>}
                ELSE {[i \in DOMAIN Kept(n) |-> chunk[i]], Kept(n)}
  /\ torn' = TRUE
  /\ UNCHANGED size

(* content.chunks(chunk_size), the first k of them.                        *)
Chunks(bytes, k) ==
  [i \in 0..(k - 1) |->
     SubSeq(bytes, i * ChunkSize + 1, AtMost((i + 1) * ChunkSize, Len(bytes)))]

NumChunks(bytes) == (Len(bytes) + ChunkSize - 1) \div ChunkSize

(* write_content_to_ino: a pulled document replaces the contents ...       *)
Replace(bytes) ==
  /\ chunk' = Chunks(bytes, NumChunks(bytes))
  /\ size' = Len(bytes)
  /\ torn' = FALSE

(* ... or the first chunks of it do.                                       *)
ReplaceCut(bytes) ==
  /\ \E k \in 0..NumChunks(bytes) : chunk' = Chunks(bytes, k)
  /\ torn' = TRUE
  /\ UNCHANGED size
-----------------------------------------------------------------------------
Next ==
  \/ \E off \in 0..MaxSize, bytes \in Inputs :
       Write(off, bytes) \/ WriteCut(off, bytes)
  \/ \E n \in 0..MaxSize : Truncate(n) \/ TruncateCut(n)
  \/ \E bytes \in Contents : Replace(bytes) \/ ReplaceCut(bytes)

Spec == Init /\ [][Next]_vars
-----------------------------------------------------------------------------
(* The types: no chunk is empty or longer than a chunk. *)
TypeOK ==
  /\ DOMAIN chunk \subseteq 0..MaxSize
  /\ chunk \in [DOMAIN chunk -> Seq(Byte)]
  /\ \A i \in DOMAIN chunk : Len(chunk[i]) \in 1..ChunkSize
  /\ size \in 0..MaxSize
  /\ torn \in BOOLEAN

(* The chunks of an undamaged file are those of size bytes: each up to the *)
(* last is there and full, and none lies behind it.  Those of a damaged    *)
(* one keep their types.                                                   *)
Contiguous ==
  /\ TypeOK
  /\ ~ torn =>
       /\ DOMAIN chunk = 0..(((size + ChunkSize - 1) \div ChunkSize) - 1)
       /\ \A i \in DOMAIN chunk :
            Len(chunk[i]) = AtMost(ChunkSize, size - i * ChunkSize)

(* A read of an undamaged file at any offset and length does not panic and *)
(* returns the bytes that read_all_content, which a push starts from, has  *)
(* there.  (What a push sends are these bytes only if they are UTF-8:      *)
(* execute_push replaces every other sequence.)                            *)
ReadsAgree ==
  ~ torn => \A off \in 0..MaxSize, n \in 0..MaxSize :
              Read(off, n) = SubSeq(Body, off + 1, AtMost(off + n, size))

Flat == INSTANCE FlatFile WITH data <- Body, torn <- torn

FlatSpec == Flat!Init /\ [][Flat!Next(0..MaxSize, Contents)]_<<Body, torn>>

(* The chunks implement one vector of bytes: whatever is written at        *)
(* whatever offset, cut off, replaced or lost to a kill, an undamaged file *)
(* holds what the reference implementation of the trait would hold.        *)
ImplementsFlat == FlatSpec
=============================================================================
