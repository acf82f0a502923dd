------------------------------ MODULE FlatFile ------------------------------
(***************************************************************************)
(* What a file of the FileSystem trait promises, as MemFileHandle of       *)
(* vfs/mem.rs keeps it: one vector of bytes, padded with zeros when it     *)
(* grows.  The vector may be damaged by a crash in the middle of a change  *)
(* and when it grows over a gap that nobody wrote; a damaged file promises *)
(* nothing until its contents are replaced or dropped as a whole.          *)
(***************************************************************************)
EXTENDS Integers, SequencesExt

CONSTANTS Byte, Zero

VARIABLES data, torn

File == <<data, torn>>

(* Vec::resize(n, 0) *)
Resized(d, n) == [k \in 1..n |-> IF k <= Len(d) THEN d[k] ELSE Zero]

Larger(a, b) == IF a >= b THEN a ELSE b

Written(d, off, bytes) ==
  [k \in 1..Larger(Len(d), off + Len(bytes)) |->
     IF k \in (off + 1)..(off + Len(bytes)) THEN bytes[k - off]
     ELSE IF k <= Len(d) THEN d[k] ELSE Zero]

Slice(d, off, n) == SubSeq(d, off + 1, off + n)

Init == data = <<>> /\ torn = FALSE

Write(off, bytes) ==
  /\ ~ torn => data' = Written(data, off, bytes)
  /\ torn' = torn

(* truncate and setattr with a size *)
Truncate(n) ==
  /\ ~ torn => data' = Resized(data, n)
  /\ torn' = torn

Drop ==
  /\ data' = <<>>
  /\ torn' = FALSE

Replace(bytes) ==
  /\ data' = bytes
  /\ torn' = FALSE

(* A change over a gap, or cut short. *)
Tear ==
  /\ data' \in Seq(Byte)
  /\ torn' = TRUE

Next(Offsets, Inputs) ==
  \/ \E off \in Offsets, bytes \in Inputs : Write(off, bytes)
  \/ \E n \in Offsets : Truncate(n)
  \/ Drop
  \/ \E bytes \in Inputs : Replace(bytes)
  \/ Tear
=============================================================================
