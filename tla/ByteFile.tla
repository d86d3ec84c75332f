------------------------------ MODULE ByteFile ------------------------------
(***************************************************************************)
(* What class OpenFile promises (filesys/openfile.h): a file is an array   *)
(* of bytes of fixed length with a current position.  result is what the   *)
(* last call returned: the bytes read, or those written.                   *)
(***************************************************************************)
EXTENDS Integers, Sequences

CONSTANTS Buffers, MaxRequest, MaxPosition

VARIABLES bytes, position, result

vars == <<bytes, position, result>>

(* How many of n bytes at p lie within the file.                           *)
Within(n, p) ==
  CHOOSE k \in 0 .. n : \A j \in 1 .. n : (p + j <= Len(bytes)) <=> (j <= k)

Seek(p) == position' = p /\ UNCHANGED <<bytes, result>>

ReadAt(n, p) == result' = SubSeq(bytes, p + 1, p + Within(n, p)) /\ UNCHANGED bytes

WriteAt(from, p) ==
  LET k == Within(Len(from), p)
  IN  /\ result' = SubSeq(from, 1, k)
      /\ bytes' = [b \in DOMAIN bytes |->
                     IF b \in p + 1 .. p + k THEN from[b - p] ELSE bytes[b]]

Advance == position' = position + Len(result')

Next ==
  \/ \E p \in 0 .. MaxPosition :
       \/ Seek(p)
       \/ \E n \in 0 .. MaxRequest : ReadAt(n, p) /\ UNCHANGED position
       \/ \E from \in Buffers : WriteAt(from, p) /\ UNCHANGED position
  \/ \E n \in 0 .. MaxRequest : ReadAt(n, position) /\ Advance
  \/ \E from \in Buffers : WriteAt(from, position) /\ Advance
=============================================================================
