------------------------------- MODULE BitSet -------------------------------
(***************************************************************************)
(* The contract of class BitMap (userprog/bitmap.h): a set of marked       *)
(* numbers below NumBits.  answer is what the last Find returned.          *)
(***************************************************************************)
EXTENDS Integers, FiniteSetsExt

CONSTANT NumBits
VARIABLES marked, answer

vars == <<marked, answer>>

Bits == 0 .. NumBits - 1

Init == marked = {} /\ answer = -1

Mark(which) == marked' = marked \cup {which} /\ UNCHANGED answer

Clear(which) == marked' = marked \ {which} /\ UNCHANGED answer

(* Find allocates the first clear bit, or returns -1.                      *)
Find ==
  IF marked = Bits
  THEN answer' = -1 /\ UNCHANGED marked
  ELSE answer' = Min(Bits \ marked) /\ marked' = marked \cup {answer'}

Next == Find \/ \E which \in Bits : Mark(which) \/ Clear(which)

Spec == Init /\ [][Next]_vars
=============================================================================
