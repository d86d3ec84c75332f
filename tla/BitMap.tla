------------------------------- MODULE BitMap -------------------------------
(***************************************************************************)
(* Class BitMap (userprog/bitmap.cc): the bits are kept in words, and the  *)
(* words are saved to a file and read back.  The frame map, the swap map,  *)
(* the tables of open files and semaphores and the free map of the disk    *)
(* are bit maps.                                                           *)
(*                                                                         *)
(* The constructor takes words that hold anything and clears the bits      *)
(* below numBits, so the bits of the last word beyond numBits stay what    *)
(* they were.                                                              *)
(***************************************************************************)
EXTENDS Integers, FiniteSetsExt

CONSTANTS NumBits, BitsInWord

BitMapAssumption == NumBits \in Nat \ {0} /\ BitsInWord \in Nat \ {0}

VARIABLES
  map,     \* the words, unsigned
  answer,  \* what the last Find returned
  file     \* the words in the file

vars == <<map, answer, file>>

numWords == (NumBits + BitsInWord - 1) \div BitsInWord

Words == [0 .. numWords - 1 -> 0 .. 2 ^ BitsInWord - 1]

Bits == 0 .. NumBits - 1

(* map[which / BitsInWord] & (1 << (which % BitsInWord))                   *)
Test(words, which) ==
  (words[which \div BitsInWord] \div 2 ^ (which % BitsInWord)) % 2 = 1

(* map[which / BitsInWord] |= 1 << (which % BitsInWord)                    *)
Marked(words, which) ==
  IF Test(words, which) THEN words
  ELSE [words EXCEPT ![which \div BitsInWord] = @ + 2 ^ (which % BitsInWord)]

(* map[which / BitsInWord] &= ~(1 << (which % BitsInWord))                 *)
Cleared(words, which) ==
  IF Test(words, which)
  THEN [words EXCEPT ![which \div BitsInWord] = @ - 2 ^ (which % BitsInWord)]
  ELSE words

NumClear(words) == Cardinality({i \in Bits : ~ Test(words, i)})

(* BitMap::BitMap.  The file has been written by an earlier map.           *)
Init ==
  /\ map \in {words \in Words : \A i \in Bits : ~ Test(words, i)}
  /\ answer = -1
  /\ file = map

Mark(which) ==
  /\ map' = Marked(map, which)
  /\ UNCHANGED <<answer, file>>

Clear(which) ==
  /\ map' = Cleared(map, which)
  /\ UNCHANGED <<answer, file>>

Find ==
  LET free == {i \in Bits : ~ Test(map, i)}
  IN  /\ answer' = IF free = {} THEN -1 ELSE Min(free)
      /\ map' = IF free = {} THEN map ELSE Marked(map, answer')
      /\ UNCHANGED file

WriteBack ==
  /\ file' = map
  /\ UNCHANGED <<map, answer>>

(* Mutant: only the words that are full of bits are read.                  *)
FetchFromFull ==
  /\ map' = [w \in DOMAIN map |-> IF w < NumBits \div BitsInWord THEN file[w] ELSE map[w]]
  /\ UNCHANGED <<answer, file>>

FetchFrom ==
  /\ map' = file
  /\ UNCHANGED <<answer, file>>

Next ==
  \/ Find
  \/ WriteBack
  \/ FetchFrom
  \/ \E which \in Bits : Mark(which) \/ Clear(which)

Spec == Init /\ [][Next]_vars

-----------------------------------------------------------------------------
MarkedSet(words) == {i \in Bits : Test(words, i)}

BitsOf == INSTANCE BitSet WITH marked <- MarkedSet(map)

(* bitmap.cc: Mark, Clear and Find on words are Mark, Clear and Find on a  *)
(* set of numbers, for any contents of the unused bits; reading the file   *)
(* brings back the set that was written.                                   *)
SetStep ==
  \/ [BitsOf!Next]_(BitsOf!vars)
  \/ MarkedSet(map') = MarkedSet(file) /\ UNCHANGED answer

(* FileHeader::Allocate asks NumClear once and then calls Find that many   *)
(* times without looking at the result (filehdr.cc:46-50): each Find takes *)
(* one from the count and fails only at zero.                              *)
FindCounts ==
  Find => IF NumClear(map) = 0 THEN answer' = -1
          ELSE answer' \in Bits /\ NumClear(map') = NumClear(map) - 1

(* The words stay within their width, and the bits beyond numBits are      *)
(* never touched (bitmap.cc:49, 63).                                       *)
SpareBitsStep ==
  /\ map' \in Words
  /\ \A i \in NumBits .. numWords * BitsInWord - 1 :
       Test(map', i) \in {Test(map, i), Test(file, i)}
=============================================================================
