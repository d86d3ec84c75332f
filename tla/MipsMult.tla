------------------------------ MODULE MipsMult ------------------------------
(***************************************************************************)
(* Mult of machine/mipssim.cc: the product of two words of W bits as two   *)
(* words, by shifts and additions.  One step is one iteration of its loop. *)
(* a is an int, so it is shifted with its sign; the other words are        *)
(* unsigned.                                                               *)
(***************************************************************************)
EXTENDS Integers

CONSTANT W

MultWidth == W \in Nat \ {0, 1}

VARIABLES
  x, y, signedArith,             \* the arguments
  a, bLo, bHi, lo, hi, negative, \* the locals
  i,
  pc

vars == <<x, y, signedArith, a, bLo, bHi, lo, hi, negative, i, pc>>

Word == 0 .. 2 ^ W - 1
Top == 2 ^ (W - 1)
Wrap(n) == n % 2 ^ W
Signed(w) == IF w >= Top THEN w - 2 ^ W ELSE w

(* The sign of the result, and the operands made positive.  The least int  *)
(* is its own negative.                                                    *)
Magnitude(w) == IF signedArith /\ Signed(w) < 0 THEN Wrap(- w) ELSE w

Init ==
  /\ x \in Word /\ y \in Word /\ signedArith \in BOOLEAN
  /\ a = Magnitude(x) /\ bLo = Magnitude(y)
  /\ negative = (signedArith /\ (Signed(x) < 0) # (Signed(y) < 0))
  /\ bHi = 0 /\ lo = 0 /\ hi = 0 /\ i = 0
  /\ pc = IF x = 0 \/ y = 0 THEN "done" ELSE "loop"

(* Mutant: the carry out of the low word is lost.                          *)
AddInNoCarry ==
  /\ lo' = Wrap(lo + bLo)
  /\ hi' = Wrap(hi + bHi)

(* The addition of b for a bit of a that is set; lo < bLo is the carry.    *)
AddIn ==
  /\ lo' = Wrap(lo + bLo)
  /\ hi' = Wrap(hi + bHi + (IF lo' < bLo THEN 1 ELSE 0))

(* b one to the left, a one to the right.                                  *)
Shift ==
  /\ bHi' = Wrap(2 * bHi) + (IF bLo >= Top THEN 1 ELSE 0)
  /\ bLo' = Wrap(2 * bLo)
  /\ a' = (a \div 2) + (IF a >= Top THEN Top ELSE 0)
  /\ i' = i + 1

Iterate ==
  /\ pc = "loop"
  /\ i < W
  /\ IF a % 2 = 1 THEN AddIn ELSE UNCHANGED <<lo, hi>>
  /\ IF a = 1
     THEN pc' = "sign" /\ UNCHANGED <<bHi, bLo, a, i>>
     ELSE Shift /\ pc' = IF i' < W THEN "loop" ELSE "sign"
  /\ UNCHANGED <<x, y, signedArith, negative>>

(* The two's complement of the double word.                                *)
Negate ==
  /\ pc = "sign"
  /\ lo' = IF negative THEN Wrap(2 ^ W - 1 - lo + 1) ELSE lo
  /\ hi' = IF negative THEN Wrap(2 ^ W - 1 - hi + (IF lo' = 0 THEN 1 ELSE 0)) ELSE hi
  /\ pc' = "done"
  /\ UNCHANGED <<x, y, signedArith, a, bLo, bHi, negative, i>>

Next == Iterate \/ Negate

Spec == Init /\ [][Next]_vars

-----------------------------------------------------------------------------
(* "The words at *hiPtr and *loPtr are overwritten with the double-length  *)
(* result of the multiplication" (mipssim.cc:631-632), for signed and      *)
(* unsigned operands, the least int included.                              *)
ProductExact ==
  pc = "done" =>
    LET product == IF signedArith THEN Signed(x) * Signed(y) ELSE x * y
    IN  hi * 2 ^ W + lo = product % 2 ^ (2 * W)
=============================================================================
