---------------------------- MODULE SecondChance ----------------------------
(***************************************************************************)
(* The clock walk of getNextSCTLB and getNextSCSWAP (addrspace.cc:402-416  *)
(* and 466-494) in closed form, over n places with use bits use[0..n-1]:   *)
(* starting at the hand, clear set use bits until one is found clear.      *)
(***************************************************************************)
EXTENDS Integers

Place(hand, k, n) == (hand + k) % n

(* How many places are passed over; all n of them when every bit is set.   *)
Passes(use, hand, n) ==
  IF \A i \in 0..n-1 : use[i]
  THEN n
  ELSE CHOOSE k \in 0..n-1 :
         /\ ~use[Place(hand, k, n)]
         /\ \A j \in 0..k-1 : use[Place(hand, j, n)]

Victim(use, hand, n) == Place(hand, Passes(use, hand, n), n)

Passed(use, hand, n) == {Place(hand, j, n) : j \in 0..Passes(use, hand, n)-1}

NewHand(use, hand, n) == Place(hand, Passes(use, hand, n) + 1, n)
=============================================================================
