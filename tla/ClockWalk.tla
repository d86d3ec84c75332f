----------------------------- MODULE ClockWalk -----------------------------
(***************************************************************************)
(* The loop of getNextSCSWAP (addrspace.cc:466-494) and, over the use bits *)
(* of the TLB, of getNextSCTLB (402-416), one iteration per step, from     *)
(* every setting of the use bits and of the hand.                          *)
(***************************************************************************)
EXTENDS SecondChance

CONSTANT MaxPlaces     \* bound on the number of frames or TLB slots

WalkAssumption == MaxPlaces \in Nat \ {0}

VARIABLES
  n,         \* number of places
  use, hand,
  freeSpace, \* the victim, -1 before it is found
  use0, hand0

vars == <<n, use, hand, freeSpace, use0, hand0>>

Init ==
  /\ n \in 1..MaxPlaces
  /\ use \in [0..n-1 -> BOOLEAN]
  /\ hand \in 0..n-1
  /\ freeSpace = -1
  /\ use0 = use
  /\ hand0 = hand

(* Mutant: the place found unused is left for the next walk to start at.   *)
IterationStays ==
  /\ freeSpace = -1
  /\ IF use[hand]
     THEN /\ use' = [use EXCEPT ![hand] = FALSE]
          /\ hand' = (hand + 1) % n
          /\ UNCHANGED freeSpace
     ELSE /\ freeSpace' = hand
          /\ UNCHANGED <<use, hand>>
  /\ UNCHANGED <<n, use0, hand0>>

Iteration ==
  /\ freeSpace = -1
  /\ IF use[hand]
     THEN use' = [use EXCEPT ![hand] = FALSE] /\ UNCHANGED freeSpace
     ELSE freeSpace' = hand /\ UNCHANGED use
  /\ hand' = (hand + 1) % n
  /\ UNCHANGED <<n, use0, hand0>>

Done == freeSpace # -1 /\ UNCHANGED vars

Next == Iteration \/ Done

Spec == Init /\ [][Next]_vars

-----------------------------------------------------------------------------
(* The closed form of SecondChance, which VirtualMemory is built on, is    *)
(* what the loop computes: the victim, the bits cleared and the new hand.  *)
ClosedFormRight ==
  freeSpace # -1 =>
    /\ freeSpace = Victim(use0, hand0, n)
    /\ use = [i \in 0..n-1 |-> use0[i] /\ i \notin Passed(use0, hand0, n)]
    /\ hand = NewHand(use0, hand0, n)

(* A victim has been found, and the loop has ended.                        *)
Found == freeSpace # -1
=============================================================================
