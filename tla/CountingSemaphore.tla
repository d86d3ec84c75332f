------------------------- MODULE CountingSemaphore -------------------------
(***************************************************************************)
(* What a Nachos semaphore promises to its users (threads/synch.h:24-48):  *)
(* P waits until the value is positive and then takes one unit of it, V    *)
(* adds one unit, and neither is ever observed half done.  Nothing is said *)
(* about which of the threads inside P gets a unit.                        *)
(***************************************************************************)
EXTENDS Integers

CONSTANTS Threads, Sems, InitialValue

VARIABLES
  value,     \* units available in each semaphore
  waiting    \* threads that have called P and have not yet got their unit

semVars == <<value, waiting>>

SemInit ==
  /\ value = InitialValue
  /\ waiting = [s \in Sems |-> {}]

(* A call of P that finds a unit and returns at once.                      *)
Take(s) ==
  /\ value[s] > 0
  /\ value' = [value EXCEPT ![s] = @ - 1]
  /\ UNCHANGED waiting

(* A call of P that finds none.                                            *)
Enter(t, s) ==
  /\ value[s] = 0
  /\ \A r \in Sems : t \notin waiting[r]
  /\ waiting' = [waiting EXCEPT ![s] = @ \cup {t}]
  /\ UNCHANGED value

(* A waiting thread gets its unit and returns from P.                      *)
Leave(t, s) ==
  /\ t \in waiting[s]
  /\ value[s] > 0
  /\ value' = [value EXCEPT ![s] = @ - 1]
  /\ waiting' = [waiting EXCEPT ![s] = @ \ {t}]

Post(s) ==
  /\ value' = [value EXCEPT ![s] = @ + 1]
  /\ UNCHANGED waiting

SemNext ==
  \E s \in Sems :
    \/ Take(s)
    \/ Post(s)
    \/ \E t \in Threads : Enter(t, s) \/ Leave(t, s)

SemSpec == SemInit /\ [][SemNext]_semVars
=============================================================================
