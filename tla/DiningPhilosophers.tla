------------------------- MODULE DiningPhilosophers -------------------------
(***************************************************************************)
(* The dining philosophers of threads/dinningph.cc and their threads       *)
(* (Philo in threads/threadtest.cc), on the monitor MesaMonitor.  The      *)
(* thread of philosopher i waits on the condition self[i], so threads and  *)
(* conditions are both the philosophers.                                   *)
(***************************************************************************)
EXTENDS MesaMonitor

CONSTANTS
  N,        \* philosophers; the code has 5
  Rounds    \* meals of each of them; the code has 10

PhilosophersAssumption ==
  /\ N \in Nat /\ N >= 2
  /\ Threads = 0..(N - 1) /\ Conds = Threads
  /\ Rounds \in Nat

VARIABLES
  state,   \* DinningPh::state
  pc,      \* where each philosopher is
  meals    \* iterations of the loop of Philo done

vars == <<monitorVars, state, pc, meals>>

\* "think", "eat": outside the monitor, without and with the sticks.
\* "pickup", "wait", "picked": in pickup, before test, in Wait, at Release.
\* "putdown", "put": in putdown, before its tests and at Release.
Location == {"think", "pickup", "wait", "picked", "eat", "putdown", "put", "finished"}

Left(i) == (i + N - 1) % N
Right(i) == (i + 1) % N

Init ==
  /\ MonitorInit
  /\ state = [i \in Threads |-> "Thinking"]
  /\ pc = [i \in Threads |-> IF Rounds = 0 THEN "finished" ELSE "think"]
  /\ meals = [i \in Threads |-> 0]

Goto(i, from, to) == pc[i] = from /\ pc' = [pc EXCEPT ![i] = to]

(* Mutant: only one neighbour is looked at.                                *)
MayEatOneSide(i, st) ==
  st[Left(i)] # "Eating" /\ st[i] = "Hungry"

(* The condition of DinningPh::test, and the states after it.              *)
MayEat(i, st) ==
  st[Left(i)] # "Eating" /\ st[i] = "Hungry" /\ st[Right(i)] # "Eating"

test(i, st) == IF MayEat(i, st) THEN [st EXCEPT ![i] = "Eating"] ELSE st

(* The Signals of test: one for each philosopher it lets eat.              *)
SignalEach(S) ==
  /\ waiting' = [c \in Conds |->
                  IF c \in S /\ waiting[c] # <<>> THEN Tail(waiting[c]) ELSE waiting[c]]
  /\ woken' = woken \cup { Head(waiting[c]) : c \in { s \in S : waiting[s] # <<>> } }

(* DinningPh::pickup                                                       *)
PickupLock(i) ==
  /\ Goto(i, "think", "pickup")
  /\ Acquire(i)
  /\ UNCHANGED <<state, meals>>

(* Nobody waits on self[i] while its philosopher runs, so that the Signal  *)
(* of this test does nothing.                                              *)
PickupTest(i) ==
  LET st == test(i, [state EXCEPT ![i] = "Hungry"])
  IN  /\ state' = st
      /\ IF st[i] = "Hungry"
         THEN Goto(i, "pickup", "wait") /\ Wait(i, i)
         ELSE Goto(i, "pickup", "picked") /\ Signal(i, i)
      /\ UNCHANGED meals

PickupWake(i) ==
  /\ Goto(i, "wait", "picked")
  /\ Regain(i)
  /\ UNCHANGED <<state, meals>>

PickupUnlock(i) ==
  /\ Goto(i, "picked", "eat")
  /\ Release(i)
  /\ UNCHANGED <<state, meals>>

(* DinningPh::putdown                                                      *)
PutdownLock(i) ==
  /\ Goto(i, "eat", "putdown")
  /\ Acquire(i)
  /\ UNCHANGED <<state, meals>>

PutdownTest(i) ==
  LET st == test(Right(i), test(Left(i), [state EXCEPT ![i] = "Thinking"]))
  IN  /\ Goto(i, "putdown", "put")
      /\ state' = st
      /\ SignalEach({ j \in Threads : st[j] = "Eating" /\ state[j] = "Hungry" })
      /\ UNCHANGED <<holder, meals>>

(* Mutant: the loop does not count.                                        *)
PutdownUncounted(i) ==
  /\ Goto(i, "put", "think")
  /\ Release(i)
  /\ UNCHANGED <<state, meals>>

(* Release, and the end of an iteration of Philo.                          *)
PutdownUnlock(i) ==
  /\ Goto(i, "put", IF meals[i] + 1 = Rounds THEN "finished" ELSE "think")
  /\ Release(i)
  /\ meals' = [meals EXCEPT ![i] = @ + 1]
  /\ UNCHANGED state

Philo(i) ==
  \/ PickupLock(i) \/ PickupTest(i) \/ PickupWake(i) \/ PickupUnlock(i)
  \/ PutdownLock(i) \/ PutdownTest(i) \/ PutdownUnlock(i)

Finished == (\A i \in Threads : pc[i] = "finished") /\ UNCHANGED vars

Next == (\E i \in Threads : Philo(i)) \/ Finished

Spec == Init /\ [][Next]_vars

-----------------------------------------------------------------------------
TypeOK ==
  /\ state \in [Threads -> {"Thinking", "Hungry", "Eating"}]
  /\ pc \in [Threads -> Location]
  /\ meals \in [Threads -> 0..Rounds]

HasSticks(i) == pc[i] \in {"picked", "eat", "putdown"}

(* No two neighbours are between the return of pickup and putdown.         *)
NeighboursApart ==
  \A i \in Threads : HasSticks(i) /\ Left(i) # i => ~HasSticks(Left(i))

(* A philosopher that comes back from Wait may eat, although pickup does   *)
(* not test again (dinningph.cc:25-26 has "if", not "while").              *)
WokenMayEat == \A i \in Threads : HasSticks(i) => state[i] = "Eating"

(* Whenever the monitor is free, every hungry philosopher has a neighbour  *)
(* that is eating or has been told to, and so will test it: no stick lies  *)
(* idle beside a hungry philosopher who could use both.                    *)
HungryForAReason ==
  holder = NoThread =>
    \A i \in Threads :
      state[i] = "Hungry" => state[Left(i)] = "Eating" \/ state[Right(i)] = "Eating"

AllHaveEaten == \A i \in Threads : meals[i] = Rounds

(* Every philosopher gets all its meals: none starves while the others     *)
(* have only so many meals.                                                *)
AllGetTheirMeals == <>AllHaveEaten
=============================================================================
