-------------------------- MODULE MCSynchronisation -------------------------
(***************************************************************************)
(* The synchronisation classes of threads/ and the lists under them.  The  *)
(* components are explored side by side in one run; the variable part says *)
(* which of them, in which instance, a behaviour is about.                 *)
(***************************************************************************)
EXTENDS Integers, Sequences

VARIABLES
  part,   \* the component a behaviour is about
  pc, cond, target, mutex, lockHolder, waitQueue, waiter, holder, waiting,
  woken, list, state, meals, item, first, last, next, key, used, ptr,
  element

vars == <<part,
          pc, cond, target, mutex, lockHolder, waitQueue, waiter, holder,
          waiting, woken, list, state, meals, item, first, last, next, key,
          used, ptr, element>>

\* Four threads, one lock and a condition: signals and broadcasts race with waits.
Locks == INSTANCE Monitors WITH
  Threads <- 1..4, Conds <- {1}, NoThread <- 0

\* Two conditions of one lock.
Conditions == INSTANCE Monitors WITH
  Threads <- 1..3, Conds <- {1, 2}, NoThread <- 0

\* Four threads that append and remove; one of them also applies.
SyncList == INSTANCE SynchList WITH
  Threads <- 1..4, Conds <- {1}, listEmpty <- 1, Items <- {1, 2},
  Appliers <- {1}, MaxLen <- 2, NULL <- 0, NoThread <- 0

\* Without Apply, which may keep the lock from the others for ever.
WaitingList == INSTANCE SynchList WITH
  Threads <- 1..4, Conds <- {1}, listEmpty <- 1, Items <- {1},
  Appliers <- {}, MaxLen <- 2, NULL <- 0, NoThread <- 0

\* The five philosophers of threadtest.cc, two meals each.
Table == INSTANCE DiningPhilosophers WITH
  N <- 5, Rounds <- 2, Threads <- 0..4, Conds <- 0..4, NoThread <- -1

\* All operations on lists of up to three elements.
AnyList == INSTANCE LinkedList WITH
  Nodes <- 1..3, Items <- {1, 2}, Keys <- {0, 1}, Sorted <- FALSE, NULL <- 0

\* The Sorted operations alone, on up to four elements.
SortedList == INSTANCE LinkedList WITH
  Nodes <- 1..4, Items <- {1}, Keys <- {1, 2, 3}, Sorted <- TRUE, NULL <- 0

ASSUME
  /\ Locks!MonitorsAssumption /\ Conditions!MonitorsAssumption
  /\ SyncList!SynchListAssumption /\ WaitingList!SynchListAssumption
  /\ Table!PhilosophersAssumption
  /\ AnyList!LinkedListAssumption /\ SortedList!LinkedListAssumption

-----------------------------------------------------------------------------
(* A component that is not the one of the behaviour has no state.          *)
Init ==
  \/ /\ \/ part = "locks" /\ Locks!Init
        \/ part = "conditions" /\ Conditions!Init
     /\ holder = 0 /\ waiting = 0 /\ woken = 0 /\ list = 0 /\ state = 0
     /\ meals = 0 /\ item = 0 /\ first = 0 /\ last = 0 /\ next = 0
     /\ key = 0 /\ used = 0 /\ ptr = 0 /\ element = 0
  \/ /\ \/ part = "synch list" /\ SyncList!Init
        \/ part = "waiting list" /\ WaitingList!Init
     /\ cond = 0 /\ target = 0 /\ mutex = 0 /\ lockHolder = 0
     /\ waitQueue = 0 /\ waiter = 0 /\ state = 0 /\ meals = 0 /\ first = 0
     /\ last = 0 /\ next = 0 /\ key = 0 /\ used = 0 /\ ptr = 0
     /\ element = 0
  \/ /\ part = "table" /\ Table!Init
     /\ cond = 0 /\ target = 0 /\ mutex = 0 /\ lockHolder = 0
     /\ waitQueue = 0 /\ waiter = 0 /\ list = 0 /\ item = 0 /\ first = 0
     /\ last = 0 /\ next = 0 /\ key = 0 /\ used = 0 /\ ptr = 0
     /\ element = 0
  \/ /\ \/ part = "list" /\ AnyList!Init
        \/ part = "sorted list" /\ SortedList!Init
     /\ cond = 0 /\ target = 0 /\ mutex = 0 /\ lockHolder = 0
     /\ waitQueue = 0 /\ waiter = 0 /\ holder = 0 /\ waiting = 0
     /\ woken = 0 /\ list = 0 /\ state = 0 /\ meals = 0

(* All threads of a monitor may wait for a signal that nobody gives; that  *)
(* is the end of such a behaviour.                                         *)
Stopped ==
  /\ part \in {"locks", "conditions", "synch list", "waiting list"}
  /\ UNCHANGED vars

Next ==
  \/ /\ \/ part = "locks" /\ Locks!Next
        \/ part = "conditions" /\ Conditions!Next
     /\ UNCHANGED <<part,
                    holder, waiting, woken, list, state, meals, item, first,
                    last, next, key, used, ptr, element>>
  \/ /\ \/ part = "synch list" /\ SyncList!Next
        \/ part = "waiting list" /\ WaitingList!Next
     /\ UNCHANGED <<part,
                    cond, target, mutex, lockHolder, waitQueue, waiter,
                    state, meals, first, last, next, key, used, ptr, element>>
  \/ /\ part = "table" /\ Table!Next
     /\ UNCHANGED <<part,
                    cond, target, mutex, lockHolder, waitQueue, waiter,
                    list, item, first, last, next, key, used, ptr, element>>
  \/ /\ \/ part = "list" /\ AnyList!Next
        \/ part = "sorted list" /\ SortedList!Next
     /\ UNCHANGED <<part,
                    cond, target, mutex, lockHolder, waitQueue, waiter,
                    holder, waiting, woken, list, state, meals>>
  \/ Stopped

Spec ==
  /\ Init /\ [][Next]_vars
  /\ \A t \in 1..4 : WF_(WaitingList!vars)(part = "waiting list" /\ WaitingList!Continue(t))
  /\ \A i \in 0..4 : WF_(Table!vars)(part = "table" /\ Table!Philo(i))

-----------------------------------------------------------------------------
(* Locks and conditions (synch.cc:144-219): one thread at a time is        *)
(* between P and V of the mutex, lockHolder is exact where the assertions  *)
(* of Release, Wait and Signal read it, and no signal is lost between the  *)
(* queueing of a waiter's semaphore and its P.                             *)
SignalsKept ==
  /\ part = "locks" => Locks!Inv /\ Locks!MonitorSound
  /\ part = "conditions" => Conditions!Inv /\ Conditions!MonitorSound

(* Lock and Condition implement the monitor of synch.h; releasing the lock *)
(* and starting to wait appear as one step, and so does a whole Broadcast. *)
ImplementsMonitor ==
  /\ part = "locks" => Locks!Monitor!MonitorInit
  /\ part = "conditions" => Conditions!Monitor!MonitorInit
  /\ [][/\ part = "locks" => [Locks!Monitor!MonitorNext]_(Locks!Monitor!monitorVars)
        /\ part = "conditions" =>
             [Conditions!Monitor!MonitorNext]_(Conditions!Monitor!monitorVars)]_vars

(* No item lies in a synchronised list while its remover sleeps, and no    *)
(* Remove returns without an item (synchlist.h:86, 103).                   *)
NoStrandedItem ==
  /\ part = "synch list" => SyncList!NoStrandedItem /\ SyncList!RemoveFindsItem
  /\ part = "waiting list" => WaitingList!NoStrandedItem /\ WaitingList!RemoveFindsItem

(* A synchronised list hands out every item once, in order.                *)
ImplementsFifo ==
  /\ part = "synch list" => SyncList!Fifo!ListInit
  /\ [][part = "synch list" => [SyncList!Fifo!ListNext]_(SyncList!Fifo!listVars)]_vars

(* An item in a synchronised list is handed out if anybody wants one: the  *)
(* loop around Wait in Remove (synchlist.h:103-105) does not starve all.   *)
ItemsAreTaken ==
  (part = "waiting list" /\ WaitingList!SomeWanted)
    ~> (part = "waiting list" /\ WaitingList!SomeReturns)

(* The philosophers (dinningph.cc): neighbours never eat together; one     *)
(* that comes back from Wait may eat though pickup tests only once; and    *)
(* one stays hungry only beside a neighbour that will test it.             *)
NeighboursApart ==
  part = "table" => Table!NeighboursApart /\ Table!WokenMayEat /\ Table!HungryForAReason

(* Every philosopher gets all its meals.                                   *)
AllGetTheirMeals == (part = "table") ~> (part = "table" /\ Table!AllHaveEaten)

(* The linked list (list.h) implements a sequence: items leave in the      *)
(* order their insertion gave them, first come first served among equal    *)
(* keys; the elements reached from first are the allocated ones, last is   *)
(* the last of them, and the Sorted operations keep the order of the keys  *)
(* (list.h:128-168, 244-292).                                              *)
ImplementsSequence ==
  /\ [](part = "list" => AnyList!StructureExact)
  /\ [](part = "sorted list" => SortedList!StructureExact /\ SortedList!StaysSorted)
  /\ part = "list" => AnyList!Abstract!Init
  /\ part = "sorted list" => SortedList!Abstract!Init
  /\ [][/\ part = "list" => [AnyList!Abstract!Next]_(AnyList!Order)
        /\ part = "sorted list" => [SortedList!Abstract!Next]_(SortedList!Order)]_vars
=============================================================================
