--------------------------- MODULE UserSemaphores ---------------------------
(***************************************************************************)
(* The semaphores of user programs: the system calls SemCreate, SemWait,   *)
(* SemSignal and SemDestroy (userprog/exception.cc) and the table that     *)
(* translates identifiers into kernel semaphores (userprog/NachosSems.cc). *)
(* The threads are those of one program, which share the table (Fork).     *)
(* P, V and Destroy are those of threads/synch.cc: a woken thread tests    *)
(* the value again.  Identifiers outside the table, with which the code    *)
(* would index the array all the same, are not modelled.                   *)
(***************************************************************************)
EXTENDS Integers, Sequences, FiniteSetsExt

CONSTANTS
  Threads,
  TableSize,   \* MAX_SEMS; the code has 6
  Objects,     \* the Semaphore objects that may be allocated
  InitValues,  \* the arguments given to SemCreate
  MaxValue,    \* bound on the value of a semaphore
  NULL         \* the entry -1 of an unused identifier

UserSemaphoresAssumption ==
  /\ TableSize \in Nat /\ InitValues \subseteq Int /\ NULL \notin Objects

Ids == 0..(TableSize - 1)

VARIABLES
  semaphores,   \* NachosSems::semaphores
  openSemsMap,  \* NachosSems::openSemsMap, as the set of marked bits
  allocated,    \* the objects in existence; none is ever deleted
  value, queue, \* of each object
  pc,           \* "run", or inside P: "asleep" in the queue, "woken"
  on            \* the object whose P a thread is inside of

vars == <<semaphores, openSemsMap, allocated, value, queue, pc, on>>
tableVars == <<semaphores, openSemsMap, allocated>>

Init ==
  /\ semaphores = [i \in Ids |-> NULL]
  /\ openSemsMap = {}
  /\ allocated = {}
  /\ value = [o \in Objects |-> 0]
  /\ queue = [o \in Objects |-> <<>>]
  /\ pc = [t \in Threads |-> "run"]
  /\ on = [t \in Threads |-> NULL]

Registered(o) == \E i \in Ids : semaphores[i] = o

(* Mutant: Destroy deletes the object, and new may return its memory.      *)
SemCreateReuses(t, o, v) ==
  /\ pc[t] = "run"
  /\ ~Registered(o)
  /\ openSemsMap # Ids
  /\ LET i == Min(Ids \ openSemsMap)
     IN  /\ semaphores' = [semaphores EXCEPT ![i] = o]
         /\ openSemsMap' = openSemsMap \cup {i}
  /\ allocated' = allocated \cup {o}
  /\ value' = [value EXCEPT ![o] = v]
  /\ UNCHANGED <<queue, pc, on>>

(* Nachos_SemCreate: the object is created first; registerSem gives it the *)
(* first free identifier, or none, and then nothing leads to the object.   *)
SemCreate(t, o, v) ==
  /\ pc[t] = "run"
  /\ o \notin allocated
  /\ allocated' = allocated \cup {o}
  /\ value' = [value EXCEPT ![o] = v]
  /\ IF openSemsMap = Ids
     THEN UNCHANGED <<semaphores, openSemsMap>>
     ELSE LET i == Min(Ids \ openSemsMap)
          IN  /\ semaphores' = [semaphores EXCEPT ![i] = o]
              /\ openSemsMap' = openSemsMap \cup {i}
  /\ UNCHANGED <<queue, pc, on>>

(* The body of P's loop, and what follows it.                              *)
WaitOn(t, o) ==
  /\ queue' = [queue EXCEPT ![o] = Append(@, t)]
  /\ pc' = [pc EXCEPT ![t] = "asleep"]
  /\ on' = [on EXCEPT ![t] = o]
  /\ UNCHANGED value

TakeUnit(t, o) ==
  /\ value' = [value EXCEPT ![o] = @ - 1]
  /\ pc' = [pc EXCEPT ![t] = "run"]
  /\ on' = [on EXCEPT ![t] = NULL]
  /\ UNCHANGED queue

(* Nachos_SemWait                                                          *)
SemWait(t, i) ==
  /\ pc[t] = "run"
  /\ semaphores[i] # NULL
  /\ value[semaphores[i]] > -MaxValue
  /\ IF value[semaphores[i]] = 0
     THEN WaitOn(t, semaphores[i])
     ELSE TakeUnit(t, semaphores[i])
  /\ UNCHANGED tableVars

ResumeP(t) ==
  /\ pc[t] = "woken"
  /\ IF value[on[t]] = 0 THEN WaitOn(t, on[t]) ELSE TakeUnit(t, on[t])
  /\ UNCHANGED tableVars

(* Nachos_SemSignal                                                        *)
SemSignal(t, i) ==
  LET o == semaphores[i]
  IN  /\ pc[t] = "run" /\ o # NULL /\ value[o] < MaxValue
      /\ value' = [value EXCEPT ![o] = @ + 1]
      /\ IF queue[o] = <<>>
         THEN UNCHANGED <<queue, pc>>
         ELSE /\ queue' = [queue EXCEPT ![o] = Tail(@)]
              /\ pc' = [pc EXCEPT ![Head(queue[o])] = "woken"]
      /\ UNCHANGED <<tableVars, on>>

(* SemWait, SemSignal and SemDestroy with an identifier that is not in use *)
(* return -1 and do nothing.                                               *)
Refused(t, i) == pc[t] = "run" /\ semaphores[i] = NULL /\ UNCHANGED vars

(* Mutant: unRegisterSem frees the identifier and keeps the pointer.       *)
SemDestroyKeepsPointer(t, i) ==
  LET o == semaphores[i]
  IN  /\ pc[t] = "run" /\ o # NULL /\ i \in openSemsMap
      /\ openSemsMap' = openSemsMap \ {i}
      /\ pc' = [u \in Threads |-> IF pc[u] = "asleep" /\ on[u] = o THEN "woken" ELSE pc[u]]
      /\ queue' = [queue EXCEPT ![o] = <<>>]
      /\ UNCHANGED <<semaphores, allocated, value, on>>

(* Nachos_SemDestroy: unRegisterSem, then Semaphore::Destroy, which makes  *)
(* every waiter ready and leaves the value as it is.                       *)
SemDestroy(t, i) ==
  LET o == semaphores[i]
  IN  /\ pc[t] = "run" /\ o # NULL
      /\ semaphores' = [semaphores EXCEPT ![i] = NULL]
      /\ openSemsMap' = openSemsMap \ {i}
      /\ pc' = [u \in Threads |-> IF pc[u] = "asleep" /\ on[u] = o THEN "woken" ELSE pc[u]]
      /\ queue' = [queue EXCEPT ![o] = <<>>]
      /\ UNCHANGED <<allocated, value, on>>

Next ==
  \E t \in Threads :
    \/ ResumeP(t)
    \/ \E o \in Objects, v \in InitValues : SemCreate(t, o, v)
    \/ \E i \in Ids : SemWait(t, i) \/ SemSignal(t, i) \/ SemDestroy(t, i) \/ Refused(t, i)

Spec == Init /\ [][Next]_vars

-----------------------------------------------------------------------------
InQueue(o) == { queue[o][k] : k \in 1..Len(queue[o]) }

(* Types; the queues hold exactly the sleepers, each once.                 *)
TypeOK ==
  /\ semaphores \in [Ids -> Objects \cup {NULL}]
  /\ pc \in [Threads -> {"run", "asleep", "woken"}]
  /\ \A o \in Objects :
       /\ InQueue(o) = { t \in Threads : pc[t] = "asleep" /\ on[t] = o }
       /\ Len(queue[o]) = Cardinality(InQueue(o))

(* The bit map and the array agree, and no semaphore has two identifiers:  *)
(* the next SemCreate never takes an identifier that still leads to a      *)
(* semaphore somebody waits on (NachosSems.cc:31-54).                      *)
IdentifiersExact ==
  /\ openSemsMap = { i \in Ids : semaphores[i] # NULL }
  /\ \A i, j \in Ids : semaphores[i] = semaphores[j] /\ semaphores[i] # NULL => i = j

(* While threads sleep on a semaphore, every unit of it has a woken thread *)
(* on its way to it.                                                       *)
NoSleeperBesideUnit ==
  \A o \in Objects :
    queue[o] # <<>> =>
      value[o] <= Cardinality({ t \in Threads : pc[t] = "woken" /\ on[t] = o })

(* A destroyed semaphore gets no unit any more, and no identifier: a V     *)
(* meant for a new semaphore cannot reach it.                              *)
DeadStaysDead ==
  \A o \in allocated : ~Registered(o) => ~Registered(o)' /\ value'[o] <= value[o]

DestroyedIsDead == [][DeadStaysDead]_vars
=============================================================================
