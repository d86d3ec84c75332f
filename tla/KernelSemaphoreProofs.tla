------------------------ MODULE KernelSemaphoreProofs ------------------------
(***************************************************************************)
(* What the semaphores of Kernel promise: no wake-up is lost, and they     *)
(* implement the abstract counting semaphores.                             *)
(***************************************************************************)
EXTENDS KernelProofs, FiniteSetTheorems

(* The threads woken for a semaphore are finitely many.                    *)
LEMMA WokenFinite ==
  ASSUME NEW s
  PROVE  IsFiniteSet(Woken(s)) /\ Cardinality(Woken(s)) \in Nat
  <1>1. Woken(s) \in SUBSET Threads
    BY DEF Woken, Inside
  <1> QED
    BY <1>1, KernelAssumption, FS_Subset, FS_CardinalityType

(* A step that leaves the value, the queue and the woken threads of a      *)
(* semaphore alone loses no wake-up on it.                                 *)
LEMMA QuietStep ==
  ASSUME NoLostWakeup, NEW r \in Sems, value'[r] = value[r], queue'[r] = queue[r],
         Woken(r)' = Woken(r), queue'[r] # <<>>
  PROVE  value'[r] <= Cardinality(Woken(r)')
  BY DEF NoLostWakeup

(* V adds one unit and, if a thread sleeps, one woken thread.              *)
LEMMA VKeepsWakeups ==
  ASSUME Inv, NoLostWakeup, NEW s \in Sems, V(s), UNCHANGED <<pc, waitsFor>>
  PROVE  NoLostWakeup'
  <1> SUFFICES ASSUME NEW r \in Sems, queue'[r] # <<>>
               PROVE  value'[r] <= Cardinality(Woken(r)')
    BY DEF NoLostWakeup
  <1>1. Inside(r)' = Inside(r)
    BY DEF Inside
  <1>2. CASE queue[s] = <<>>
    <2>1. r # s /\ status' = status /\ queue' = queue /\ value'[r] = value[r]
      BY <1>2 DEF V, Inv, TypeOK
    <2>2. Woken(r)' = Woken(r)
      BY <1>1, <2>1 DEF Woken
    <2> QED
      BY <2>1, <2>2, QuietStep
  <1>3. CASE queue[s] # <<>>
    <2> DEFINE h == Head(queue[s])
    <2>1. /\ status' = [status EXCEPT ![h] = "READY"]
          /\ queue' = [queue EXCEPT ![s] = Tail(@)]
          /\ value' = [value EXCEPT ![s] = @ + 1]
      BY <1>3 DEF V
    <2>2. h \in Threads /\ In(h, queue[s])
      BY <1>3, InTail DEF Inv, TypeOK, QueuesExact
    <2>3. status[h] = "BLOCKED" /\ h \in Inside(s) /\ (r # s => h \notin Inside(r))
      BY <2>2 DEF Inv, QueuesExact, Inside
    <2> HIDE DEF h
    <2>4. CASE r = s
      <3>1. Woken(s)' = Woken(s) \cup {h}
        BY <1>1, <2>1, <2>2, <2>3, <2>4 DEF Woken, Inv, TypeOK, Inside
      <3>2. h \notin Woken(s)
        BY <2>3 DEF Woken
      <3>3. Cardinality(Woken(s)') = Cardinality(Woken(s)) + 1
        BY <3>1, <3>2, WokenFinite, FS_AddElement
      <3>4. value[s] <= Cardinality(Woken(s))
        BY <1>3 DEF NoLostWakeup
      <3>5. value'[s] = value[s] + 1 /\ value[s] \in Nat
        BY <2>1 DEF Inv, TypeOK
      <3>6. Cardinality(Woken(s)) \in Nat
        BY WokenFinite
      <3> QED
        BY <3>3, <3>4, <3>5, <3>6, <2>4
    <2>5. CASE r # s
      <3>1. Woken(r)' = Woken(r)
        BY <1>1, <2>1, <2>2, <2>3, <2>5 DEF Woken, Inv, TypeOK, Inside
      <3>2. value'[r] = value[r] /\ queue'[r] = queue[r]
        BY <2>1, <2>5 DEF Inv, TypeOK
      <3> QED
        BY <3>1, <3>2, QuietStep
    <2> QED
      BY <2>4, <2>5
  <1> QED
    BY <1>2, <1>3

(* A thread sleeps in P only when no unit is left.                         *)
LEMMA WaitOnKeepsWakeups ==
  ASSUME Inv, NoLostWakeup, NEW s \in Sems, WaitOn(s), value[s] = 0,
         status[currentThread] = "RUNNING",
         pc[currentThread] = "P" => waitsFor[currentThread] = s,
         Inv'
  PROVE  NoLostWakeup'
  <1> SUFFICES ASSUME NEW r \in Sems, queue'[r] # <<>>
               PROVE  value'[r] <= Cardinality(Woken(r)')
    BY DEF NoLostWakeup
  <1>1. CASE r = s
    <2>1. Cardinality(Woken(s)') \in Nat
      <3>1. Woken(s)' \in SUBSET Threads
        BY DEF Woken, Inside
      <3> QED
        BY <3>1, KernelAssumption, FS_Subset, FS_CardinalityType
    <2>2. value'[s] = 0
      BY DEF WaitOn
    <2> QED
      BY <1>1, <2>1, <2>2
  <1>2. CASE r # s
    <2>1. Woken(r)' = Woken(r)
      BY <1>2 DEF WaitOn, Woken, Inside, Inv, TypeOK
    <2>2. value'[r] = value[r] /\ queue'[r] = queue[r]
      BY <1>2 DEF WaitOn, Inv, TypeOK
    <2> QED
      BY <2>1, <2>2, QuietStep
  <1> QED
    BY <1>1, <1>2

(* A thread that takes a unit was woken for it or had not slept.           *)
LEMMA TakeUnitKeepsWakeups ==
  ASSUME Inv, NoLostWakeup, NEW s \in Sems, TakeUnit(s), value[s] # 0,
         status[currentThread] = "RUNNING",
         pc[currentThread] = "P" => waitsFor[currentThread] = s
  PROVE  NoLostWakeup'
  <1> SUFFICES ASSUME NEW r \in Sems, queue'[r] # <<>>
               PROVE  value'[r] <= Cardinality(Woken(r)')
    BY DEF NoLostWakeup
  <1>1. queue' = queue
    BY DEF TakeUnit
  <1>2. CASE r = s
    <2>1. Woken(s)' = Woken(s) \ {currentThread}
      BY KernelAssumption DEF TakeUnit, Woken, Inside, Inv, TypeOK
    <2>2. Cardinality(Woken(s)') >= Cardinality(Woken(s)) - 1
      <3>1. /\ IsFiniteSet(Woken(s)) /\ Cardinality(Woken(s)) \in Nat
        BY WokenFinite
      <3>2. Cardinality(Woken(s) \ {currentThread}) =
              IF currentThread \in Woken(s) THEN Cardinality(Woken(s)) - 1
                                            ELSE Cardinality(Woken(s))
        BY <3>1, FS_RemoveElement
      <3> QED
        BY <2>1, <3>1, <3>2
    <2>3. value'[s] = value[s] - 1 /\ value[s] \in Nat
      BY DEF TakeUnit, Inv, TypeOK
    <2>4. value[s] <= Cardinality(Woken(s))
      BY <1>1, <1>2 DEF NoLostWakeup
    <2>5. Cardinality(Woken(s)) \in Nat /\ Cardinality(Woken(s)') \in Int
      <3>1. Woken(s)' \in SUBSET Threads
        BY DEF Woken, Inside
      <3> QED
        BY <3>1, WokenFinite, KernelAssumption, FS_Subset, FS_CardinalityType
    <2> QED
      BY <1>2, <2>2, <2>3, <2>4, <2>5
  <1>3. CASE r # s
    <2>1. Woken(r)' = Woken(r)
      BY <1>3, KernelAssumption DEF TakeUnit, Woken, Inside, Inv, TypeOK
    <2>2. value'[r] = value[r]
      BY <1>3 DEF TakeUnit, Inv, TypeOK
    <2> QED
      BY <1>1, <2>1, <2>2, QuietStep
  <1> QED
    BY <1>2, <1>3

(* The steps that move no unit and wake no thread: thread creation, the    *)
(* scheduler's, and Finish.                                                *)
LEMMA SchedulingIsQuiet ==
  ASSUME Inv, [Next]_vars,
         \A s \in Sems : ~(P(s) \/ ThreadV(s) \/ Destroy(s) \/ DeviceInterrupt(s) \/ Idle(s)),
         ~ResumeP, NEW r
  PROVE  value' = value /\ queue' = queue /\ Inside(r)' = Inside(r) /\ Woken(r)' = Woken(r)
  <1> USE KernelAssumption
  <1>1. ASSUME NEW t \in Threads, NewThread(t) \/ Fork(t)
        PROVE  value' = value /\ queue' = queue /\ Inside(r)' = Inside(r) /\ Woken(r)' = Woken(r)
    <2>1. status[t] \in {"NoThread", "JUST_CREATED"} /\ pc[t] = "root"
      BY <1>1 DEF NewThread, Fork, Inv, ThreadStates
    <2> QED
      BY <1>1, <2>1 DEF NewThread, Fork, Inv, TypeOK, Inside, Woken
  <1>2. CASE Yield
    <2> DEFINE st == [status EXCEPT ![currentThread] = "READY"]
    <2>1. /\ readyList # <<>> /\ Run(Head(readyList), st)
          /\ st \in [Threads -> Status]
          /\ value' = value /\ queue' = queue /\ waitsFor' = waitsFor
          /\ pc' = [pc EXCEPT ![currentThread] = "yield"]
          /\ pc[currentThread] = "run"
          /\ currentThread \in Threads
      BY <1>2 DEF Yield, Running, Inv, TypeOK, Status
    <2>2. Inside(r)' = Inside(r)
      BY <2>1 DEF Inside, Inv, TypeOK
    <2>3. \A t \in Inside(r) : t # currentThread /\ t # threadToBeDestroyed
      BY <2>1 DEF Inside, Inv, ThreadStates
    <2>4. \A t \in Inside(r) : (status'[t] = "BLOCKED") <=> (status[t] = "BLOCKED")
      <3>1. \A t \in Inside(r) : st[t] = status[t] /\ t \in Threads
        BY <2>3 DEF Inside, Inv, TypeOK
      <3> HIDE DEF st
      <3> QED
        BY <2>1, <2>3, <3>1, RunFirstReady
    <2> QED
      BY <2>1, <2>2, <2>4 DEF Woken
  <1>3. CASE Dispatch
    <2>1. /\ readyList # <<>> /\ Run(Head(readyList), status)
          /\ status \in [Threads -> Status]
          /\ value' = value /\ queue' = queue /\ waitsFor' = waitsFor /\ pc' = pc
      BY <1>3 DEF Dispatch, Inv, TypeOK
    <2>2. Inside(r)' = Inside(r)
      BY <2>1 DEF Inside
    <2>3. \A t \in Inside(r) : t \in Threads /\ t # threadToBeDestroyed
      BY DEF Inside, Inv, ThreadStates
    <2>4. \A t \in Inside(r) : (status'[t] = "BLOCKED") <=> (status[t] = "BLOCKED")
      BY <2>1, <2>3, RunFirstReady
    <2> QED
      BY <2>1, <2>2, <2>4 DEF Woken
  <1>4. CASE Finish
    BY <1>4 DEF Finish, Running, Inside, Woken, Inv, TypeOK
  <1>5. CASE Resume
    BY <1>5 DEF Resume, Inside, Woken, Inv, TypeOK
  <1>6. CASE Halt \/ UNCHANGED vars \/ \E s \in Sems : Schedule(s)
    BY <1>6 DEF Halt, Schedule, threadVars, vars, Inside, Woken
  <1> QED
    BY <1>1, <1>2, <1>3, <1>4, <1>5, <1>6 DEF Next, ThreadStep, MachineStep, Halted

(* Every step keeps the wake-ups.                                          *)
LEMMA NextKeepsWakeups == Inv /\ NoLostWakeup /\ [Next]_vars => NoLostWakeup'
  <1> SUFFICES ASSUME Inv, NoLostWakeup, [Next]_vars PROVE NoLostWakeup'
    OBVIOUS
  <1>0. Inv'
    BY NextKeepsInv
  <1>1. ASSUME NEW s \in Sems, P(s) PROVE NoLostWakeup'
    <2>1. /\ status[currentThread] = "RUNNING" /\ pc[currentThread] = "run"
          /\ IF value[s] = 0 THEN WaitOn(s) ELSE TakeUnit(s)
      BY <1>1 DEF P, Running
    <2> QED
      BY <1>0, <2>1, WaitOnKeepsWakeups, TakeUnitKeepsWakeups
  <1>2. ASSUME NEW s \in Sems, ThreadV(s) \/ DeviceInterrupt(s) \/ Idle(s)
        PROVE  NoLostWakeup'
    BY <1>2, VKeepsWakeups DEF ThreadV, DeviceInterrupt, Idle
  <1>3. ASSUME NEW s \in Sems, Destroy(s) PROVE NoLostWakeup'
    <2> SUFFICES ASSUME NEW r \in Sems, queue'[r] # <<>>
                 PROVE  value'[r] <= Cardinality(Woken(r)')
      BY DEF NoLostWakeup
    <2>1. r # s /\ queue'[r] = queue[r] /\ value'[r] = value[r]
      BY <1>3 DEF Destroy, Inv, TypeOK
    <2>2. \A t \in Inside(r) : ~In(t, queue[s])
      BY <2>1 DEF Inv, QueuesExact, Inside
    <2>3. Inside(r)' = Inside(r)
      BY <1>3 DEF Destroy, Inside
    <2>4. \A t \in Inside(r) : status'[t] = status[t]
      BY <1>3, <2>2 DEF Destroy, In, Inside
    <2>5. Woken(r)' = Woken(r)
      BY <2>3, <2>4 DEF Woken
    <2> QED
      BY <2>1, <2>5, QuietStep
  <1>4. CASE ResumeP
    <2>1. waitsFor[currentThread] \in Sems
      BY <1>4 DEF ResumeP, Inv, TypeOK, ThreadStates
    <2> DEFINE s == waitsFor[currentThread]
    <2>2. /\ status[currentThread] = "RUNNING"
          /\ IF value[s] = 0 THEN WaitOn(s) ELSE TakeUnit(s)
      BY <1>4 DEF ResumeP
    <2> QED
      BY <1>0, <2>1, <2>2, WaitOnKeepsWakeups, TakeUnitKeepsWakeups
  <1>5. CASE /\ \A s \in Sems : ~(P(s) \/ ThreadV(s) \/ Destroy(s) \/ DeviceInterrupt(s) \/ Idle(s))
             /\ ~ResumeP
    <2>1. \A r \in Sems : value' = value /\ queue' = queue /\ Woken(r)' = Woken(r)
      BY <1>5, SchedulingIsQuiet
    <2> QED
      BY <2>1, QuietStep DEF NoLostWakeup
  <1> QED
    BY <1>1, <1>2, <1>3, <1>4, <1>5

(* Semaphore::V never loses a wake-up, for any number of threads: units    *)
(* left while threads sleep are matched by threads already woken.          *)
THEOREM WakeupsAreKept == Spec => []NoLostWakeup
  <1>1. Init => NoLostWakeup
    BY DEF Init, NoLostWakeup
  <1> QED
    BY <1>1, NextKeepsWakeups, KernelInvariant, PTL DEF Spec

-----------------------------------------------------------------------------
(* Refinement: the threads inside P of a semaphore are the waiting ones.   *)

waitingBar == [s \in Sems |-> Inside(s)]

(* P, both for a thread that calls it and for one that tests again, takes  *)
(* a unit, enters the waiting threads or changes nothing visible.          *)
LEMMA PRefines ==
  ASSUME Inv, NEW s \in Sems, IF value[s] = 0 THEN WaitOn(s) ELSE TakeUnit(s),
         status[currentThread] = "RUNNING",
         pc[currentThread] \in {"run", "P"},
         pc[currentThread] = "P" => waitsFor[currentThread] = s
  PROVE  [Semaphore!SemNext]_(Semaphore!semVars)
  <1> USE KernelAssumption
  <1> DEFINE c == currentThread
  <1>1. c \in Threads /\ value[s] \in Nat
    BY DEF Inv, TypeOK
  <1>2. CASE value[s] = 0 /\ pc[c] = "run"
    <2>1. /\ \A r \in Sems : c \notin Inside(r)
          /\ \A r \in Sems : Inside(r)' = IF r = s THEN Inside(r) \cup {c} ELSE Inside(r)
          /\ value' = value
      BY <1>1, <1>2 DEF WaitOn, Inside, Inv, TypeOK
    <2>2. waitingBar' = [waitingBar EXCEPT ![s] = @ \cup {c}]
      BY <2>1 DEF waitingBar
    <2>3. Semaphore!Enter(c, s)
      BY <1>2, <2>1, <2>2 DEF Semaphore!Enter, waitingBar
    <2> QED
      BY <1>1, <2>3 DEF Semaphore!SemNext
  <1>3. CASE value[s] = 0 /\ pc[c] = "P"
    <2>1. (\A r \in Sems : Inside(r)' = Inside(r)) /\ value' = value
      BY <1>1, <1>3 DEF WaitOn, Inside, Inv, TypeOK
    <2> QED
      BY <2>1 DEF Semaphore!semVars
  <1>4. CASE value[s] # 0 /\ pc[c] = "run"
    <2>1. /\ \A r \in Sems : Inside(r)' = Inside(r)
          /\ value' = [value EXCEPT ![s] = @ - 1]
      BY <1>1, <1>4 DEF TakeUnit, Inside, Inv, TypeOK
    <2>2. Semaphore!Take(s)
      BY <1>1, <1>4, <2>1 DEF Semaphore!Take
    <2> QED
      BY <2>2 DEF Semaphore!SemNext
  <1>5. CASE value[s] # 0 /\ pc[c] = "P"
    <2>1. /\ c \in Inside(s)
          /\ \A r \in Sems : Inside(r)' = IF r = s THEN Inside(r) \ {c} ELSE Inside(r)
          /\ value' = [value EXCEPT ![s] = @ - 1]
      BY <1>1, <1>5 DEF TakeUnit, Inside, Inv, TypeOK
    <2>2. waitingBar' = [waitingBar EXCEPT ![s] = @ \ {c}]
      BY <2>1 DEF waitingBar
    <2>3. Semaphore!Leave(c, s)
      BY <1>1, <1>5, <2>1, <2>2 DEF Semaphore!Leave, waitingBar
    <2> QED
      BY <1>1, <2>3 DEF Semaphore!SemNext
  <1> QED
    BY <1>2, <1>3, <1>4, <1>5

(* The kernel's semaphores, with their queues, sleeping and waking,        *)
(* implement the counting semaphores their users rely on.                  *)
THEOREM KernelImplementsSemaphore == Spec => ImplementsSemaphore
  <1>1. Init => Semaphore!SemInit
    BY DEF Init, Semaphore!SemInit, Inside
  <1>2. ASSUME Inv, [Next]_vars PROVE [Semaphore!SemNext]_(Semaphore!semVars)
    <2>1. ASSUME NEW s \in Sems, P(s) PROVE [Semaphore!SemNext]_(Semaphore!semVars)
      BY <1>2, <2>1, PRefines DEF P, Running
    <2>2. ASSUME NEW s \in Sems, ThreadV(s) \/ DeviceInterrupt(s) \/ Idle(s)
          PROVE  [Semaphore!SemNext]_(Semaphore!semVars)
      <3>1. /\ value' = [value EXCEPT ![s] = @ + 1]
            /\ \A r \in Sems : Inside(r)' = Inside(r)
        BY <2>2 DEF ThreadV, DeviceInterrupt, Idle, V, Inside
      <3>2. Semaphore!Post(s)
        BY <3>1 DEF Semaphore!Post
      <3> QED
        BY <3>2 DEF Semaphore!SemNext
    <2>3. ASSUME NEW s \in Sems, Destroy(s) PROVE [Semaphore!SemNext]_(Semaphore!semVars)
      <3>1. value' = value /\ \A r \in Sems : Inside(r)' = Inside(r)
        BY <2>3 DEF Destroy, Inside
      <3> QED
        BY <3>1 DEF Semaphore!semVars
    <2>4. CASE ResumeP
      <3>1. waitsFor[currentThread] \in Sems
        BY <1>2, <2>4 DEF ResumeP, Inv, TypeOK, ThreadStates
      <3> QED
        BY <1>2, <2>4, <3>1, PRefines DEF ResumeP
    <2>5. CASE /\ \A s \in Sems : ~(P(s) \/ ThreadV(s) \/ Destroy(s) \/ DeviceInterrupt(s) \/ Idle(s))
               /\ ~ResumeP
      <3>1. \A r : value' = value /\ Inside(r)' = Inside(r)
        BY <1>2, <2>5, SchedulingIsQuiet
      <3> QED
        BY <3>1 DEF Semaphore!semVars
    <2> QED
      BY <2>1, <2>2, <2>3, <2>4, <2>5
  <1> QED
    BY <1>1, <1>2, KernelInvariant, PTL DEF Spec, ImplementsSemaphore, Semaphore!SemSpec
=============================================================================
