------------------------------- MODULE Kernel -------------------------------
(***************************************************************************)
(* The thread kernel: threads (threads/thread.cc), the FIFO scheduler      *)
(* (threads/scheduler.cc), semaphores (threads/synch.cc) and the part of   *)
(* the simulated interrupt hardware that decides when a thread can lose    *)
(* the CPU (machine/interrupt.cc).                                         *)
(*                                                                         *)
(* There is one CPU.  A thread runs until it gives the CPU away in Yield,  *)
(* Sleep or Finish; interrupts, the timer's Yield included, happen only    *)
(* inside OneTick, that is when interrupts are re-enabled, and inside      *)
(* Idle.  So an action below is what one thread does from one such point   *)
(* to the next.  The threads' own code is left open: a running thread may  *)
(* call any kernel operation on any semaphore.                             *)
(***************************************************************************)
EXTENDS Integers, Sequences, FiniteSets

CONSTANTS
  Threads,       \* the Thread objects that may be created
  Main,          \* the thread made by Initialize (threads/system.cc:185)
  Sems,          \* the Semaphore objects
  InitialValue,  \* the value each semaphore is constructed with
  MaxUnits,      \* bound on the units of a semaphore, those of V's that
                 \* outstanding device interrupts will do included
  NULL

ASSUME KernelAssumption ==
  /\ IsFiniteSet(Threads)
  /\ Main \in Threads
  /\ NULL \notin Threads \cup Sems
  /\ InitialValue \in [Sems -> Nat]
  /\ MaxUnits \in Nat

VARIABLES
  status,               \* Thread::status; NoThread before new, Deleted after delete
  pc,                   \* where a thread continues when it gets the CPU
  waitsFor,             \* the semaphore whose P the thread is inside of
  currentThread,
  readyList,
  threadToBeDestroyed,
  value,                \* Semaphore::value
  queue,                \* Semaphore::queue
  level,                \* Interrupt::level
  mode,                 \* Interrupt::status, IdleMode or not
  pending,              \* device interrupts scheduled, by the semaphore they V
  halted

vars == <<status, pc, waitsFor, currentThread, readyList, threadToBeDestroyed,
          value, queue, level, mode, pending, halted>>

threadVars == <<status, pc, waitsFor, currentThread, readyList, threadToBeDestroyed>>
machineVars == <<level, mode, pending, halted>>

Status == {"NoThread", "JUST_CREATED", "RUNNING", "READY", "BLOCKED", "Deleted"}

\* "root": the first frame built by StackAllocate; "run": its own code;
\* "P" and "yield": returning from Scheduler::Run inside P or Yield;
\* "done": inside Finish, never to continue.
Location == {"root", "run", "P", "yield", "done"}

TypeOK ==
  /\ status \in [Threads -> Status]
  /\ pc \in [Threads -> Location]
  /\ waitsFor \in [Threads -> Sems \cup {NULL}]
  /\ currentThread \in Threads
  /\ readyList \in Seq(Threads)
  /\ threadToBeDestroyed \in Threads \cup {NULL}
  /\ value \in [Sems -> Nat]
  /\ queue \in [Sems -> Seq(Threads)]
  /\ level \in {"IntOff", "IntOn"}
  /\ mode \in {"SystemMode", "IdleMode"}
  /\ pending \in [Sems -> Nat]
  /\ halted \in BOOLEAN

-----------------------------------------------------------------------------
(* The definitions marked "Mutant" are faulty variants of the definition   *)
(* that follows them; no specification uses them.  PROJECT.json names the  *)
(* property each of them breaks.                                           *)

(* Initialize: "main" is the running thread and interrupts are enabled.    *)
Init ==
  /\ status = [t \in Threads |-> IF t = Main THEN "RUNNING" ELSE "NoThread"]
  /\ pc = [t \in Threads |-> IF t = Main THEN "run" ELSE "root"]
  /\ waitsFor = [t \in Threads |-> NULL]
  /\ currentThread = Main
  /\ readyList = <<>>
  /\ threadToBeDestroyed = NULL
  /\ value = InitialValue
  /\ queue = [s \in Sems |-> <<>>]
  /\ level = "IntOn"
  /\ mode = "SystemMode"
  /\ pending = [s \in Sems |-> 0]
  /\ halted = FALSE

(* The current thread executes its own code, with interrupts enabled.      *)
Running ==
  /\ ~halted
  /\ status[currentThread] = "RUNNING"
  /\ pc[currentThread] = "run"

(* The current thread is in the loop of Thread::Sleep.                     *)
Sleeping ==
  /\ ~halted
  /\ status[currentThread] # "RUNNING"

(* Mutant: every thread that slept is taken for a finished one.            *)
RunDeletesSleeper(nextThread, st) ==
  /\ currentThread' = nextThread
  /\ status' = [t \in Threads |->
                  IF t = nextThread THEN "RUNNING"
                  ELSE IF t = currentThread /\ st[t] = "BLOCKED" THEN "Deleted"
                  ELSE st[t]]
  /\ threadToBeDestroyed' = NULL

(* Scheduler::Run up to the point where nextThread has executed the code   *)
(* after SWITCH.  A thread that was never on the CPU does not come back    *)
(* from SWITCH but starts at ThreadRoot: it does not delete the carcass.   *)
Run(nextThread, st) ==
  LET reap == /\ threadToBeDestroyed # NULL
              /\ pc[nextThread] # "root"
  IN  /\ currentThread' = nextThread
      /\ status' = [t \in Threads |->
                      IF t = nextThread THEN "RUNNING"
                      ELSE IF reap /\ t = threadToBeDestroyed THEN "Deleted"
                      ELSE st[t]]
      /\ threadToBeDestroyed' = IF reap THEN NULL ELSE threadToBeDestroyed

(* Mutant: only the unit that makes the value positive wakes a thread.     *)
VWakesOnce(s) ==
  /\ value' = [value EXCEPT ![s] = @ + 1]
  /\ IF queue[s] = <<>> \/ value[s] > 0
     THEN UNCHANGED <<status, readyList, queue>>
     ELSE /\ status' = [status EXCEPT ![Head(queue[s])] = "READY"]
          /\ readyList' = Append(readyList, Head(queue[s]))
          /\ queue' = [queue EXCEPT ![s] = Tail(@)]

(* Semaphore::V, by a thread or by an interrupt handler.                   *)
V(s) ==
  /\ value' = [value EXCEPT ![s] = @ + 1]
  /\ IF queue[s] = <<>>
     THEN UNCHANGED <<status, readyList, queue>>
     ELSE /\ status' = [status EXCEPT ![Head(queue[s])] = "READY"]
          /\ readyList' = Append(readyList, Head(queue[s]))
          /\ queue' = [queue EXCEPT ![s] = Tail(@)]

(* The body of the loop of Semaphore::P: the thread queues itself and goes *)
(* to sleep.                                                               *)
WaitOn(s) ==
  /\ queue' = [queue EXCEPT ![s] = Append(@, currentThread)]
  /\ status' = [status EXCEPT ![currentThread] = "BLOCKED"]
  /\ pc' = [pc EXCEPT ![currentThread] = "P"]
  /\ waitsFor' = [waitsFor EXCEPT ![currentThread] = s]
  /\ level' = "IntOff"
  /\ UNCHANGED value

(* The exit of that loop: the unit is taken and interrupts are restored.   *)
TakeUnit(s) ==
  /\ value' = [value EXCEPT ![s] = @ - 1]
  /\ pc' = [pc EXCEPT ![currentThread] = "run"]
  /\ waitsFor' = [waitsFor EXCEPT ![currentThread] = NULL]
  /\ level' = "IntOn"
  /\ UNCHANGED <<queue, status>>

-----------------------------------------------------------------------------
(* Operations a running thread may call.                                   *)

NewThread(t) ==
  /\ Running
  /\ status[t] = "NoThread"
  /\ status' = [status EXCEPT ![t] = "JUST_CREATED"]
  /\ UNCHANGED <<pc, waitsFor, currentThread, readyList, threadToBeDestroyed,
                 value, queue>>
  /\ UNCHANGED machineVars

Fork(t) ==
  /\ Running
  /\ status[t] = "JUST_CREATED"
  /\ status' = [status EXCEPT ![t] = "READY"]
  /\ readyList' = Append(readyList, t)
  /\ UNCHANGED <<pc, waitsFor, currentThread, threadToBeDestroyed, value, queue>>
  /\ UNCHANGED machineVars

P(s) ==
  /\ Running
  /\ IF value[s] = 0 THEN WaitOn(s) ELSE TakeUnit(s)
  /\ UNCHANGED <<currentThread, readyList, threadToBeDestroyed>>
  /\ UNCHANGED <<mode, pending, halted>>

ThreadV(s) ==
  /\ Running
  /\ value[s] + pending[s] < MaxUnits
  /\ V(s)
  /\ UNCHANGED <<pc, waitsFor, currentThread, threadToBeDestroyed>>
  /\ UNCHANGED machineVars

(* Semaphore::Destroy: every waiter is made ready; the value stays.        *)
Destroy(s) ==
  /\ Running
  /\ status' = [t \in Threads |->
                  IF \E i \in 1..Len(queue[s]) : queue[s][i] = t
                  THEN "READY" ELSE status[t]]
  /\ readyList' = readyList \o queue[s]
  /\ queue' = [queue EXCEPT ![s] = <<>>]
  /\ UNCHANGED <<pc, waitsFor, currentThread, threadToBeDestroyed, value>>
  /\ UNCHANGED machineVars

(* Mutant: the thread that yields goes to the front of the ready list.     *)
YieldToFront ==
  /\ Running
  /\ readyList # <<>>
  /\ readyList' = <<currentThread>> \o Tail(readyList)
  /\ Run(Head(readyList), [status EXCEPT ![currentThread] = "READY"])
  /\ pc' = [pc EXCEPT ![currentThread] = "yield"]
  /\ level' = "IntOff"
  /\ UNCHANGED <<waitsFor, value, queue, mode, pending, halted>>

(* Thread::Yield, called by the thread or by OneTick on its behalf when    *)
(* the timer asked for it; without another ready thread it does nothing.   *)
Yield ==
  /\ Running
  /\ readyList # <<>>
  /\ readyList' = Append(Tail(readyList), currentThread)
  /\ Run(Head(readyList), [status EXCEPT ![currentThread] = "READY"])
  /\ pc' = [pc EXCEPT ![currentThread] = "yield"]
  /\ level' = "IntOff"
  /\ UNCHANGED <<waitsFor, value, queue, mode, pending, halted>>

(* Mutant: Sleep is not called.                                            *)
FinishWithoutSleep ==
  /\ Running
  /\ threadToBeDestroyed' = currentThread
  /\ UNCHANGED <<status, pc, waitsFor, currentThread, readyList, value, queue>>
  /\ UNCHANGED machineVars

(* Thread::Finish up to the loop of Sleep.                                 *)
Finish ==
  /\ Running
  /\ threadToBeDestroyed' = currentThread
  /\ status' = [status EXCEPT ![currentThread] = "BLOCKED"]
  /\ pc' = [pc EXCEPT ![currentThread] = "done"]
  /\ level' = "IntOff"
  /\ UNCHANGED <<waitsFor, currentThread, readyList, value, queue, mode, pending, halted>>

(* A driver starts a device operation whose completion handler will V s.   *)
Schedule(s) ==
  /\ Running
  /\ value[s] + pending[s] < MaxUnits
  /\ pending' = [pending EXCEPT ![s] = @ + 1]
  /\ UNCHANGED threadVars
  /\ UNCHANGED <<value, queue, level, mode, halted>>

-----------------------------------------------------------------------------
(* What the CPU does between two stretches of thread code.                 *)

(* OneTick finds a device interrupt due.                                   *)
DeviceInterrupt(s) ==
  /\ Running
  /\ pending[s] > 0
  /\ V(s)
  /\ pending' = [pending EXCEPT ![s] = @ - 1]
  /\ UNCHANGED <<pc, waitsFor, currentThread, threadToBeDestroyed, level, mode, halted>>

(* Thread::Sleep finds the ready list empty and Idle runs the handlers of  *)
(* the interrupts that are due at the earliest time of the pending list.   *)
Idle(s) ==
  /\ Sleeping
  /\ readyList = <<>> \/ mode = "IdleMode"
  /\ pending[s] > 0
  /\ V(s)
  /\ pending' = [pending EXCEPT ![s] = @ - 1]
  /\ mode' = "IdleMode"
  /\ UNCHANGED <<pc, waitsFor, currentThread, threadToBeDestroyed, level, halted>>

(* Idle finds nothing pending and stops the machine.                       *)
Halt ==
  /\ Sleeping
  /\ readyList = <<>>
  /\ \A s \in Sems : pending[s] = 0
  /\ halted' = TRUE
  /\ UNCHANGED threadVars
  /\ UNCHANGED <<value, queue, level, mode, pending>>

(* Thread::Sleep gives the CPU to the first ready thread.                  *)
Dispatch ==
  /\ Sleeping
  /\ readyList # <<>>
  /\ readyList' = Tail(readyList)
  /\ Run(Head(readyList), status)
  /\ mode' = "SystemMode"
  /\ UNCHANGED <<pc, waitsFor, value, queue, level, pending, halted>>

(* ThreadRoot of a new thread, and the return into Yield.                  *)
Resume ==
  /\ ~halted
  /\ status[currentThread] = "RUNNING"
  /\ pc[currentThread] \in {"root", "yield"}
  /\ pc' = [pc EXCEPT ![currentThread] = "run"]
  /\ level' = "IntOn"
  /\ UNCHANGED <<status, waitsFor, currentThread, readyList, threadToBeDestroyed>>
  /\ UNCHANGED <<value, queue, mode, pending, halted>>

(* Mutant: P tests the value with "if" instead of "while".                 *)
ResumePWithoutTest ==
  /\ ~halted
  /\ status[currentThread] = "RUNNING"
  /\ pc[currentThread] = "P"
  /\ TakeUnit(waitsFor[currentThread])
  /\ UNCHANGED <<currentThread, readyList, threadToBeDestroyed>>
  /\ UNCHANGED <<mode, pending, halted>>

(* The return into P, which tests the value again.                         *)
ResumeP ==
  /\ ~halted
  /\ status[currentThread] = "RUNNING"
  /\ pc[currentThread] = "P"
  /\ LET s == waitsFor[currentThread]
     IN  IF value[s] = 0 THEN WaitOn(s) ELSE TakeUnit(s)
  /\ UNCHANGED <<currentThread, readyList, threadToBeDestroyed>>
  /\ UNCHANGED <<mode, pending, halted>>

-----------------------------------------------------------------------------
ThreadStep ==
  \/ \E t \in Threads : NewThread(t) \/ Fork(t)
  \/ \E s \in Sems : P(s) \/ ThreadV(s) \/ Destroy(s) \/ Schedule(s)
  \/ Yield
  \/ Finish

MachineStep ==
  \/ \E s \in Sems : DeviceInterrupt(s) \/ Idle(s)
  \/ Halt
  \/ Dispatch
  \/ Resume
  \/ ResumeP

(* After Halt the process has exited.                                      *)
Halted == halted /\ UNCHANGED vars

Next == ThreadStep \/ MachineStep \/ Halted

Spec == Init /\ [][Next]_vars

(* The CPU never stops between two instructions, and the timer goes off    *)
(* again and again (options -rs and -p; without them a thread that never   *)
(* blocks keeps the CPU).                                                  *)
FairSpec ==
  /\ Spec
  /\ WF_vars(Dispatch \/ Resume \/ ResumeP \/ Halt)
  /\ WF_vars(\E s \in Sems : Idle(s))
  /\ WF_vars(Yield)

-----------------------------------------------------------------------------
(* Properties                                                              *)

In(t, q) == \E i \in 1..Len(q) : q[i] = t

NoDuplicates(q) == \A i, j \in 1..Len(q) : q[i] = q[j] => i = j

\* Threads inside P of s: those that sleep in its queue and those that were
\* woken and have not tested the value again.
Inside(s) == {t \in Threads : pc[t] = "P" /\ waitsFor[t] = s}

Woken(s) == {t \in Inside(s) : status[t] # "BLOCKED"}

(* The ready list holds every READY thread once and nothing else, so that  *)
(* FindNextToRun neither forgets a thread nor runs one twice.              *)
ReadyListExact ==
  /\ NoDuplicates(readyList)
  /\ \A t \in Threads : In(t, readyList) <=> status[t] = "READY"

(* A semaphore's queue holds once each thread that sleeps in its P and     *)
(* nothing else; with ReadyListExact, no thread is ever in two lists and   *)
(* no sleeping thread is in none (P, V, Destroy, Finish).                  *)
QueuesExact ==
  \A s \in Sems :
    /\ NoDuplicates(queue[s])
    /\ \A t \in Threads :
         In(t, queue[s]) <=> /\ status[t] = "BLOCKED"
                             /\ t \in Inside(s)

(* What each status says about where a thread is, and who points to it.    *)
ThreadStates ==
  /\ status[currentThread] \in {"RUNNING", "READY", "BLOCKED"}
  /\ \A t \in Threads :
       /\ status[t] \in {"NoThread", "JUST_CREATED"} => pc[t] = "root"
       /\ status[t] = "READY" => pc[t] \in {"root", "yield", "P"}
       /\ status[t] = "BLOCKED" => pc[t] \in {"P", "done"}
       /\ status[t] = "Deleted" => pc[t] = "done"
       /\ status[t] = "RUNNING" => t = currentThread /\ pc[t] # "done"
       /\ pc[t] = "P" => waitsFor[t] \in Sems
  /\ threadToBeDestroyed # NULL =>
       /\ status[threadToBeDestroyed] = "BLOCKED"
       /\ pc[threadToBeDestroyed] = "done"

(* A deleted Thread object is never again the current thread, nor reached  *)
(* from the ready list, from a semaphore or from threadToBeDestroyed.      *)
NoUseAfterDelete ==
  \A t \in Threads :
    status[t] = "Deleted" =>
      /\ t # currentThread
      /\ t # threadToBeDestroyed
      /\ ~In(t, readyList)
      /\ \A s \in Sems : ~In(t, queue[s])

(* No wake-up is lost: units left while threads still sleep are matched by *)
(* threads already woken for them.  V wakes one thread per unit and P      *)
(* tests again in a loop, although any thread may take the unit first.     *)
NoLostWakeup ==
  \A s \in Sems :
    queue[s] # <<>> => value[s] <= Cardinality(Woken(s))

(* The assertion of Thread::Sleep (thread.cc:226), and that own code runs  *)
(* with interrupts enabled whatever sequence of switches led to it.        *)
LevelMatchesCode ==
  level = "IntOn" <=> /\ status[currentThread] = "RUNNING"
                      /\ pc[currentThread] = "run"

(* The inductive invariant: every thread is exactly where its status says, *)
(* on the CPU, in the ready list, in the queue of the semaphore it waits   *)
(* for, or finished.                                                       *)
Inv ==
  /\ TypeOK
  /\ ThreadStates
  /\ ReadyListExact
  /\ QueuesExact
  /\ LevelMatchesCode

(* A Thread object is deleted only after it finished, and by another       *)
(* thread (thread.cc:54-55, 68).                                           *)
DeleteOnlyFinished ==
  [][\A t \in Threads :
       status[t] # "Deleted" /\ status'[t] = "Deleted" =>
         pc[t] = "done" /\ currentThread' # t]_vars

(* The kernel's semaphores implement the abstract ones: sleeping, waking,  *)
(* sleeping again and Destroy are invisible; only P and V move the value.  *)
Semaphore == INSTANCE CountingSemaphore
               WITH waiting <- [s \in Sems |-> Inside(s)]

ImplementsSemaphore == Semaphore!SemSpec

(* Every ready thread gets the CPU (FIFO ready list, preemption).          *)
ReadyRuns ==
  \A t \in Threads : status[t] = "READY" ~> status[t] = "RUNNING"

(* A unit does not stay unused while threads are inside P.                 *)
UnitsAreTaken ==
  \A s \in Sems :
    value[s] > 0 /\ Inside(s) # {} ~> value[s] = 0 \/ Inside(s) = {}

(* Thread::Finish (thread.cc:141-145): Scheduler::Run calls the destructor *)
(* of a finished thread, so one that is not yet deleted is the one         *)
(* threadToBeDestroyed points to.                                          *)
FinishedIsReclaimed ==
  \A t \in Threads :
    pc[t] = "done" /\ status[t] # "Deleted" => threadToBeDestroyed = t
=============================================================================
