------------------------------ MODULE Monitors ------------------------------
(***************************************************************************)
(* Lock and Condition (threads/synch.cc), built from semaphores.           *)
(*                                                                         *)
(* A semaphore is used through its contract, which Kernel implements (see  *)
(* CountingSemaphore): P waits for a unit and takes it, V adds one.  The   *)
(* CPU may change hands between any two accesses to the shared data, as it *)
(* does with the option -p (threads/preemptive.cc), so every such access   *)
(* is an action.  The threads are arbitrary users of one lock and its      *)
(* conditions that respect the convention of synch.h: they call Release    *)
(* and the condition operations only between their own Acquire and         *)
(* Release.  A Wait allocates a semaphore of its own; a thread is inside   *)
(* one Wait at a time, so the semaphore is named by its thread.            *)
(***************************************************************************)
EXTENDS Integers, Sequences, FiniteSets

CONSTANTS Threads, Conds, NoThread

MonitorsAssumption == NoThread \notin Threads

VARIABLES
  pc,          \* what the thread does next
  cond,        \* the condition its call is about
  target,      \* the waiter a Signal has removed and not yet woken
  mutex,       \* value of Lock::mutex
  lockHolder,  \* Lock::lockHolder
  waitQueue,   \* Condition::waitQueue
  waiter       \* value of the semaphore of each thread's Wait

vars == <<pc, cond, target, mutex, lockHolder, waitQueue, waiter>>

\* "out", "in": the caller's own code, outside and inside the monitor.
\* "got", "regot": after P of the mutex, before lockHolder is set.
\* "free", "waitFree": lockHolder cleared, before V of the mutex.
\* "wait", "asleep", "regain": inside Wait, before Release, at P of the
\*   waiter, at P of the mutex.
\* "signal": inside Signal, before V.  "cast", "castSignal": inside
\*   Broadcast, at the loop test and inside Signal before V.
OutsideLock == {"out", "asleep", "regain"}
BeforeHolderSet == {"got", "regot"}
AfterHolderCleared == {"free", "waitFree"}
AsHolder == {"in", "wait", "signal", "cast", "castSignal"}
Location == OutsideLock \cup BeforeHolderSet \cup AfterHolderCleared \cup AsHolder

TypeOK ==
  /\ pc \in [Threads -> Location]
  /\ cond \in [Threads -> Conds]
  /\ target \in [Threads -> Threads \cup {NoThread}]
  /\ mutex \in Nat
  /\ lockHolder \in Threads \cup {NoThread}
  /\ waitQueue \in [Conds -> Seq(Threads)]
  /\ waiter \in [Threads -> Nat]

Init ==
  /\ pc = [t \in Threads |-> "out"]
  /\ cond \in [Threads -> {CHOOSE c \in Conds : TRUE}]
  /\ target = [t \in Threads |-> NoThread]
  /\ mutex = 1
  /\ lockHolder = NoThread
  /\ waitQueue = [c \in Conds |-> <<>>]
  /\ waiter = [t \in Threads |-> 0]

Goto(t, from, to) == pc[t] = from /\ pc' = [pc EXCEPT ![t] = to]

-----------------------------------------------------------------------------
(* Lock::Acquire: P of the mutex, then lockHolder.  The same two steps end *)
(* a Wait, which then deletes its semaphore.                               *)

AcquireP(t) ==
  /\ \/ Goto(t, "out", "got")
     \/ Goto(t, "regain", "regot")
  /\ mutex > 0
  /\ mutex' = mutex - 1
  /\ UNCHANGED <<cond, target, lockHolder, waitQueue, waiter>>

AcquireSetHolder(t) ==
  /\ Goto(t, "got", "in") \/ Goto(t, "regot", "in")
  /\ lockHolder' = t
  /\ UNCHANGED <<cond, target, mutex, waitQueue, waiter>>

(* Lock::Release, called by a user or by Wait: lockHolder, then V.         *)
ReleaseClearHolder(t) ==
  /\ Goto(t, "in", "free") \/ Goto(t, "wait", "waitFree")
  /\ lockHolder' = NoThread
  /\ UNCHANGED <<cond, target, mutex, waitQueue, waiter>>

ReleaseV(t) ==
  /\ Goto(t, "free", "out") \/ Goto(t, "waitFree", "asleep")
  /\ mutex' = mutex + 1
  /\ UNCHANGED <<cond, target, lockHolder, waitQueue, waiter>>

(* Condition::Wait up to its Release: a new semaphore with value 0 joins   *)
(* the queue.  Release, waiter->P() (WaitP) and Acquire follow.            *)
WaitEnqueue(t, c) ==
  /\ Goto(t, "in", "wait")
  /\ cond' = [cond EXCEPT ![t] = c]
  /\ waiter' = [waiter EXCEPT ![t] = 0]
  /\ waitQueue' = [waitQueue EXCEPT ![c] = Append(@, t)]
  /\ UNCHANGED <<target, mutex, lockHolder>>

WaitP(t) ==
  /\ Goto(t, "asleep", "regain")
  /\ waiter[t] > 0
  /\ waiter' = [waiter EXCEPT ![t] = @ - 1]
  /\ UNCHANGED <<cond, target, mutex, lockHolder, waitQueue>>

(* Condition::Signal with a waiter: Remove, then V of its semaphore.  With *)
(* an empty queue it does nothing.  "from" is the caller: a user of the    *)
(* monitor or the loop of Broadcast.                                       *)

(* Mutant: the waiter is woken and stays in the queue.                     *)
SignalPeek(t, c, from, to) ==
  /\ Goto(t, from, to)
  /\ waitQueue[c] # <<>>
  /\ target' = [target EXCEPT ![t] = Head(waitQueue[c])]
  /\ cond' = [cond EXCEPT ![t] = c]
  /\ UNCHANGED <<mutex, lockHolder, waitQueue, waiter>>

SignalRemove(t, c, from, to) ==
  /\ Goto(t, from, to)
  /\ waitQueue[c] # <<>>
  /\ target' = [target EXCEPT ![t] = Head(waitQueue[c])]
  /\ waitQueue' = [waitQueue EXCEPT ![c] = Tail(@)]
  /\ cond' = [cond EXCEPT ![t] = c]
  /\ UNCHANGED <<mutex, lockHolder, waiter>>

SignalV(t) ==
  /\ Goto(t, "signal", "in") \/ Goto(t, "castSignal", "cast")
  /\ waiter' = [waiter EXCEPT ![target[t]] = @ + 1]
  /\ target' = [target EXCEPT ![t] = NoThread]
  /\ UNCHANGED <<cond, mutex, lockHolder, waitQueue>>

Signal(t, c) == SignalRemove(t, c, "in", "signal")

(* Condition::Broadcast: Signal until the queue is empty.                  *)
BroadcastStart(t, c) ==
  /\ Goto(t, "in", "cast")
  /\ cond' = [cond EXCEPT ![t] = c]
  /\ UNCHANGED <<target, mutex, lockHolder, waitQueue, waiter>>

BroadcastSignal(t) == SignalRemove(t, cond[t], "cast", "castSignal")

(* Mutant: Broadcast signals at most one waiter.                           *)
BroadcastEndEarly(t) ==
  /\ Goto(t, "cast", "in")
  /\ UNCHANGED <<cond, target, mutex, lockHolder, waitQueue, waiter>>

BroadcastEnd(t) ==
  /\ Goto(t, "cast", "in")
  /\ waitQueue[cond[t]] = <<>>
  /\ UNCHANGED <<cond, target, mutex, lockHolder, waitQueue, waiter>>

Step(t) ==
  \/ AcquireP(t) \/ AcquireSetHolder(t)
  \/ ReleaseClearHolder(t) \/ ReleaseV(t)
  \/ WaitP(t) \/ SignalV(t) \/ BroadcastSignal(t) \/ BroadcastEnd(t)
  \/ \E c \in Conds : WaitEnqueue(t, c) \/ Signal(t, c) \/ BroadcastStart(t, c)

Next == \E t \in Threads : Step(t)

Spec == Init /\ [][Next]_vars

-----------------------------------------------------------------------------
InLock(t) == pc[t] \notin OutsideLock

QueueSet(c) == { waitQueue[c][i] : i \in 1..Len(waitQueue[c]) }

(* At most one thread is between P and V of the mutex, and the mutex has   *)
(* its unit exactly when no thread is (synch.cc:144-158).                  *)
MutualExclusion ==
  /\ \A t, u \in Threads : InLock(t) /\ InLock(u) => t = u
  /\ mutex = IF \E t \in Threads : InLock(t) THEN 0 ELSE 1

(* The assertions of Release, Wait and Signal (synch.cc:154, 187, 202)     *)
(* hold wherever a well-behaved thread meets them, although lockHolder is  *)
(* written outside the protection of any disabled interrupt.               *)
HolderIsExact ==
  \A t \in Threads : lockHolder = t <=> pc[t] \in AsHolder

(* Nobody waits for a wake-up that cannot come: a thread inside Wait is in *)
(* the queue of its condition, or about to be woken by the one Signal that *)
(* removed it, or has its unit, and only one of these.                     *)
SignalsKept ==
  \A t \in Threads :
    LET places == { c \in Conds : t \in QueueSet(c) }
        signallers == { u \in Threads : target[u] = t }
    IN  IF pc[t] \in {"wait", "waitFree", "asleep"}
        THEN Cardinality(places) + Cardinality(signallers) + waiter[t] = 1
        ELSE places = {} /\ signallers = {} /\ waiter[t] = 0

MonitorSound == MutualExclusion /\ HolderIsExact /\ SignalsKept

(* The same, per thread and without counting: where the semaphore of a     *)
(* Wait can be, and that nothing else is in the queues, on its way in a    *)
(* Signal, or has a unit.                                                  *)
Waiting == {"wait", "waitFree", "asleep"}

Signalling == {"signal", "castSignal"}

Queued(t) == \E c \in Conds : t \in QueueSet(c)

Signalled(t) == \E u \in Threads : target[u] = t

WaitersExact ==
  /\ \A t \in Threads : target[t] # NoThread <=> pc[t] \in Signalling
  /\ \A c \in Conds : \A i, j \in 1..Len(waitQueue[c]) :
       waitQueue[c][i] = waitQueue[c][j] => i = j
  /\ \A t \in Threads :
       /\ waiter[t] \in {0, 1}
       /\ \A c \in Conds : t \in QueueSet(c) => cond[t] = c
       /\ Queued(t) => ~Signalled(t) /\ waiter[t] = 0
       /\ Signalled(t) => waiter[t] = 0
       /\ pc[t] \in Waiting <=> Queued(t) \/ Signalled(t) \/ waiter[t] = 1

(* The inductive invariant.                                                *)
Inv == TypeOK /\ MutualExclusion /\ HolderIsExact /\ WaitersExact

-----------------------------------------------------------------------------
(* The abstract monitor.  A thread that has queued its semaphore starts to *)
(* wait when it gives the mutex back; a Broadcast takes effect when it     *)
(* starts.                                                                 *)
BeingCast(c) ==
  \E t \in Threads : pc[t] \in {"cast", "castSignal"} /\ cond[t] = c

holderBar ==
  IF \E t \in Threads : InLock(t) THEN CHOOSE t \in Threads : InLock(t) ELSE NoThread

waitingBar ==
  [c \in Conds |->
    IF BeingCast(c) THEN <<>>
    ELSE SelectSeq(waitQueue[c], LAMBDA t : pc[t] = "asleep")]

wokenBar ==
  { t \in Threads : \/ pc[t] = "regain"
                    \/ /\ pc[t] = "asleep"
                       /\ \A c \in Conds : t \in QueueSet(c) => BeingCast(c) }

Monitor == INSTANCE MesaMonitor
  WITH holder <- holderBar, waiting <- waitingBar, woken <- wokenBar

(* Lock and Condition implement the monitor of synch.h; in particular      *)
(* releasing the lock and starting to wait appear as one step, and so does *)
(* a whole Broadcast.                                                      *)
ImplementsMonitor == Monitor!MonitorSpec
=============================================================================
