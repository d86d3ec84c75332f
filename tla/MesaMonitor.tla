----------------------------- MODULE MesaMonitor -----------------------------
(***************************************************************************)
(* What a Lock with its Conditions promises (threads/synch.h:56-127): one  *)
(* thread at a time holds the lock; Wait releases it and starts waiting in *)
(* one step; Signal and Broadcast only make waiters eligible again, in the *)
(* order in which they started to wait, and a woken thread returns from    *)
(* Wait when it has regained the lock, any other thread possibly having    *)
(* held it in between (Mesa semantics).                                    *)
(***************************************************************************)
EXTENDS Integers, Sequences

CONSTANTS Threads, Conds, NoThread

VARIABLES
  holder,    \* the thread inside the monitor
  waiting,   \* the threads waiting on each condition, in order
  woken      \* the threads signalled that have not yet regained the lock

monitorVars == <<holder, waiting, woken>>

MonitorInit ==
  /\ holder = NoThread
  /\ waiting = [c \in Conds |-> <<>>]
  /\ woken = {}

WaitingSet(c) == { waiting[c][i] : i \in 1..Len(waiting[c]) }

(* A thread that waits, or was woken, is inside Wait and calls nothing.    *)
InsideWait(t) == t \in woken \/ \E c \in Conds : t \in WaitingSet(c)

Acquire(t) ==
  /\ holder = NoThread
  /\ ~InsideWait(t)
  /\ holder' = t
  /\ UNCHANGED <<waiting, woken>>

Release(t) ==
  /\ holder = t
  /\ holder' = NoThread
  /\ UNCHANGED <<waiting, woken>>

Wait(t, c) ==
  /\ holder = t
  /\ holder' = NoThread
  /\ waiting' = [waiting EXCEPT ![c] = Append(@, t)]
  /\ UNCHANGED woken

Regain(t) ==
  /\ holder = NoThread
  /\ t \in woken
  /\ holder' = t
  /\ woken' = woken \ {t}
  /\ UNCHANGED waiting

(* The effect of Signal and of Broadcast on those who wait; the caller     *)
(* holds the lock.                                                         *)
Wake(c) ==
  IF waiting[c] = <<>>
  THEN UNCHANGED <<waiting, woken>>
  ELSE /\ waiting' = [waiting EXCEPT ![c] = Tail(@)]
       /\ woken' = woken \cup {Head(waiting[c])}

Signal(t, c) ==
  /\ holder = t
  /\ Wake(c)
  /\ UNCHANGED holder

Broadcast(t, c) ==
  /\ holder = t
  /\ waiting' = [waiting EXCEPT ![c] = <<>>]
  /\ woken' = woken \cup WaitingSet(c)
  /\ UNCHANGED holder

MonitorNext ==
  \E t \in Threads :
    \/ Acquire(t) \/ Release(t) \/ Regain(t)
    \/ \E c \in Conds : Wait(t, c) \/ Signal(t, c) \/ Broadcast(t, c)

MonitorSpec == MonitorInit /\ [][MonitorNext]_monitorVars
=============================================================================
