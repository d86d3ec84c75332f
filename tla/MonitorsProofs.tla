--------------------------- MODULE MonitorsProofs ---------------------------
(***************************************************************************)
(* Proofs about Lock and Condition, for any number of threads and          *)
(* conditions.                                                             *)
(***************************************************************************)
EXTENDS Monitors, FiniteSetTheorems, TLAPS

-----------------------------------------------------------------------------
(* Queues as sets: what List::Append and List::Remove do to them.          *)

Distinct(q) == \A i, j \in 1..Len(q) : q[i] = q[j] => i = j

Items(q) == { q[i] : i \in 1..Len(q) }

(* Append adds its item, once.                                             *)
LEMMA AppendItems ==
  ASSUME NEW q \in Seq(Threads), NEW t \in Threads
  PROVE  /\ Append(q, t) \in Seq(Threads)
         /\ Items(Append(q, t)) = Items(q) \cup {t}
         /\ Distinct(q) /\ t \notin Items(q) => Distinct(Append(q, t))
  <1>1. /\ Append(q, t) \in Seq(Threads)
        /\ Len(q) \in Nat /\ Len(Append(q, t)) = Len(q) + 1
        /\ \A i \in 1..Len(q) : Append(q, t)[i] = q[i]
        /\ Append(q, t)[Len(q) + 1] = t
    OBVIOUS
  <1>2. \A i : i \in 1 .. Len(q) + 1 <=> i \in 1..Len(q) \/ i = Len(q) + 1
    BY <1>1
  <1>3. Items(Append(q, t)) = Items(q) \cup {t}
    BY <1>1, <1>2 DEF Items
  <1>4. ASSUME Distinct(q), t \notin Items(q)
        PROVE  Distinct(Append(q, t))
    BY <1>1, <1>2, <1>4 DEF Distinct, Items
  <1> QED
    BY <1>1, <1>3, <1>4

(* Remove takes out its first item and leaves the others.                  *)
LEMMA TailItems ==
  ASSUME NEW q \in Seq(Threads), q # <<>>, Distinct(q)
  PROVE  /\ Head(q) \in Threads /\ Head(q) \in Items(q)
         /\ Tail(q) \in Seq(Threads)
         /\ Items(Tail(q)) = Items(q) \ {Head(q)}
         /\ Distinct(Tail(q))
  <1>1. /\ Tail(q) \in Seq(Threads)
        /\ Len(q) \in Nat /\ Len(q) > 0 /\ Len(Tail(q)) = Len(q) - 1
        /\ \A i \in 1 .. Len(q) - 1 : Tail(q)[i] = q[i + 1]
        /\ Head(q) = q[1] /\ Head(q) \in Threads
    OBVIOUS
  <1>2. Distinct(Tail(q))
    BY <1>1 DEF Distinct
  <1>3. ASSUME NEW x \in Items(Tail(q)) PROVE x \in Items(q) \ {Head(q)}
    <2>1. PICK i \in 1 .. Len(q) - 1 : x = q[i + 1]
      BY <1>1, <1>3 DEF Items
    <2>2. i + 1 \in 1..Len(q) /\ 1 \in 1..Len(q) /\ i + 1 # 1
      BY <1>1
    <2> QED
      BY <1>1, <2>1, <2>2 DEF Items, Distinct
  <1>4. ASSUME NEW x \in Items(q), x # Head(q) PROVE x \in Items(Tail(q))
    <2>1. PICK i \in 1..Len(q) : x = q[i]
      BY <1>4 DEF Items
    <2>2. i - 1 \in 1 .. Len(q) - 1 /\ Tail(q)[i - 1] = x
      BY <1>1, <1>4, <2>1
    <2> QED
      BY <1>1, <2>2 DEF Items
  <1>5. Head(q) \in Items(q)
    BY <1>1 DEF Items
  <1> QED
    BY <1>1, <1>2, <1>3, <1>4, <1>5

-----------------------------------------------------------------------------
(* Steps of a Signal, of the user or inside Broadcast (synch.cc:198-209).  *)
(* The waiter removed from the queue is on its way; nobody else is touched.*)
LEMMA SignalRemoveKeepsWaiters ==
  ASSUME Inv, MonitorsAssumption, NEW t \in Threads, NEW c \in Conds, NEW from, NEW to,
         SignalRemove(t, c, from, to),
         \/ from = "in" /\ to = "signal"
         \/ from = "cast" /\ to = "castSignal"
  PROVE  TypeOK' /\ WaitersExact'
  <1> DEFINE w == Head(waitQueue[c])
  <1>1. /\ waitQueue[c] \in Seq(Threads) /\ waitQueue[c] # <<>>
        /\ Distinct(waitQueue[c]) /\ Items(waitQueue[c]) = QueueSet(c)
    BY DEF Inv, TypeOK, WaitersExact, Distinct, Items, SignalRemove, QueueSet
  <1>2. /\ w \in Threads /\ w \in QueueSet(c)
        /\ Tail(waitQueue[c]) \in Seq(Threads)
        /\ Items(Tail(waitQueue[c])) = QueueSet(c) \ {w}
        /\ Distinct(Tail(waitQueue[c]))
    BY <1>1, TailItems
  <1>3. TypeOK'
    BY <1>2 DEF Inv, TypeOK, SignalRemove, Goto, Location, OutsideLock,
                BeforeHolderSet, AfterHolderCleared, AsHolder
  <1>4. /\ QueueSet(c)' = QueueSet(c) \ {w}
        /\ \A d \in Conds : d # c => QueueSet(d)' = QueueSet(d)
        /\ \A d \in Conds : Distinct(waitQueue'[d])
    <2>1. waitQueue'[c] = Tail(waitQueue[c])
      BY DEF Inv, TypeOK, SignalRemove
    <2>2. \A d \in Conds : d # c => waitQueue'[d] = waitQueue[d]
      BY DEF Inv, TypeOK, SignalRemove
    <2>3. \A d \in Conds : Distinct(waitQueue[d])
      BY DEF Inv, WaitersExact, Distinct
    <2>4. \A d \in Conds : QueueSet(d) = Items(waitQueue[d]) /\ QueueSet(d)' = Items(waitQueue'[d])
      BY DEF Items, QueueSet
    <2>5. QueueSet(c)' = QueueSet(c) \ {w}
      BY <1>2, <2>1, <2>4
    <2>6. \A d \in Conds : d # c => QueueSet(d)' = QueueSet(d)
      BY <2>2, <2>4
    <2>7. \A d \in Conds : Distinct(waitQueue'[d])
      BY <1>2, <2>1, <2>2, <2>3
    <2> QED
      BY <2>5, <2>6, <2>7
  <1>5. /\ target[t] = NoThread /\ w # NoThread /\ pc[t] \notin Waiting
        /\ target' = [target EXCEPT ![t] = w]
        /\ pc' = [pc EXCEPT ![t] = to] /\ to \in Signalling /\ to \notin Waiting
        /\ waiter' = waiter
        /\ cond' = [cond EXCEPT ![t] = c]
    BY <1>2 DEF Inv, TypeOK, WaitersExact, SignalRemove, Goto, Signalling, Waiting,
                MonitorsAssumption
  <1>6. /\ \A u \in Threads : target[u] # w
        /\ w # t
        /\ \A d \in Conds : w \in QueueSet(d) => d = c
    BY <1>2, <1>5 DEF Inv, WaitersExact, Queued, Signalled
  <1>7. \A u \in Threads : Queued(u)' <=> Queued(u) /\ u # w
    BY <1>2, <1>4, <1>6 DEF Queued
  <1>8. \A u \in Threads : Signalled(u)' <=> Signalled(u) \/ u = w
    BY <1>2, <1>5 DEF Signalled, Inv, TypeOK, MonitorsAssumption
  <1>9. \A u \in Threads : target'[u] # NoThread <=> pc'[u] \in Signalling
    BY <1>5 DEF Inv, TypeOK, WaitersExact
  <1>10. \A u \in Threads : pc'[u] \in Waiting <=> pc[u] \in Waiting
    BY <1>5 DEF Inv, TypeOK
  <1>11. ASSUME NEW u \in Threads, NEW d \in Conds, u \in QueueSet(d)'
         PROVE  cond'[u] = d
    <2>1. u \in QueueSet(d) /\ u # w
      <3>1. CASE d = c
        BY <3>1, <1>4, <1>11
      <3>2. CASE d # c
        BY <3>2, <1>4, <1>6, <1>11
      <3> QED
        BY <3>1, <3>2
    <2>2. u # t /\ cond[u] = d
      BY <2>1, <1>5 DEF Inv, WaitersExact, Queued
    <2> QED
      BY <2>2, <1>5 DEF Inv, TypeOK
  <1>12. Queued(w)
    BY <1>2 DEF Queued
  <1>13. WaitersExact'
    <2>1. \A u \in Threads :
            /\ waiter[u] \in {0, 1}
            /\ Queued(u) => ~Signalled(u) /\ waiter[u] = 0
            /\ Signalled(u) => waiter[u] = 0
            /\ pc[u] \in Waiting <=> Queued(u) \/ Signalled(u) \/ waiter[u] = 1
      BY DEF Inv, WaitersExact
    <2>2. \A u \in Threads :
            /\ waiter'[u] \in {0, 1}
            /\ Queued(u)' => ~Signalled(u)' /\ waiter'[u] = 0
            /\ Signalled(u)' => waiter'[u] = 0
            /\ pc'[u] \in Waiting <=> Queued(u)' \/ Signalled(u)' \/ waiter'[u] = 1
      BY <2>1, <1>2, <1>5, <1>7, <1>8, <1>10, <1>12
    <2> QED
      BY <2>2, <1>4, <1>9, <1>11 DEF WaitersExact, Distinct
  <1> QED
    BY <1>3, <1>13

(* A step that leaves queues, targets and units alone, and does not take   *)
(* its thread into a Wait or a Signal, or out of one, leaves the waiters.  *)
LEMMA OtherStepsKeepWaiters ==
  ASSUME Inv, NEW t \in Threads, NEW from, NEW to, Goto(t, from, to),
         from \in Waiting <=> to \in Waiting, from \notin Signalling, to \notin Signalling,
         \/ cond' = cond
         \/ from \notin Waiting /\ \E c \in Conds : cond' = [cond EXCEPT ![t] = c],
         UNCHANGED <<target, waitQueue, waiter>>
  PROVE  WaitersExact'
  <1>1. /\ \A c \in Conds : QueueSet(c)' = QueueSet(c)
        /\ \A u \in Threads : (Queued(u)' <=> Queued(u)) /\ (Signalled(u)' <=> Signalled(u))
    BY DEF QueueSet, Queued, Signalled
  <1>2. \A u \in Threads : /\ pc'[u] \in Waiting <=> pc[u] \in Waiting
                           /\ pc'[u] \in Signalling <=> pc[u] \in Signalling
    BY DEF Inv, TypeOK, Goto
  <1>3. ASSUME NEW u \in Threads, NEW c \in Conds, u \in QueueSet(c)'
        PROVE  cond'[u] = c
    <2>1. u \in QueueSet(c) /\ cond[u] = c /\ pc[u] \in Waiting
      BY <1>1, <1>3 DEF Inv, WaitersExact, Queued
    <2> QED
      BY <2>1 DEF Inv, TypeOK, Goto
  <1> QED
    BY <1>1, <1>2, <1>3 DEF Inv, WaitersExact

(* A step of a thread that is and stays between P and V of the mutex.      *)
LEMMA InsideKeepsExclusion ==
  ASSUME Inv, NEW t \in Threads, NEW from, NEW to, Goto(t, from, to),
         from \notin OutsideLock, to \notin OutsideLock, mutex' = mutex
  PROVE  MutualExclusion'
  <1>1. \A u \in Threads : InLock(u)' <=> InLock(u)
    BY DEF Inv, TypeOK, Goto, InLock
  <1> QED
    BY <1>1 DEF Inv, MutualExclusion

(* A step of the holder that leaves it the holder.                         *)
LEMMA HolderKeeps ==
  ASSUME Inv, NEW t \in Threads, NEW from, NEW to, Goto(t, from, to),
         from \in AsHolder, to \in AsHolder, mutex' = mutex, lockHolder' = lockHolder
  PROVE  MutualExclusion' /\ HolderIsExact'
  <1>1. MutualExclusion'
    BY InsideKeepsExclusion DEF AsHolder, OutsideLock
  <1>2. \A u \in Threads : pc'[u] \in AsHolder <=> pc[u] \in AsHolder
    BY DEF Inv, TypeOK, Goto
  <1> QED
    BY <1>1, <1>2 DEF Inv, HolderIsExact

(* Lock::Acquire (synch.cc:144-149): P.                                    *)
LEMMA AcquirePKeepsInv ==
  ASSUME Inv, NEW t \in Threads, AcquireP(t)
  PROVE  Inv'
  <1> USE DEF Location, OutsideLock, BeforeHolderSet, AfterHolderCleared, AsHolder
  <1>1. TypeOK'
    <2>1. pc' \in [Threads -> Location]
      BY DEF Inv, TypeOK, AcquireP, Goto
    <2>2. mutex' \in Nat
      BY DEF Inv, TypeOK, AcquireP
    <2> QED
      BY <2>1, <2>2 DEF Inv, TypeOK, AcquireP
  <1>2. MutualExclusion'
    <2>1. mutex = 1 /\ mutex' = 0 /\ \A u \in Threads : ~InLock(u)
      BY DEF Inv, TypeOK, MutualExclusion, AcquireP
    <2>2. \A u \in Threads : InLock(u)' <=> u = t
      BY <2>1 DEF Inv, TypeOK, AcquireP, Goto, InLock
    <2> QED
      BY <2>1, <2>2 DEF MutualExclusion
  <1>3. HolderIsExact'
    BY DEF Inv, TypeOK, HolderIsExact, AcquireP, Goto
  <1>4. WaitersExact'
    <2>1. CASE Goto(t, "out", "got")
      BY <2>1, OtherStepsKeepWaiters DEF AcquireP, Waiting, Signalling
    <2>2. CASE Goto(t, "regain", "regot")
      BY <2>2, OtherStepsKeepWaiters DEF AcquireP, Waiting, Signalling
    <2> QED
      BY <2>1, <2>2 DEF AcquireP
  <1> QED
    BY <1>1, <1>2, <1>3, <1>4 DEF Inv

(* Lock::Acquire: the holder is recorded.                                  *)
LEMMA AcquireSetHolderKeepsInv ==
  ASSUME Inv, MonitorsAssumption, NEW t \in Threads, AcquireSetHolder(t)
  PROVE  Inv'
  <1> USE DEF Location, OutsideLock, BeforeHolderSet, AfterHolderCleared, AsHolder
  <1>1. PICK from \in {"got", "regot"} : Goto(t, from, "in")
    BY DEF AcquireSetHolder
  <1>2. TypeOK'
    BY <1>1 DEF Inv, TypeOK, AcquireSetHolder, Goto
  <1>3. MutualExclusion'
    BY <1>1, InsideKeepsExclusion DEF AcquireSetHolder
  <1>4. \A u \in Threads : u # t => pc[u] \in OutsideLock
    BY <1>1 DEF Inv, MutualExclusion, InLock, Goto
  <1>5. HolderIsExact'
    BY <1>1, <1>4 DEF Inv, TypeOK, HolderIsExact, AcquireSetHolder, Goto
  <1>6. WaitersExact'
    BY <1>1, OtherStepsKeepWaiters DEF AcquireSetHolder, Waiting, Signalling
  <1> QED
    BY <1>2, <1>3, <1>5, <1>6 DEF Inv

(* Lock::Release (synch.cc:152-158): the holder is forgotten.              *)
LEMMA ReleaseClearHolderKeepsInv ==
  ASSUME Inv, MonitorsAssumption, NEW t \in Threads, ReleaseClearHolder(t)
  PROVE  Inv'
  <1> USE DEF Location, OutsideLock, BeforeHolderSet, AfterHolderCleared, AsHolder
  <1>1. TypeOK'
    BY DEF Inv, TypeOK, ReleaseClearHolder, Goto
  <1>2. MutualExclusion'
    <2>1. CASE Goto(t, "in", "free")
      BY <2>1, InsideKeepsExclusion DEF ReleaseClearHolder
    <2>2. CASE Goto(t, "wait", "waitFree")
      BY <2>2, InsideKeepsExclusion DEF ReleaseClearHolder
    <2> QED
      BY <2>1, <2>2 DEF ReleaseClearHolder
  <1>3. \A u \in Threads : u # t => pc[u] \in OutsideLock
    BY DEF Inv, MutualExclusion, InLock, ReleaseClearHolder, Goto
  <1>4. HolderIsExact'
    BY <1>3 DEF Inv, TypeOK, HolderIsExact, ReleaseClearHolder, Goto, MonitorsAssumption
  <1>5. WaitersExact'
    <2>1. CASE Goto(t, "in", "free")
      BY <2>1, OtherStepsKeepWaiters DEF ReleaseClearHolder, Waiting, Signalling
    <2>2. CASE Goto(t, "wait", "waitFree")
      BY <2>2, OtherStepsKeepWaiters DEF ReleaseClearHolder, Waiting, Signalling
    <2> QED
      BY <2>1, <2>2 DEF ReleaseClearHolder
  <1> QED
    BY <1>1, <1>2, <1>4, <1>5 DEF Inv

(* Lock::Release: V.                                                       *)
LEMMA ReleaseVKeepsInv ==
  ASSUME Inv, NEW t \in Threads, ReleaseV(t)
  PROVE  Inv'
  <1> USE DEF Location, OutsideLock, BeforeHolderSet, AfterHolderCleared, AsHolder
  <1>1. TypeOK'
    <2>1. pc' \in [Threads -> Location]
      BY DEF Inv, TypeOK, ReleaseV, Goto
    <2>2. mutex' \in Nat
      BY DEF Inv, TypeOK, ReleaseV
    <2> QED
      BY <2>1, <2>2 DEF Inv, TypeOK, ReleaseV
  <1>2. MutualExclusion'
    <2>1. InLock(t) /\ \A u \in Threads : InLock(u) => u = t
      BY DEF Inv, MutualExclusion, InLock, ReleaseV, Goto
    <2>2. mutex' = 1
      BY <2>1 DEF Inv, MutualExclusion, ReleaseV
    <2>3. \A u \in Threads : ~InLock(u)'
      BY <2>1 DEF Inv, TypeOK, InLock, ReleaseV, Goto
    <2> QED
      BY <2>2, <2>3 DEF MutualExclusion
  <1>3. HolderIsExact'
    BY DEF Inv, TypeOK, HolderIsExact, ReleaseV, Goto
  <1>4. WaitersExact'
    <2>1. CASE Goto(t, "free", "out")
      BY <2>1, OtherStepsKeepWaiters DEF ReleaseV, Waiting, Signalling
    <2>2. CASE Goto(t, "waitFree", "asleep")
      BY <2>2, OtherStepsKeepWaiters DEF ReleaseV, Waiting, Signalling
    <2> QED
      BY <2>1, <2>2 DEF ReleaseV
  <1> QED
    BY <1>1, <1>2, <1>3, <1>4 DEF Inv

(* Condition::Wait (synch.cc:183-195): its semaphore joins the queue.      *)
LEMMA WaitEnqueueKeepsInv ==
  ASSUME Inv, MonitorsAssumption, NEW t \in Threads, NEW c \in Conds, WaitEnqueue(t, c)
  PROVE  Inv'
  <1>1. /\ waitQueue[c] \in Seq(Threads) /\ Distinct(waitQueue[c])
        /\ Items(waitQueue[c]) = QueueSet(c)
    BY DEF Inv, TypeOK, WaitersExact, Distinct, Items, QueueSet
  <1>2. /\ pc[t] = "in" /\ pc' = [pc EXCEPT ![t] = "wait"]
        /\ cond' = [cond EXCEPT ![t] = c] /\ waiter' = [waiter EXCEPT ![t] = 0]
        /\ waitQueue' = [waitQueue EXCEPT ![c] = Append(waitQueue[c], t)]
        /\ target' = target /\ mutex' = mutex /\ lockHolder' = lockHolder
    BY DEF WaitEnqueue, Goto
  <1>3. ~Queued(t) /\ ~Signalled(t) /\ waiter[t] = 0
    BY <1>2 DEF Inv, WaitersExact, Waiting
  <1>4. /\ Append(waitQueue[c], t) \in Seq(Threads)
        /\ Items(Append(waitQueue[c], t)) = QueueSet(c) \cup {t}
        /\ Distinct(Append(waitQueue[c], t))
    BY <1>1, <1>3, AppendItems DEF Queued
  <1>5. TypeOK'
    BY <1>2, <1>4 DEF Inv, TypeOK, Location, OutsideLock, BeforeHolderSet,
                      AfterHolderCleared, AsHolder
  <1>6. MutualExclusion' /\ HolderIsExact'
    BY <1>2, HolderKeeps DEF Goto, AsHolder
  <1>7. /\ QueueSet(c)' = QueueSet(c) \cup {t}
        /\ \A d \in Conds : d # c => QueueSet(d)' = QueueSet(d)
        /\ \A d \in Conds : Distinct(waitQueue'[d])
    <2>1. /\ waitQueue'[c] = Append(waitQueue[c], t)
          /\ \A d \in Conds : d # c => waitQueue'[d] = waitQueue[d]
      BY <1>2 DEF Inv, TypeOK
    <2>2. \A d \in Conds : Distinct(waitQueue[d])
      BY DEF Inv, WaitersExact, Distinct
    <2> QED
      BY <1>4, <2>1, <2>2 DEF Items, QueueSet
  <1>8. /\ \A u \in Threads : Queued(u)' <=> Queued(u) \/ u = t
        /\ \A u \in Threads : Signalled(u)' <=> Signalled(u)
    BY <1>2, <1>7 DEF Queued, Signalled
  <1>9. \A u \in Threads : /\ pc'[u] \in Waiting <=> pc[u] \in Waiting \/ u = t
                           /\ pc'[u] \in Signalling <=> pc[u] \in Signalling
    BY <1>2 DEF Inv, TypeOK, Waiting, Signalling
  <1>10. ASSUME NEW u \in Threads, NEW d \in Conds, u \in QueueSet(d)'
         PROVE  cond'[u] = d
    <2>1. CASE u = t
      BY <2>1, <1>2, <1>3, <1>7, <1>10 DEF Inv, TypeOK, Queued
    <2>2. CASE u # t
      <3>1. u \in QueueSet(d)
        BY <2>2, <1>7, <1>10
      <3> QED
        BY <2>2, <3>1, <1>2 DEF Inv, TypeOK, WaitersExact
    <2> QED
      BY <2>1, <2>2
  <1>11. \A u \in Threads : waiter'[u] = waiter[u]
    BY <1>2, <1>3 DEF Inv, TypeOK
  <1>12. WaitersExact'
    <2>1. \A u \in Threads :
            /\ waiter'[u] \in {0, 1}
            /\ Queued(u)' => ~Signalled(u)' /\ waiter'[u] = 0
            /\ Signalled(u)' => waiter'[u] = 0
            /\ pc'[u] \in Waiting <=> Queued(u)' \/ Signalled(u)' \/ waiter'[u] = 1
      BY <1>3, <1>8, <1>9, <1>11 DEF Inv, WaitersExact
    <2>2. \A u \in Threads : target'[u] # NoThread <=> pc'[u] \in Signalling
      BY <1>2, <1>9 DEF Inv, WaitersExact
    <2> QED
      BY <2>1, <2>2, <1>7, <1>10 DEF WaitersExact, Distinct
  <1> QED
    BY <1>5, <1>6, <1>12 DEF Inv

(* Condition::Wait: the wake-up is taken.                                  *)
LEMMA WaitPKeepsInv ==
  ASSUME Inv, NEW t \in Threads, WaitP(t)
  PROVE  Inv'
  <1>1. /\ pc[t] = "asleep" /\ pc' = [pc EXCEPT ![t] = "regain"]
        /\ UNCHANGED <<cond, target, mutex, lockHolder, waitQueue>>
    BY DEF WaitP, Goto
  <1>2. waiter[t] = 1 /\ waiter' = [waiter EXCEPT ![t] = 0]
    <2>1. waiter[t] \in {0, 1}
      BY DEF Inv, WaitersExact
    <2>2. waiter[t] > 0 /\ waiter' = [waiter EXCEPT ![t] = waiter[t] - 1]
      BY DEF WaitP
    <2>3. waiter[t] = 1 /\ waiter[t] - 1 = 0
      BY <2>1, <2>2
    <2> QED
      BY <2>2, <2>3
  <1>3. TypeOK'
    BY <1>1, <1>2 DEF Inv, TypeOK, Location, OutsideLock, BeforeHolderSet,
                      AfterHolderCleared, AsHolder
  <1>4. MutualExclusion' /\ HolderIsExact'
    <2>1. \A u \in Threads : InLock(u)' <=> InLock(u)
      BY <1>1 DEF Inv, TypeOK, InLock, OutsideLock
    <2>2. \A u \in Threads : pc'[u] \in AsHolder <=> pc[u] \in AsHolder
      BY <1>1 DEF Inv, TypeOK, AsHolder
    <2> QED
      BY <1>1, <2>1, <2>2 DEF Inv, MutualExclusion, HolderIsExact
  <1>5. ~Queued(t) /\ ~Signalled(t)
    BY <1>2 DEF Inv, WaitersExact
  <1>6. /\ \A c \in Conds : QueueSet(c)' = QueueSet(c)
        /\ \A u \in Threads : (Queued(u)' <=> Queued(u)) /\ (Signalled(u)' <=> Signalled(u))
    BY <1>1 DEF QueueSet, Queued, Signalled
  <1>7. \A u \in Threads :
          /\ pc'[u] \in Waiting <=> pc[u] \in Waiting /\ u # t
          /\ pc'[u] \in Signalling <=> pc[u] \in Signalling
          /\ waiter'[u] = IF u = t THEN 0 ELSE waiter[u]
    BY <1>1, <1>2 DEF Inv, TypeOK, Waiting, Signalling
  <1>8. WaitersExact'
    <2>1. \A u \in Threads :
            /\ waiter[u] \in {0, 1}
            /\ Queued(u) => ~Signalled(u) /\ waiter[u] = 0
            /\ Signalled(u) => waiter[u] = 0
            /\ pc[u] \in Waiting <=> Queued(u) \/ Signalled(u) \/ waiter[u] = 1
      BY DEF Inv, WaitersExact
    <2>2. \A u \in Threads :
            /\ waiter'[u] \in {0, 1}
            /\ Queued(u)' => ~Signalled(u)' /\ waiter'[u] = 0
            /\ Signalled(u)' => waiter'[u] = 0
            /\ pc'[u] \in Waiting <=> Queued(u)' \/ Signalled(u)' \/ waiter'[u] = 1
      BY <2>1, <1>5, <1>6, <1>7
    <2> QED
      BY <2>2, <1>1, <1>6, <1>7 DEF Inv, WaitersExact
  <1> QED
    BY <1>3, <1>4, <1>8 DEF Inv

(* Condition::Signal (synch.cc:198-209): the waiter gets its unit.         *)
LEMMA SignalVKeepsInv ==
  ASSUME Inv, MonitorsAssumption, NEW t \in Threads, SignalV(t)
  PROVE  Inv'
  <1> DEFINE w == target[t]
  <1>1. PICK from \in {"signal", "castSignal"}, to \in {"in", "cast"} : Goto(t, from, to)
    BY DEF SignalV
  <1>2. /\ pc[t] \in Signalling /\ pc' = [pc EXCEPT ![t] = to]
        /\ target' = [target EXCEPT ![t] = NoThread]
        /\ UNCHANGED <<cond, mutex, lockHolder, waitQueue>>
    BY <1>1 DEF SignalV, Goto, Signalling
  <1>3. w \in Threads /\ Signalled(w) /\ waiter[w] = 0 /\ ~Queued(w)
    BY <1>2 DEF Inv, TypeOK, WaitersExact, Signalled
  <1>4. waiter' = [waiter EXCEPT ![w] = 1]
    BY <1>3 DEF SignalV, Inv, TypeOK
  <1>5. TypeOK'
    BY <1>1, <1>2, <1>3, <1>4 DEF Inv, TypeOK, Location, OutsideLock, BeforeHolderSet,
                                  AfterHolderCleared, AsHolder
  <1>6. MutualExclusion' /\ HolderIsExact'
    BY <1>1, <1>2, HolderKeeps DEF AsHolder
  <1>7. \A u \in Threads : target[u] \in Threads => u = t
    <2>1. \A u \in Threads : target[u] \in Threads => InLock(u)
      BY DEF Inv, WaitersExact, MonitorsAssumption, InLock, OutsideLock, Signalling
    <2>2. InLock(t)
      BY <1>2 DEF InLock, OutsideLock, Signalling
    <2> QED
      BY <2>1, <2>2 DEF Inv, MutualExclusion
  <1>8. /\ \A c \in Conds : QueueSet(c)' = QueueSet(c)
        /\ \A u \in Threads : Queued(u)' <=> Queued(u)
    BY <1>2 DEF QueueSet, Queued
  <1>9. \A u \in Threads : ~Signalled(u)' /\ (Signalled(u) <=> u = w)
    BY <1>2, <1>3, <1>7 DEF Signalled, Inv, TypeOK, MonitorsAssumption
  <1>10. \A u \in Threads :
           /\ pc'[u] \in Waiting <=> pc[u] \in Waiting
           /\ pc'[u] \in Signalling <=> pc[u] \in Signalling /\ u # t
           /\ target'[u] = IF u = t THEN NoThread ELSE target[u]
           /\ waiter'[u] = IF u = w THEN 1 ELSE waiter[u]
    BY <1>1, <1>2, <1>3, <1>4 DEF Inv, TypeOK, Waiting, Signalling
  <1>11. \A u \in Threads :
            /\ waiter'[u] \in {0, 1}
            /\ Queued(u)' => ~Signalled(u)' /\ waiter'[u] = 0
            /\ Signalled(u)' => waiter'[u] = 0
            /\ pc'[u] \in Waiting <=> Queued(u)' \/ Signalled(u)' \/ waiter'[u] = 1
    <2>1. \A u \in Threads :
            /\ waiter[u] \in {0, 1}
            /\ Queued(u) => waiter[u] = 0
            /\ pc[u] \in Waiting <=> Queued(u) \/ Signalled(u) \/ waiter[u] = 1
      BY DEF Inv, WaitersExact
    <2> HIDE DEF w
    <2> QED
      BY <2>1, <1>3, <1>8, <1>9, <1>10
  <1>12. \A u \in Threads : target'[u] # NoThread <=> pc'[u] \in Signalling
    BY <1>10 DEF Inv, WaitersExact
  <1>13. WaitersExact'
    BY <1>2, <1>8, <1>11, <1>12 DEF Inv, WaitersExact
  <1> QED
    BY <1>5, <1>6, <1>13 DEF Inv

-----------------------------------------------------------------------------
(* Init: an open lock and no waiters.                                      *)
LEMMA InitInv ==
  ASSUME MonitorsAssumption, Conds # {}, Init
  PROVE  Inv
  <1>1. (CHOOSE c \in Conds : TRUE) \in Conds
    OBVIOUS
  <1>2. TypeOK
    BY <1>1 DEF Init, TypeOK, Location, OutsideLock
  <1>3. \A t \in Threads : ~InLock(t) /\ pc[t] \notin AsHolder
    BY DEF Init, InLock, OutsideLock, AsHolder
  <1>4. MutualExclusion /\ HolderIsExact
    BY <1>3 DEF Init, MutualExclusion, HolderIsExact, MonitorsAssumption
  <1>5. \A c \in Conds : waitQueue[c] = <<>> /\ QueueSet(c) = {}
    BY DEF Init, QueueSet
  <1>6. \A t \in Threads : ~Queued(t) /\ ~Signalled(t)
    BY <1>5 DEF Init, Queued, Signalled, MonitorsAssumption
  <1>7. \A t \in Threads : /\ pc[t] \notin Waiting /\ pc[t] \notin Signalling
                           /\ target[t] = NoThread /\ waiter[t] = 0
    BY DEF Init, Waiting, Signalling
  <1>8. WaitersExact
    BY <1>5, <1>6, <1>7 DEF WaitersExact
  <1> QED
    BY <1>2, <1>4, <1>8 DEF Inv

(* Every step keeps the invariant: one case per action of a thread.        *)
LEMMA NextKeepsInv ==
  ASSUME MonitorsAssumption, Inv, [Next]_vars
  PROVE  Inv'
  <1>1. CASE UNCHANGED vars
    <2>1. /\ pc' = pc /\ cond' = cond /\ target' = target /\ mutex' = mutex
          /\ lockHolder' = lockHolder /\ waitQueue' = waitQueue /\ waiter' = waiter
      BY <1>1 DEF vars
    <2>2. TypeOK' /\ HolderIsExact'
      BY <2>1 DEF Inv, TypeOK, HolderIsExact
    <2>3. MutualExclusion'
      BY <2>1 DEF Inv, MutualExclusion, InLock
    <2>4. /\ \A c \in Conds : QueueSet(c)' = QueueSet(c)
          /\ \A t \in Threads : (Queued(t)' <=> Queued(t)) /\ (Signalled(t)' <=> Signalled(t))
      BY <2>1 DEF QueueSet, Queued, Signalled
    <2>5. WaitersExact'
      BY <2>1, <2>4 DEF Inv, WaitersExact
    <2> QED
      BY <2>2, <2>3, <2>5 DEF Inv
  <1>2. ASSUME NEW t \in Threads, Step(t) PROVE Inv'
    <2>1. CASE AcquireP(t)
      BY <2>1, AcquirePKeepsInv
    <2>2. CASE AcquireSetHolder(t)
      BY <2>2, AcquireSetHolderKeepsInv
    <2>3. CASE ReleaseClearHolder(t)
      BY <2>3, ReleaseClearHolderKeepsInv
    <2>4. CASE ReleaseV(t)
      BY <2>4, ReleaseVKeepsInv
    <2>5. CASE WaitP(t)
      BY <2>5, WaitPKeepsInv
    <2>6. CASE SignalV(t)
      BY <2>6, SignalVKeepsInv
    <2>7. CASE BroadcastSignal(t)
      <3>1. cond[t] \in Conds
        BY DEF Inv, TypeOK
      <3>2. TypeOK' /\ WaitersExact'
        BY <2>7, <3>1, SignalRemoveKeepsWaiters DEF BroadcastSignal
      <3>3. MutualExclusion' /\ HolderIsExact'
        BY <2>7, HolderKeeps DEF BroadcastSignal, SignalRemove, AsHolder
      <3> QED
        BY <3>2, <3>3 DEF Inv
    <2>8. CASE BroadcastEnd(t)
      <3>1. TypeOK'
        BY <2>8 DEF Inv, TypeOK, BroadcastEnd, Goto, Location, OutsideLock,
                    BeforeHolderSet, AfterHolderCleared, AsHolder
      <3>2. MutualExclusion' /\ HolderIsExact'
        BY <2>8, HolderKeeps DEF BroadcastEnd, AsHolder
      <3>3. WaitersExact'
        BY <2>8, OtherStepsKeepWaiters DEF BroadcastEnd, Waiting, Signalling
      <3> QED
        BY <3>1, <3>2, <3>3 DEF Inv
    <2>9. ASSUME NEW c \in Conds, WaitEnqueue(t, c) PROVE Inv'
      BY <2>9, WaitEnqueueKeepsInv
    <2>10. ASSUME NEW c \in Conds, Signal(t, c) PROVE Inv'
      <3>1. TypeOK' /\ WaitersExact'
        BY <2>10, SignalRemoveKeepsWaiters DEF Signal
      <3>2. MutualExclusion' /\ HolderIsExact'
        BY <2>10, HolderKeeps DEF Signal, SignalRemove, AsHolder
      <3> QED
        BY <3>1, <3>2 DEF Inv
    <2>11. ASSUME NEW c \in Conds, BroadcastStart(t, c) PROVE Inv'
      <3>1. TypeOK'
        BY <2>11 DEF Inv, TypeOK, BroadcastStart, Goto, Location, OutsideLock,
                     BeforeHolderSet, AfterHolderCleared, AsHolder
      <3>2. MutualExclusion' /\ HolderIsExact'
        BY <2>11, HolderKeeps DEF BroadcastStart, AsHolder
      <3>3. WaitersExact'
        BY <2>11, OtherStepsKeepWaiters DEF BroadcastStart, Waiting, Signalling
      <3> QED
        BY <3>1, <3>2, <3>3 DEF Inv
    <2> QED
      BY <1>2, <2>1, <2>2, <2>3, <2>4, <2>5, <2>6, <2>7, <2>8, <2>9, <2>10, <2>11
         DEF Step
  <1> QED
    BY <1>1, <1>2 DEF Next

-----------------------------------------------------------------------------
(* The number of queues, signallers and units a waiter has is one.         *)
LEMMA InvCounts ==
  ASSUME MonitorsAssumption, Inv
  PROVE  SignalsKept
  <1> SUFFICES ASSUME NEW t \in Threads
               PROVE  LET places == { c \in Conds : t \in QueueSet(c) }
                          signallers == { u \in Threads : target[u] = t }
                      IN  IF pc[t] \in {"wait", "waitFree", "asleep"}
                          THEN Cardinality(places) + Cardinality(signallers) + waiter[t] = 1
                          ELSE places = {} /\ signallers = {} /\ waiter[t] = 0
    BY DEF SignalsKept
  <1> DEFINE places == { c \in Conds : t \in QueueSet(c) }
             signallers == { u \in Threads : target[u] = t }
  <1>1. /\ Queued(t) <=> places # {}
        /\ Signalled(t) <=> signallers # {}
    BY DEF Queued, Signalled
  <1>2. /\ waiter[t] \in {0, 1}
        /\ Queued(t) => ~Signalled(t) /\ waiter[t] = 0
        /\ Signalled(t) => waiter[t] = 0
        /\ pc[t] \in Waiting <=> Queued(t) \/ Signalled(t) \/ waiter[t] = 1
    BY DEF Inv, WaitersExact
  <1>3. places = {} \/ places = {cond[t]}
    BY DEF Inv, WaitersExact
  <1>4. \A u, v \in signallers : u = v
    <2>1. \A u \in signallers : u \in Threads /\ InLock(u)
      BY DEF Inv, WaitersExact, MonitorsAssumption, InLock, OutsideLock, Signalling
    <2> QED
      BY <2>1 DEF Inv, MutualExclusion
  <1>5. signallers = {} \/ \E u : signallers = {u}
    BY <1>4
  <1>6. /\ places = {} => Cardinality(places) = 0
        /\ places # {} => Cardinality(places) = 1
    BY <1>3, FS_EmptySet, FS_Singleton
  <1>7. /\ signallers = {} => Cardinality(signallers) = 0
        /\ signallers # {} => Cardinality(signallers) = 1
    BY <1>5, FS_EmptySet, FS_Singleton
  <1>8. CASE pc[t] \in Waiting
    <2> HIDE DEF places, signallers
    <2>1. Cardinality(places) + Cardinality(signallers) + waiter[t] = 1
      BY <1>1, <1>2, <1>6, <1>7, <1>8
    <2> USE DEF places, signallers
    <2> QED
      BY <1>8, <2>1 DEF Waiting
  <1>9. CASE pc[t] \notin Waiting
    BY <1>1, <1>2, <1>9 DEF Waiting
  <1> QED
    BY <1>8, <1>9

(* Lock and Condition (synch.cc:144-217) exclude each other's callers,     *)
(* meet their own assertions, and lose or duplicate no wake-up, for every  *)
(* number of threads and conditions.                                       *)
THEOREM MonitorIsSound ==
  ASSUME MonitorsAssumption, Conds # {}
  PROVE  Spec => []MonitorSound
  <1>1. Init => Inv
    BY InitInv
  <1>2. Inv /\ [Next]_vars => Inv'
    BY NextKeepsInv
  <1>3. Inv => MonitorSound
    BY InvCounts DEF MonitorSound, Inv
  <1> QED
    BY <1>1, <1>2, <1>3, PTL DEF Spec
=============================================================================
