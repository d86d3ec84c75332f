---------------------------- MODULE KernelProofs ----------------------------
(***************************************************************************)
(* Proofs about Kernel, for any number of threads and semaphores.          *)
(***************************************************************************)
EXTENDS Kernel, TLAPS

-----------------------------------------------------------------------------
(* Lists: what Append, Remove and appending a whole list do to membership  *)
(* and to the absence of duplicates.                                       *)

(* List::Append adds exactly its item.                                     *)
LEMMA InAppend ==
  ASSUME NEW S, NEW q \in Seq(S), NEW t \in S, NEW u
  PROVE  In(u, Append(q, t)) <=> In(u, q) \/ u = t
  <1>1. Len(Append(q, t)) = Len(q) + 1 /\ Len(q) \in Nat
    OBVIOUS
  <1>2. \A i \in 1..Len(q) : Append(q, t)[i] = q[i]
    OBVIOUS
  <1>3. Append(q, t)[Len(q) + 1] = t
    OBVIOUS
  <1> QED
    BY <1>1, <1>2, <1>3 DEF In

(* Appending an item that is not there creates no duplicate.               *)
LEMMA NoDuplicatesAppend ==
  ASSUME NEW S, NEW q \in Seq(S), NEW t \in S, NoDuplicates(q), ~In(t, q)
  PROVE  NoDuplicates(Append(q, t))
  <1>1. Len(Append(q, t)) = Len(q) + 1 /\ Len(q) \in Nat
    OBVIOUS
  <1>2. \A i \in 1..Len(q) : Append(q, t)[i] = q[i]
    OBVIOUS
  <1>3. Append(q, t)[Len(q) + 1] = t
    OBVIOUS
  <1> QED
    BY <1>1, <1>2, <1>3 DEF In, NoDuplicates

(* List::Remove takes out exactly the first item.                          *)
LEMMA InTail ==
  ASSUME NEW S, NEW q \in Seq(S), q # <<>>, NoDuplicates(q)
  PROVE  /\ Head(q) \in S
         /\ In(Head(q), q)
         /\ Tail(q) \in Seq(S)
         /\ NoDuplicates(Tail(q))
         /\ \A u : In(u, Tail(q)) <=> In(u, q) /\ u # Head(q)
  <1>1. Len(q) \in Nat /\ Len(q) > 0 /\ Len(Tail(q)) = Len(q) - 1
    OBVIOUS
  <1>2. \A i \in 1..Len(q)-1 : Tail(q)[i] = q[i + 1]
    OBVIOUS
  <1>3. Head(q) = q[1] /\ Head(q) \in S /\ Tail(q) \in Seq(S)
    OBVIOUS
  <1>4. NoDuplicates(Tail(q))
    BY <1>1, <1>2 DEF NoDuplicates
  <1>5. ASSUME NEW u PROVE In(u, Tail(q)) <=> In(u, q) /\ u # Head(q)
    <2>1. ASSUME In(u, Tail(q)) PROVE In(u, q) /\ u # Head(q)
      <3>1. PICK i \in 1..Len(q)-1 : q[i + 1] = u
        BY <2>1, <1>1, <1>2 DEF In
      <3>2. i + 1 \in 1..Len(q) /\ i + 1 # 1 /\ 1 \in 1..Len(q)
        BY <1>1
      <3> QED
        BY <3>1, <3>2, <1>3 DEF In, NoDuplicates
    <2>2. ASSUME In(u, q), u # Head(q) PROVE In(u, Tail(q))
      <3>1. PICK i \in 1..Len(q) : q[i] = u
        BY <2>2 DEF In
      <3>2. i - 1 \in 1..Len(q)-1 /\ Tail(q)[i - 1] = u
        BY <3>1, <2>2, <1>1, <1>2, <1>3
      <3> QED
        BY <3>2, <1>1 DEF In
    <2> QED
      BY <2>1, <2>2
  <1>6. In(Head(q), q)
    BY <1>1, <1>3 DEF In
  <1> QED
    BY <1>3, <1>4, <1>5, <1>6

(* Two lists without duplicates or common items join to such a list.       *)
LEMMA InConcat ==
  ASSUME NEW S, NEW q \in Seq(S), NEW r \in Seq(S)
  PROVE  /\ q \o r \in Seq(S)
         /\ \A u : In(u, q \o r) <=> In(u, q) \/ In(u, r)
         /\ /\ NoDuplicates(q) /\ NoDuplicates(r)
            /\ \A u : ~(In(u, q) /\ In(u, r))
            => NoDuplicates(q \o r)
  <1>1. Len(q) \in Nat /\ Len(r) \in Nat /\ Len(q \o r) = Len(q) + Len(r) /\ q \o r \in Seq(S)
    OBVIOUS
  <1>2. \A i \in 1..Len(q) : (q \o r)[i] = q[i]
    OBVIOUS
  <1>3. \A i \in 1..Len(r) : (q \o r)[Len(q) + i] = r[i]
    OBVIOUS
  <1>4. \A i \in 1..Len(q \o r) :
          \/ i \in 1..Len(q) /\ (q \o r)[i] = q[i]
          \/ i - Len(q) \in 1..Len(r) /\ (q \o r)[i] = r[i - Len(q)]
    BY <1>1, <1>2, <1>3
  <1>5. ASSUME NEW u PROVE In(u, q \o r) <=> In(u, q) \/ In(u, r)
    <2>1. In(u, q \o r) => In(u, q) \/ In(u, r)
      BY <1>4 DEF In
    <2>2. In(u, q) => In(u, q \o r)
      BY <1>1, <1>2 DEF In
    <2>3. ASSUME In(u, r) PROVE In(u, q \o r)
      <3>1. PICK i \in 1..Len(r) : r[i] = u
        BY <2>3 DEF In
      <3>2. Len(q) + i \in 1..Len(q \o r) /\ (q \o r)[Len(q) + i] = u
        BY <3>1, <1>1, <1>3
      <3> QED
        BY <3>2 DEF In
    <2> QED
      BY <2>1, <2>2, <2>3
  <1>6. ASSUME NoDuplicates(q), NoDuplicates(r), \A u : ~(In(u, q) /\ In(u, r))
        PROVE  NoDuplicates(q \o r)
    <2>1. SUFFICES ASSUME NEW i \in 1..Len(q \o r), NEW j \in 1..Len(q \o r),
                          (q \o r)[i] = (q \o r)[j]
                   PROVE  i = j
      BY DEF NoDuplicates
    <2>2. CASE i \in 1..Len(q) /\ j \in 1..Len(q)
      BY <2>1, <2>2, <1>2, <1>6 DEF NoDuplicates
    <2>3. CASE i - Len(q) \in 1..Len(r) /\ j - Len(q) \in 1..Len(r)
      <3>1. r[i - Len(q)] = r[j - Len(q)]
        BY <2>1, <2>3, <1>1, <1>3
      <3>2. i - Len(q) = j - Len(q)
        BY <3>1, <2>3, <1>6 DEF NoDuplicates
      <3> QED
        BY <3>2, <1>1
    <2>4. CASE i \in 1..Len(q) /\ j - Len(q) \in 1..Len(r)
      <3>1. q[i] = r[j - Len(q)]
        BY <2>1, <2>4, <1>1, <1>2, <1>3
      <3> QED
        BY <3>1, <2>4, <1>6 DEF In
    <2>5. CASE i - Len(q) \in 1..Len(r) /\ j \in 1..Len(q)
      <3>1. q[j] = r[i - Len(q)]
        BY <2>1, <2>5, <1>1, <1>2, <1>3
      <3> QED
        BY <3>1, <2>5, <1>6 DEF In
    <2> QED
      BY <2>1, <2>2, <2>3, <2>4, <2>5, <1>1, <1>4
  <1> QED
    BY <1>1, <1>5, <1>6

-----------------------------------------------------------------------------
(* The inductive invariant.                                                *)

(* Semaphore::V, by a thread or by a handler, keeps every thread where its *)
(* status says it is.                                                      *)
LEMMA VKeepsInv ==
  ASSUME Inv, NEW s \in Sems, V(s),
         UNCHANGED <<pc, waitsFor, currentThread, threadToBeDestroyed, level>>,
         pending' \in [Sems -> Nat], mode' \in {"SystemMode", "IdleMode"},
         halted' = halted
  PROVE  Inv'
  <1> USE KernelAssumption
  <1>1. value' \in [Sems -> Nat]
    BY DEF V, Inv, TypeOK
  <1>2. CASE queue[s] = <<>>
    <2>1. UNCHANGED <<status, readyList, queue>>
      BY <1>2 DEF V
    <2> QED
      BY <1>1, <2>1 DEF Inv, TypeOK, ThreadStates, ReadyListExact, QueuesExact,
                        LevelMatchesCode, Inside
  <1>3. CASE queue[s] # <<>>
    <2> DEFINE h == Head(queue[s])
    <2>1. /\ queue[s] \in Seq(Threads)
          /\ NoDuplicates(queue[s])
          /\ readyList \in Seq(Threads)
          /\ NoDuplicates(readyList)
      BY DEF Inv, TypeOK, QueuesExact, ReadyListExact
    <2>2. /\ h \in Threads
          /\ In(h, queue[s])
          /\ Tail(queue[s]) \in Seq(Threads)
          /\ NoDuplicates(Tail(queue[s]))
          /\ \A u : In(u, Tail(queue[s])) <=> In(u, queue[s]) /\ u # h
      BY <1>3, <2>1, InTail
    <2>3. status[h] = "BLOCKED" /\ pc[h] = "P" /\ waitsFor[h] = s
      BY <2>2 DEF Inv, QueuesExact, Inside
    <2>4. ~In(h, readyList)
      BY <2>2, <2>3 DEF Inv, ReadyListExact
    <2>5. /\ status' = [status EXCEPT ![h] = "READY"]
          /\ readyList' = Append(readyList, h)
          /\ queue' = [queue EXCEPT ![s] = Tail(@)]
      BY <1>3 DEF V
    <2> HIDE DEF h
    <2>6. TypeOK'
      BY <1>1, <2>1, <2>2, <2>5 DEF Inv, TypeOK, Status
    <2>7. ThreadStates'
      BY <2>2, <2>3, <2>5 DEF Inv, TypeOK, ThreadStates
    <2>8. ReadyListExact'
      <3>1. NoDuplicates(readyList')
        BY <2>1, <2>2, <2>4, <2>5, NoDuplicatesAppend
      <3>2. \A u : In(u, readyList') <=> In(u, readyList) \/ u = h
        BY <2>1, <2>2, <2>5, InAppend
      <3> QED
        BY <3>1, <3>2, <2>2, <2>5 DEF Inv, TypeOK, ReadyListExact
    <2>9. QueuesExact'
      BY <2>2, <2>3, <2>5 DEF Inv, TypeOK, QueuesExact, Inside
    <2>10. LevelMatchesCode'
      BY <2>2, <2>3, <2>5 DEF Inv, TypeOK, LevelMatchesCode
    <2> QED
      BY <2>6, <2>7, <2>8, <2>9, <2>10 DEF Inv
  <1> QED
    BY <1>2, <1>3

(* The current thread goes to sleep in P.                                  *)
LEMMA WaitOnKeepsInv ==
  ASSUME Inv, NEW s \in Sems, WaitOn(s), status[currentThread] = "RUNNING",
         UNCHANGED <<currentThread, readyList, threadToBeDestroyed, mode, pending, halted>>
  PROVE  Inv'
  <1> USE KernelAssumption
  <1> DEFINE c == currentThread
  <1>1. /\ c \in Threads
        /\ queue[s] \in Seq(Threads)
        /\ NoDuplicates(queue[s])
        /\ \A r \in Sems : ~In(c, queue[r])
        /\ ~In(c, readyList)
        /\ c # threadToBeDestroyed
    BY DEF Inv, TypeOK, QueuesExact, ReadyListExact, ThreadStates
  <1>2. /\ queue' = [queue EXCEPT ![s] = Append(@, c)]
        /\ status' = [status EXCEPT ![c] = "BLOCKED"]
        /\ pc' = [pc EXCEPT ![c] = "P"]
        /\ waitsFor' = [waitsFor EXCEPT ![c] = s]
        /\ level' = "IntOff"
        /\ value' = value
    BY DEF WaitOn
  <1>3. /\ Append(queue[s], c) \in Seq(Threads)
        /\ NoDuplicates(Append(queue[s], c))
        /\ \A u : In(u, Append(queue[s], c)) <=> In(u, queue[s]) \/ u = c
    BY <1>1, NoDuplicatesAppend, InAppend
  <1>4. c' = c
    OBVIOUS
  <1> HIDE DEF c
  <1>5. TypeOK'
    BY <1>1, <1>2, <1>3 DEF Inv, TypeOK, Status, Location
  <1>6. ThreadStates'
    BY <1>1, <1>2, <1>4 DEF Inv, TypeOK, ThreadStates, c
  <1>7. ReadyListExact'
    BY <1>1, <1>2 DEF Inv, TypeOK, ReadyListExact
  <1>8. QueuesExact'
    BY <1>1, <1>2, <1>3 DEF Inv, TypeOK, QueuesExact, Inside
  <1>9. LevelMatchesCode'
    BY <1>1, <1>2, <1>4 DEF Inv, TypeOK, LevelMatchesCode, c
  <1> QED
    BY <1>5, <1>6, <1>7, <1>8, <1>9 DEF Inv

(* The current thread takes its unit and leaves P.                         *)
LEMMA TakeUnitKeepsInv ==
  ASSUME Inv, NEW s \in Sems, TakeUnit(s), value[s] # 0, status[currentThread] = "RUNNING",
         UNCHANGED <<currentThread, readyList, threadToBeDestroyed, mode, pending, halted>>
  PROVE  Inv'
  <1> USE KernelAssumption
  <1>1. TypeOK'
    BY DEF TakeUnit, Inv, TypeOK, Location
  <1>2. ThreadStates'
    BY DEF TakeUnit, Inv, TypeOK, ThreadStates
  <1>3. ReadyListExact'
    BY DEF TakeUnit, Inv, ReadyListExact
  <1>4. QueuesExact'
    BY DEF TakeUnit, Inv, TypeOK, QueuesExact, Inside
  <1>5. LevelMatchesCode'
    BY DEF TakeUnit, Inv, TypeOK, LevelMatchesCode
  <1> QED
    BY <1>1, <1>2, <1>3, <1>4, <1>5 DEF Inv

(* Scheduler::Run to the first ready thread: it becomes the running one,   *)
(* and of the others only the finished thread it reclaims changes status.  *)
LEMMA RunFirstReady ==
  ASSUME Inv, readyList # <<>>, NEW st \in [Threads -> Status], Run(Head(readyList), st)
  PROVE  /\ Head(readyList) \in Threads
         /\ status[Head(readyList)] = "READY"
         /\ currentThread' = Head(readyList)
         /\ status' \in [Threads -> Status]
         /\ status'[Head(readyList)] = "RUNNING"
         /\ threadToBeDestroyed' \in {threadToBeDestroyed, NULL}
         /\ threadToBeDestroyed # Head(readyList)
         /\ \A t \in Threads : t # Head(readyList) =>
              \/ status'[t] = st[t]
              \/ /\ status'[t] = "Deleted"
                 /\ t = threadToBeDestroyed
                 /\ threadToBeDestroyed' = NULL
         /\ threadToBeDestroyed' # NULL =>
              status'[threadToBeDestroyed] = st[threadToBeDestroyed]
         /\ Tail(readyList) \in Seq(Threads)
         /\ NoDuplicates(Tail(readyList))
         /\ \A u : In(u, Tail(readyList)) <=> In(u, readyList) /\ u # Head(readyList)
  <1> USE KernelAssumption
  <1> DEFINE h == Head(readyList)
  <1>1. readyList \in Seq(Threads) /\ NoDuplicates(readyList)
    BY DEF Inv, TypeOK, ReadyListExact
  <1>2. /\ h \in Threads /\ In(h, readyList)
        /\ Tail(readyList) \in Seq(Threads)
        /\ NoDuplicates(Tail(readyList))
        /\ \A u : In(u, Tail(readyList)) <=> In(u, readyList) /\ u # h
    BY <1>1, InTail
  <1>3. status[h] = "READY"
    BY <1>2 DEF Inv, ReadyListExact
  <1>4. /\ threadToBeDestroyed \in Threads \cup {NULL}
        /\ threadToBeDestroyed # h
    BY <1>2, <1>3 DEF Inv, TypeOK, ThreadStates
  <1> DEFINE reap == threadToBeDestroyed # NULL /\ pc[h] # "root"
  <1>5. /\ reap => threadToBeDestroyed # NULL
        /\ currentThread' = h
        /\ status' = [t \in Threads |-> IF t = h THEN "RUNNING"
                                        ELSE IF reap /\ t = threadToBeDestroyed THEN "Deleted"
                                        ELSE st[t]]
        /\ threadToBeDestroyed' = IF reap THEN NULL ELSE threadToBeDestroyed
    BY DEF Run
  <1> HIDE DEF h, reap
  <1>6. /\ status' \in [Threads -> Status]
        /\ status'[h] = "RUNNING"
        /\ threadToBeDestroyed' \in {threadToBeDestroyed, NULL}
        /\ \A t \in Threads : t # h =>
              \/ status'[t] = st[t]
              \/ /\ status'[t] = "Deleted"
                 /\ t = threadToBeDestroyed
                 /\ threadToBeDestroyed' = NULL
        /\ threadToBeDestroyed' # NULL =>
              status'[threadToBeDestroyed] = st[threadToBeDestroyed]
    BY <1>2, <1>4, <1>5 DEF Status
  <1> QED
    BY <1>2, <1>3, <1>4, <1>5, <1>6 DEF h

(* Every step preserves the inductive invariant.                           *)
LEMMA NextKeepsInv == Inv /\ [Next]_vars => Inv'
  <1> SUFFICES ASSUME Inv, [Next]_vars PROVE Inv'
    OBVIOUS
  <1> USE KernelAssumption
  <1>1. ASSUME NEW t \in Threads, NewThread(t) PROVE Inv'
    <2>1. TypeOK' /\ ThreadStates'
      BY <1>1 DEF NewThread, Running, machineVars, Inv, TypeOK, Status, ThreadStates
    <2>2. ReadyListExact' /\ QueuesExact'
      BY <1>1 DEF NewThread, Running, Inv, TypeOK, ReadyListExact, QueuesExact, Inside
    <2>3. LevelMatchesCode'
      BY <1>1 DEF NewThread, Running, machineVars, Inv, TypeOK, LevelMatchesCode
    <2> QED
      BY <2>1, <2>2, <2>3 DEF Inv
  <1>2. ASSUME NEW t \in Threads, Fork(t) PROVE Inv'
    <2>1. /\ status[t] = "JUST_CREATED" /\ status[currentThread] = "RUNNING"
          /\ status' = [status EXCEPT ![t] = "READY"]
          /\ readyList' = Append(readyList, t)
          /\ UNCHANGED <<pc, waitsFor, currentThread, threadToBeDestroyed, value, queue>>
          /\ UNCHANGED <<level, mode, pending, halted>>
      BY <1>2 DEF Fork, Running, machineVars
    <2>2. readyList \in Seq(Threads) /\ NoDuplicates(readyList) /\ ~In(t, readyList)
      BY <2>1 DEF Inv, TypeOK, ReadyListExact
    <2>3. TypeOK' /\ ThreadStates'
      BY <2>1, <2>2 DEF Inv, TypeOK, Status, ThreadStates
    <2>4. ReadyListExact'
      <3>1. NoDuplicates(readyList')
        BY <2>1, <2>2, NoDuplicatesAppend
      <3>2. \A u : In(u, readyList') <=> In(u, readyList) \/ u = t
        BY <2>1, <2>2, InAppend
      <3> QED
        BY <3>1, <3>2, <2>1 DEF Inv, TypeOK, ReadyListExact
    <2>5. QueuesExact'
      BY <2>1 DEF Inv, TypeOK, QueuesExact, Inside
    <2>6. LevelMatchesCode'
      BY <2>1 DEF Inv, TypeOK, LevelMatchesCode
    <2> QED
      BY <2>3, <2>4, <2>5, <2>6 DEF Inv
  <1>3. ASSUME NEW s \in Sems, P(s) PROVE Inv'
    BY <1>3, WaitOnKeepsInv, TakeUnitKeepsInv DEF P, Running
  <1>4. ASSUME NEW s \in Sems, ThreadV(s) PROVE Inv'
    <2>1. pending' \in [Sems -> Nat] /\ mode' \in {"SystemMode", "IdleMode"}
      BY <1>4 DEF ThreadV, machineVars, Inv, TypeOK
    <2> QED
      BY <1>4, <2>1, VKeepsInv DEF ThreadV, machineVars
  <1>5. ASSUME NEW s \in Sems, Destroy(s) PROVE Inv'
    <2>1. /\ status[currentThread] = "RUNNING"
          /\ status' = [t \in Threads |-> IF In(t, queue[s]) THEN "READY" ELSE status[t]]
          /\ readyList' = readyList \o queue[s]
          /\ queue' = [queue EXCEPT ![s] = <<>>]
          /\ UNCHANGED <<pc, waitsFor, currentThread, threadToBeDestroyed, value>>
          /\ UNCHANGED <<level, mode, pending, halted>>
      BY <1>5 DEF Destroy, Running, machineVars, In
    <2>2. /\ readyList \in Seq(Threads) /\ NoDuplicates(readyList)
          /\ queue[s] \in Seq(Threads) /\ NoDuplicates(queue[s])
      BY DEF Inv, TypeOK, ReadyListExact, QueuesExact
    <2>3. \A u \in Threads : In(u, queue[s]) =>
             /\ status[u] = "BLOCKED" /\ pc[u] = "P" /\ waitsFor[u] = s
             /\ ~In(u, readyList)
      BY DEF Inv, ReadyListExact, QueuesExact, Inside
    <2>4. \A u : In(u, queue[s]) => u \in Threads
      BY <2>2 DEF In
    <2>5. /\ readyList' \in Seq(Threads)
          /\ NoDuplicates(readyList')
          /\ \A u : In(u, readyList') <=> In(u, readyList) \/ In(u, queue[s])
      BY <2>1, <2>2, <2>3, <2>4, InConcat
    <2>6. \A u : ~In(u, <<>>)
      BY DEF In
    <2>7. NoDuplicates(<<>>)
      BY DEF NoDuplicates
    <2>8. TypeOK'
      BY <2>1, <2>5 DEF Inv, TypeOK, Status
    <2>9. ThreadStates'
      BY <2>1, <2>3 DEF Inv, TypeOK, ThreadStates
    <2>10. ReadyListExact'
      BY <2>1, <2>3, <2>5 DEF Inv, TypeOK, ReadyListExact
    <2>11. QueuesExact'
      BY <2>1, <2>3, <2>6, <2>7 DEF Inv, TypeOK, QueuesExact, Inside
    <2>12. LevelMatchesCode'
      BY <2>1, <2>3 DEF Inv, TypeOK, LevelMatchesCode
    <2> QED
      BY <2>8, <2>9, <2>10, <2>11, <2>12 DEF Inv
  <1>6. ASSUME NEW s \in Sems, Schedule(s) PROVE Inv'
    BY <1>6 DEF Schedule, threadVars, Inv, TypeOK, ThreadStates, ReadyListExact,
                QueuesExact, LevelMatchesCode, Inside
  <1>7. CASE Finish
    <2>1. TypeOK' /\ ThreadStates'
      BY <1>7 DEF Finish, Running, Inv, TypeOK, Status, Location, ThreadStates
    <2>2. ReadyListExact' /\ QueuesExact'
      BY <1>7 DEF Finish, Running, Inv, TypeOK, ReadyListExact, QueuesExact, Inside
    <2>3. LevelMatchesCode'
      BY <1>7 DEF Finish, Running, Inv, TypeOK, LevelMatchesCode
    <2> QED
      BY <2>1, <2>2, <2>3 DEF Inv
  <1>8. CASE Yield
    <2> DEFINE h == Head(readyList)
               c == currentThread
               st == [status EXCEPT ![c] = "READY"]
    <2>1. /\ readyList # <<>> /\ Run(h, st)
          /\ status[c] = "RUNNING" /\ pc[c] = "run"
          /\ readyList' = Append(Tail(readyList), c)
          /\ pc' = [pc EXCEPT ![c] = "yield"]
          /\ level' = "IntOff"
          /\ UNCHANGED <<waitsFor, value, queue, mode, pending, halted>>
      BY <1>8 DEF Yield, Running
    <2>2. c \in Threads /\ st \in [Threads -> Status]
      BY DEF Inv, TypeOK, Status
    <2>3. /\ h \in Threads
          /\ status[h] = "READY"
          /\ currentThread' = h
          /\ status' \in [Threads -> Status]
          /\ status'[h] = "RUNNING"
          /\ threadToBeDestroyed' \in {threadToBeDestroyed, NULL}
          /\ threadToBeDestroyed # h
          /\ \A t \in Threads : t # h =>
               \/ status'[t] = st[t]
               \/ /\ status'[t] = "Deleted"
                  /\ t = threadToBeDestroyed
                  /\ threadToBeDestroyed' = NULL
          /\ threadToBeDestroyed' # NULL =>
               status'[threadToBeDestroyed] = st[threadToBeDestroyed]
          /\ Tail(readyList) \in Seq(Threads)
          /\ NoDuplicates(Tail(readyList))
          /\ \A u : In(u, Tail(readyList)) <=> In(u, readyList) /\ u # h
      BY <2>1, <2>2, RunFirstReady
    <2>4. /\ threadToBeDestroyed # NULL =>
               status[threadToBeDestroyed] = "BLOCKED" /\ pc[threadToBeDestroyed] = "done"
          /\ threadToBeDestroyed \in Threads \cup {NULL}
          /\ threadToBeDestroyed # c
          /\ pc[h] # "run" /\ pc[h] # "done"
          /\ h # c
          /\ ~In(c, readyList)
      <3>1. /\ threadToBeDestroyed # NULL =>
                 status[threadToBeDestroyed] = "BLOCKED" /\ pc[threadToBeDestroyed] = "done"
            /\ threadToBeDestroyed \in Threads \cup {NULL}
        BY DEF Inv, TypeOK, ThreadStates
      <3>2. pc[h] # "run" /\ pc[h] # "done"
        BY <2>3 DEF Inv, ThreadStates
      <3>3. ~In(c, readyList)
        BY <2>1, <2>2 DEF Inv, ReadyListExact
      <3>4. threadToBeDestroyed # c /\ h # c
        BY <2>1, <2>2, <2>3, <3>1
      <3> QED
        BY <3>1, <3>2, <3>3, <3>4
    <2>5. /\ readyList' \in Seq(Threads)
          /\ NoDuplicates(readyList')
          /\ \A u : In(u, readyList') <=> (In(u, readyList) /\ u # h) \/ u = c
      <3>1. ~In(c, Tail(readyList))
        BY <2>3, <2>4
      <3>2. NoDuplicates(Append(Tail(readyList), c))
        BY <3>1, <2>2, <2>3, NoDuplicatesAppend
      <3>3. \A u : In(u, Append(Tail(readyList), c)) <=> In(u, Tail(readyList)) \/ u = c
        BY <2>2, <2>3, InAppend
      <3>4. Append(Tail(readyList), c) \in Seq(Threads)
        BY <2>2, <2>3
      <3> HIDE DEF h, c, st
      <3> QED
        BY <3>2, <3>3, <3>4, <2>1, <2>3
    <2>6. /\ status'[c] = "READY"
          /\ \A t \in Threads : t # h /\ t # c =>
               \/ status'[t] = status[t]
               \/ /\ status'[t] = "Deleted"
                  /\ t = threadToBeDestroyed
                  /\ threadToBeDestroyed' = NULL
          /\ threadToBeDestroyed' # NULL =>
               status'[threadToBeDestroyed] = status[threadToBeDestroyed]
      BY <2>2, <2>3, <2>4 DEF Inv, TypeOK
    <2> HIDE DEF h, c, st
    <2>7. TypeOK'
      BY <2>1, <2>2, <2>3, <2>5 DEF Inv, TypeOK, Location
    <2>8. ThreadStates'
      BY <2>1, <2>2, <2>3, <2>4, <2>6 DEF Inv, TypeOK, ThreadStates, c
    <2>9. ReadyListExact'
      <3>1. \A t \in Threads : In(t, readyList) <=> status[t] = "READY"
        BY DEF Inv, ReadyListExact
      <3>2. \A t \in Threads : status'[t] = "READY" <=> (In(t, readyList) /\ t # h) \/ t = c
        BY <3>1, <2>3, <2>4, <2>6
      <3> QED
        BY <3>2, <2>5 DEF ReadyListExact
    <2>10. QueuesExact'
      <3>1. \A r \in Sems : Inside(r)' = Inside(r)
        BY <2>1, <2>2 DEF Inv, TypeOK, Inside
      <3>2. \A t \in Threads : (status'[t] = "BLOCKED" /\ pc[t] # "done") <=>
                               (status[t] = "BLOCKED" /\ pc[t] # "done")
        BY <2>1, <2>3, <2>4, <2>6
      <3>3. \A r \in Sems : \A t \in Inside(r) : pc[t] # "done"
        BY DEF Inside
      <3>4. queue' = queue
        BY <2>1
      <3> QED
        BY <3>1, <3>2, <3>3, <3>4 DEF Inv, QueuesExact
    <2>11. LevelMatchesCode'
      BY <2>1, <2>2, <2>3, <2>4 DEF Inv, TypeOK, LevelMatchesCode
    <2> QED
      BY <2>7, <2>8, <2>9, <2>10, <2>11 DEF Inv
  <1>9. CASE Dispatch
    <2> DEFINE h == Head(readyList)
    <2>1. /\ readyList # <<>> /\ Run(h, status)
          /\ status[currentThread] # "RUNNING"
          /\ readyList' = Tail(readyList)
          /\ mode' = "SystemMode"
          /\ UNCHANGED <<pc, waitsFor, value, queue, level, pending, halted>>
      BY <1>9 DEF Dispatch, Sleeping
    <2>2. status \in [Threads -> Status]
      BY DEF Inv, TypeOK
    <2>3. /\ h \in Threads
          /\ status[h] = "READY"
          /\ currentThread' = h
          /\ status' \in [Threads -> Status]
          /\ status'[h] = "RUNNING"
          /\ threadToBeDestroyed' \in {threadToBeDestroyed, NULL}
          /\ threadToBeDestroyed # h
          /\ \A t \in Threads : t # h =>
               \/ status'[t] = status[t]
               \/ /\ status'[t] = "Deleted"
                  /\ t = threadToBeDestroyed
                  /\ threadToBeDestroyed' = NULL
          /\ threadToBeDestroyed' # NULL =>
               status'[threadToBeDestroyed] = status[threadToBeDestroyed]
          /\ Tail(readyList) \in Seq(Threads)
          /\ NoDuplicates(Tail(readyList))
          /\ \A u : In(u, Tail(readyList)) <=> In(u, readyList) /\ u # h
      BY <2>1, <2>2, RunFirstReady
    <2>4. /\ threadToBeDestroyed # NULL =>
               status[threadToBeDestroyed] = "BLOCKED" /\ pc[threadToBeDestroyed] = "done"
          /\ threadToBeDestroyed \in Threads \cup {NULL}
          /\ pc[h] # "run" /\ pc[h] # "done"
          /\ level = "IntOff"
          /\ \A t \in Threads : status[t] # "RUNNING"
      BY <2>1, <2>3 DEF Inv, TypeOK, ThreadStates, LevelMatchesCode
    <2> HIDE DEF h
    <2>7. TypeOK'
      BY <2>1, <2>3 DEF Inv, TypeOK
    <2>8. ThreadStates'
      BY <2>1, <2>3, <2>4 DEF Inv, TypeOK, ThreadStates
    <2>9. ReadyListExact'
      BY <2>1, <2>3, <2>4 DEF Inv, TypeOK, ReadyListExact
    <2>10. QueuesExact'
      <3>1. \A r \in Sems : Inside(r)' = Inside(r)
        BY <2>1 DEF Inv, TypeOK, Inside
      <3>2. \A t \in Threads : (status'[t] = "BLOCKED" /\ pc[t] # "done") <=>
                               (status[t] = "BLOCKED" /\ pc[t] # "done")
        BY <2>3, <2>4
      <3>3. \A r \in Sems : \A t \in Inside(r) : pc[t] # "done"
        BY DEF Inside
      <3>4. queue' = queue
        BY <2>1
      <3> QED
        BY <3>1, <3>2, <3>3, <3>4 DEF Inv, QueuesExact
    <2>11. LevelMatchesCode'
      BY <2>1, <2>3, <2>4 DEF Inv, TypeOK, LevelMatchesCode
    <2> QED
      BY <2>7, <2>8, <2>9, <2>10, <2>11 DEF Inv
  <1>10. ASSUME NEW s \in Sems, DeviceInterrupt(s) \/ Idle(s) PROVE Inv'
    <2>1. pending \in [Sems -> Nat] /\ mode \in {"SystemMode", "IdleMode"}
      BY DEF Inv, TypeOK
    <2>2. pending' \in [Sems -> Nat]
      <3>1. pending[s] > 0 /\ pending' = [pending EXCEPT ![s] = pending[s] - 1]
        BY <1>10 DEF DeviceInterrupt, Idle
      <3>2. pending[s] \in Nat /\ pending[s] - 1 \in Nat
        BY <2>1, <3>1
      <3> QED
        BY <2>1, <3>1, <3>2
    <2>3. mode' \in {"SystemMode", "IdleMode"}
      BY <1>10, <2>1 DEF DeviceInterrupt, Idle
    <2> QED
      BY <1>10, <2>2, <2>3, VKeepsInv DEF DeviceInterrupt, Idle
  <1>11. CASE Halt
    BY <1>11 DEF Halt, threadVars, Inv, TypeOK, ThreadStates, ReadyListExact,
                 QueuesExact, LevelMatchesCode, Inside
  <1>12. CASE Resume
    <2>1. TypeOK' /\ ThreadStates'
      BY <1>12 DEF Resume, Inv, TypeOK, Location, ThreadStates
    <2>2. ReadyListExact' /\ QueuesExact'
      BY <1>12 DEF Resume, Inv, TypeOK, ReadyListExact, QueuesExact, Inside
    <2>3. LevelMatchesCode'
      BY <1>12 DEF Resume, Inv, TypeOK, LevelMatchesCode
    <2> QED
      BY <2>1, <2>2, <2>3 DEF Inv
  <1>13. CASE ResumeP
    <2>1. waitsFor[currentThread] \in Sems
      BY <1>13 DEF ResumeP, Inv, TypeOK, ThreadStates
    <2> QED
      BY <1>13, <2>1, WaitOnKeepsInv, TakeUnitKeepsInv DEF ResumeP
  <1>14. CASE UNCHANGED vars
    BY <1>14 DEF vars, Inv, TypeOK, ThreadStates, ReadyListExact, QueuesExact,
                 LevelMatchesCode, Inside
  <1> QED
    BY <1>1, <1>2, <1>3, <1>4, <1>5, <1>6, <1>7, <1>8, <1>9, <1>10, <1>11, <1>12,
       <1>13, <1>14 DEF Next, ThreadStep, MachineStep, Halted

(* Initialize establishes the inductive invariant.                         *)
LEMMA InitInv == Init => Inv
  <1> SUFFICES ASSUME Init PROVE Inv
    OBVIOUS
  <1> USE KernelAssumption DEF Init
  <1>1. TypeOK
    <2>1. queue \in [Sems -> Seq(Threads)] /\ readyList \in Seq(Threads)
      OBVIOUS
    <2>2. pending \in [Sems -> Nat] /\ value \in [Sems -> Nat]
      OBVIOUS
    <2> QED
      BY <2>1, <2>2 DEF TypeOK, Status, Location
  <1>2. ThreadStates /\ LevelMatchesCode
    BY DEF ThreadStates, LevelMatchesCode
  <1>3. ReadyListExact
    BY DEF ReadyListExact, NoDuplicates, In
  <1>4. QueuesExact
    BY DEF QueuesExact, NoDuplicates, In, Inside
  <1> QED
    BY <1>1, <1>2, <1>3, <1>4 DEF Inv

-----------------------------------------------------------------------------
(* Theorems                                                                *)

(* Whatever the threads do and whenever interrupts arrive, every thread is *)
(* exactly where its status says: on the CPU, once in the ready list, once *)
(* in the queue of the semaphore it waits for, or finished.                *)
THEOREM KernelInvariant == Spec => []Inv
  <1> QED
    BY InitInv, NextKeepsInv, PTL DEF Spec

(* The kernel's variables keep their types; a semaphore's value in         *)
(* particular is never negative (synch.h:52).                              *)
THEOREM KernelTypes == Spec => []TypeOK
  <1>1. Inv => TypeOK
    BY DEF Inv
  <1> QED
    BY <1>1, KernelInvariant, PTL

(* The scheduler's list holds each READY thread once and nothing else.     *)
THEOREM ReadyListIsExact == Spec => []ReadyListExact
  <1>1. Inv => ReadyListExact
    BY DEF Inv
  <1> QED
    BY <1>1, KernelInvariant, PTL

(* A semaphore's queue holds each thread asleep in its P once and nothing  *)
(* else.                                                                   *)
THEOREM QueuesAreExact == Spec => []QueuesExact
  <1>1. Inv => QueuesExact
    BY DEF Inv
  <1> QED
    BY <1>1, KernelInvariant, PTL

(* Thread code runs with interrupts enabled and Sleep with them disabled.  *)
THEOREM LevelAlwaysMatches == Spec => []LevelMatchesCode
  <1>1. Inv => LevelMatchesCode
    BY DEF Inv
  <1> QED
    BY <1>1, KernelInvariant, PTL

(* No pointer of the kernel leads to a Thread object after its delete.     *)
THEOREM NoThreadUsedAfterDelete == Spec => []NoUseAfterDelete
  <1>1. Inv => NoUseAfterDelete
    BY KernelAssumption
       DEF Inv, TypeOK, ThreadStates, ReadyListExact, QueuesExact, NoUseAfterDelete
  <1> QED
    BY <1>1, KernelInvariant, PTL

(* Scheduler::Run deletes only a thread that finished, and never the one   *)
(* that is running.                                                        *)
THEOREM OnlyFinishedDeleted == Spec => DeleteOnlyFinished
  <1> DEFINE A == \A t \in Threads :
                    status[t] # "Deleted" /\ status'[t] = "Deleted" =>
                      pc[t] = "done" /\ currentThread' # t
  <1>1. ASSUME Inv, [Next]_vars PROVE [A]_vars
    <2> SUFFICES ASSUME NEW t \in Threads, status[t] # "Deleted", status'[t] = "Deleted"
                 PROVE  pc[t] = "done" /\ currentThread' # t
      OBVIOUS
    <2> USE KernelAssumption
    <2>1. CASE Yield
      <3> DEFINE st == [status EXCEPT ![currentThread] = "READY"]
      <3>1. /\ readyList # <<>> /\ Run(Head(readyList), st)
            /\ st \in [Threads -> Status] /\ st[t] # "Deleted"
        BY <1>1, <2>1 DEF Yield, Inv, TypeOK, Status
      <3>2. t = threadToBeDestroyed /\ t # Head(readyList) /\ currentThread' = Head(readyList)
        BY <1>1, <3>1, RunFirstReady
      <3> QED
        BY <1>1, <3>2 DEF Inv, ThreadStates
    <2>2. CASE Dispatch
      <3>1. /\ readyList # <<>> /\ Run(Head(readyList), status)
            /\ status \in [Threads -> Status]
        BY <1>1, <2>2 DEF Dispatch, Inv, TypeOK
      <3>2. t = threadToBeDestroyed /\ t # Head(readyList) /\ currentThread' = Head(readyList)
        BY <1>1, <3>1, RunFirstReady
      <3> QED
        BY <1>1, <3>2 DEF Inv, ThreadStates
    <2>3. ASSUME NEW s \in Sems, V(s) PROVE FALSE
      BY <1>1, <2>3 DEF V, Inv, TypeOK
    <2>4. ASSUME NEW s, WaitOn(s) \/ TakeUnit(s) PROVE FALSE
      BY <1>1, <2>4 DEF WaitOn, TakeUnit, Inv, TypeOK
    <2>5. ASSUME NEW u \in Threads, NewThread(u) \/ Fork(u) PROVE FALSE
      BY <1>1, <2>5 DEF NewThread, Fork, Inv, TypeOK
    <2>6. ASSUME NEW s \in Sems, Destroy(s) \/ Schedule(s) PROVE FALSE
      BY <1>1, <2>6 DEF Destroy, Schedule, threadVars
    <2>7. ~Finish /\ ~Halt /\ ~Resume /\ ~UNCHANGED vars
      BY <1>1 DEF Finish, Halt, Resume, threadVars, vars, Inv, TypeOK
    <2> QED
      BY <1>1, <2>1, <2>2, <2>3, <2>4, <2>5, <2>6, <2>7
         DEF Next, ThreadStep, MachineStep, Halted, P, ThreadV, DeviceInterrupt, Idle, ResumeP
  <1> QED
    BY <1>1, KernelInvariant, PTL DEF Spec, DeleteOnlyFinished
=============================================================================
