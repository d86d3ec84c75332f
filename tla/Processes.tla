------------------------------ MODULE Processes ------------------------------
(***************************************************************************)
(* User programs as processes (userprog/exception.cc): Exec, Join, Exit,   *)
(* Fork and Halt, with the table execFiles of the programs started.        *)
(*                                                                         *)
(* A handler runs without losing the CPU except in P (Join) and in Run     *)
(* (Exit), so it is one action up to such a point.  Only under the option  *)
(* -p (threads/preemptive.cc) can the CPU also be taken away inside Join,  *)
(* between the test of the identifier and its use; Preemptive says so.     *)
(* Thread objects are named by their address, which is what the table      *)
(* stores; the address of a deleted thread may be used again.  The         *)
(* semaphore a Join allocates is named by the thread that is inside it.    *)
(***************************************************************************)
EXTENDS Integers, FiniteSetsExt

CONSTANTS
  Threads,      \* addresses of Thread objects
  Main,         \* the thread that runs StartProcess; not in the table
  Callers,      \* the threads whose programs call Exec, Join and Fork
  TableSize,    \* entries of execFiles; the code has 128
  MaxPrograms,  \* bound on the number of successful calls of Exec
  Statuses,     \* the values programs exit with
  Executables,  \* whether the file named in an Exec can be opened: a set of BOOLEANs
  Preemptive,
  NULL

ProcessesAssumption ==
  /\ Main \in Threads /\ Callers \subseteq Threads /\ NULL \notin Threads
  /\ TableSize \in Nat /\ MaxPrograms \in Nat
  /\ Statuses \subseteq Int /\ Executables \subseteq BOOLEAN
  /\ Preemptive \in BOOLEAN

Slots == 0..(TableSize - 1)
Programs == 1..MaxPrograms

VARIABLES
  pc,            \* where each thread is
  execFilesMap,  \* the slots marked as used
  execFiles,     \* the entries (joinS): threadId, s; NULL when not allocated
  joining,       \* the id each thread passed to Join
  joinSem,       \* value of the semaphore of each thread's Join
  r2,            \* the result of its last call
  mode,          \* "up", "halted" by Halt, "idle" (nothing left to run), "aborted"
  freedUsed,     \* an entry was used after its delete
  program,       \* (history) which program a thread runs the main routine of
  wanted,        \* (history) the program a Join waits for
  exited         \* (history) the status each program ended with

vars == <<pc, execFilesMap, execFiles, joining, joinSem, r2, mode, freedUsed,
          program, wanted, exited>>
historyVars == <<program, wanted, exited>>

\* "none": no such object.  "start": forked by Exec, before NachosExecThread.
\* "run": user code.  "redo": back in user code at the same syscall
\* instruction.  "join": inside Join after the test; "wait": at its P.
\* "gone": switched away from in Exit, for ever.  "finished": in Finish.
Location == {"none", "start", "run", "redo", "join", "wait", "gone", "finished"}

Entry == [threadId : Threads, s : Threads \cup {NULL}, runs : Programs]

Init ==
  /\ pc = [t \in Threads |-> IF t = Main THEN "run" ELSE "none"]
  /\ execFilesMap = {}
  /\ execFiles = [i \in Slots |-> NULL]
  /\ joining = [t \in Threads |-> 0]
  /\ joinSem = [t \in Threads |-> 0]
  /\ r2 = [t \in Threads |-> 0]
  /\ mode = "up"
  /\ freedUsed = FALSE
  /\ program = [t \in Threads |-> 0]
  /\ wanted = [t \in Threads |-> 0]
  /\ exited = [p \in Programs |-> NULL]

Used == { p \in Programs : \/ exited[p] # NULL
                           \/ \E t \in Threads : program[t] = p }

At(t, from) == mode = "up" /\ pc[t] = from

Runnable(t) == \/ pc[t] \in {"start", "run", "redo", "join"}
               \/ pc[t] = "wait" /\ joinSem[t] > 0

-----------------------------------------------------------------------------
(* Nachos_Exec with room in the table: a new thread u and its entry.       *)

Exec(t, u) ==
  LET i == Min(Slots \ execFilesMap)
      p == Min(Programs \ Used)
  IN  /\ At(t, "run") /\ t \in Callers /\ pc[u] = "none"
      /\ Slots # execFilesMap /\ Programs # Used
      /\ execFilesMap' = execFilesMap \cup {i}
      /\ execFiles' = [execFiles EXCEPT ![i] = [threadId |-> u, s |-> NULL, runs |-> p]]
      /\ pc' = [pc EXCEPT ![u] = "start"]
      /\ r2' = [r2 EXCEPT ![t] = i]
      /\ program' = [program EXCEPT ![u] = p]
      /\ UNCHANGED <<joining, joinSem, mode, freedUsed, wanted, exited>>

(* Nachos_Exec with a full table: the new thread object is lost, and the   *)
(* call returns without returnFromSystemCall.                              *)
ExecFull(t, u) ==
  /\ At(t, "run") /\ t \in Callers /\ pc[u] = "none"
  /\ Slots = execFilesMap
  /\ pc' = [pc EXCEPT ![t] = "redo", ![u] = "gone"]
  /\ r2' = [r2 EXCEPT ![t] = -1]
  /\ UNCHANGED <<execFilesMap, execFiles, joining, joinSem, mode, freedUsed, historyVars>>

(* The syscall instruction is executed again.  The number of the call is   *)
(* in r2, which now holds -1: ExceptionHandler aborts.                     *)
Redo(t) ==
  /\ At(t, "redo")
  /\ mode' = "aborted"
  /\ UNCHANGED <<pc, execFilesMap, execFiles, joining, joinSem, r2, freedUsed, historyVars>>

(* NachosExecThread.  When the file cannot be opened it returns, and       *)
(* ThreadRoot calls Finish, after which the object is deleted.             *)
Start(t) ==
  /\ At(t, "start") /\ TRUE \in Executables
  /\ pc' = [pc EXCEPT ![t] = "run"]
  /\ UNCHANGED <<execFilesMap, execFiles, joining, joinSem, r2, mode, freedUsed, historyVars>>

StartFails(t) ==
  /\ At(t, "start") /\ FALSE \in Executables
  /\ pc' = [pc EXCEPT ![t] = "none"]
  /\ program' = [program EXCEPT ![t] = 0]
  /\ exited' = [exited EXCEPT ![program[t]] = "failed"]
  /\ UNCHANGED <<execFilesMap, execFiles, joining, joinSem, r2, mode, freedUsed, wanted>>

(* Nachos_Fork: a thread of the same program, not in the table.            *)
Fork(t, u) ==
  /\ At(t, "run") /\ t \in Callers /\ pc[u] = "none"
  /\ pc' = [pc EXCEPT ![u] = "run"]
  /\ UNCHANGED <<execFilesMap, execFiles, joining, joinSem, r2, mode, freedUsed, historyVars>>

-----------------------------------------------------------------------------
(* Nachos_Join.                                                            *)
JoinInvalid(t, i) ==
  /\ At(t, "run") /\ t \in Callers
  /\ i \notin execFilesMap
  /\ r2' = [r2 EXCEPT ![t] = -1]
  /\ UNCHANGED <<pc, execFilesMap, execFiles, joining, joinSem, mode, freedUsed, historyVars>>

(* execFiles[id]->s = joinSem, with joinSem a new semaphore of value 0.    *)
SetJoinSem(t, i) ==
  /\ joinSem' = [joinSem EXCEPT ![t] = 0]
  /\ IF execFiles[i] = NULL
     THEN freedUsed' = TRUE /\ UNCHANGED execFiles
     ELSE execFiles' = [execFiles EXCEPT ![i].s = t] /\ UNCHANGED freedUsed

JoinTest(t, i) ==
  /\ At(t, "run") /\ t \in Callers
  /\ i \in execFilesMap
  /\ joining' = [joining EXCEPT ![t] = i]
  /\ wanted' = [wanted EXCEPT ![t] = execFiles[i].runs]
  /\ IF Preemptive
     THEN /\ pc' = [pc EXCEPT ![t] = "join"]
          /\ UNCHANGED <<joinSem, execFiles, freedUsed>>
     ELSE /\ pc' = [pc EXCEPT ![t] = "wait"]
          /\ SetJoinSem(t, i)
  /\ UNCHANGED <<execFilesMap, r2, mode, program, exited>>

JoinSet(t) ==
  /\ At(t, "join")
  /\ pc' = [pc EXCEPT ![t] = "wait"]
  /\ SetJoinSem(t, joining[t])
  /\ UNCHANGED <<execFilesMap, joining, r2, mode, historyVars>>

(* After P: the entry is deleted and its slot cleared.                     *)
JoinWake(t) ==
  /\ At(t, "wait") /\ joinSem[t] > 0
  /\ joinSem' = [joinSem EXCEPT ![t] = @ - 1]
  /\ freedUsed' = (freedUsed \/ execFiles[joining[t]] = NULL)
  /\ execFiles' = [execFiles EXCEPT ![joining[t]] = NULL]
  /\ execFilesMap' = execFilesMap \ {joining[t]}
  /\ r2' = [r2 EXCEPT ![t] = 0]
  /\ pc' = [pc EXCEPT ![t] = "run"]
  /\ UNCHANGED <<joining, mode, historyVars>>

-----------------------------------------------------------------------------
(* Nachos_Exit: every entry of the table with this thread's address.  If   *)
(* another thread can run it is switched to, with this one in no list and  *)
(* never to run again; otherwise this one calls Finish.                    *)
Entries(t) ==
  { i \in execFilesMap : execFiles[i] # NULL /\ execFiles[i].threadId = t }
Joined(t) == { i \in Entries(t) : execFiles[i].s # NULL }

(* The end of Exit, after the joiners' V.                                  *)
LeaveCPU(t, status) ==
  /\ pc' = [pc EXCEPT ![t] =
       IF \E u \in Threads \ {t} : Runnable(u) \/ joinSem'[u] > joinSem[u]
       THEN "gone" ELSE "finished"]
  /\ exited' = IF program[t] = 0 THEN exited ELSE [exited EXCEPT ![program[t]] = status]
  /\ program' = [program EXCEPT ![t] = 0]
  /\ UNCHANGED <<joining, r2, mode, wanted>>

(* Mutant: the entry of a joined program is deleted by Exit as well.       *)
ExitDeletesAll(t, status) ==
  /\ At(t, "run")
  /\ joinSem' = [u \in Threads |->
       joinSem[u] + Cardinality({ i \in Joined(t) : execFiles[i].s = u })]
  /\ execFiles' = [i \in Slots |-> IF i \in Entries(t) THEN NULL ELSE execFiles[i]]
  /\ execFilesMap' = execFilesMap \ (Entries(t) \ Joined(t))
  /\ UNCHANGED freedUsed
  /\ LeaveCPU(t, status)

(* Mutant: every joiner of the table is woken.                             *)
ExitWakesAll(t, status) ==
  /\ At(t, "run")
  /\ joinSem' = [u \in Threads |->
       IF \E i \in execFilesMap : execFiles[i].s = u THEN 1 ELSE joinSem[u]]
  /\ UNCHANGED <<execFiles, execFilesMap, freedUsed>>
  /\ LeaveCPU(t, status)

(* Mutant: Exit does not wake the joiner.                                  *)
ExitSilent(t, status) ==
  /\ At(t, "run")
  /\ execFiles' = [i \in Slots |->
       IF i \in Entries(t) \ Joined(t) THEN NULL ELSE execFiles[i]]
  /\ execFilesMap' = execFilesMap \ (Entries(t) \ Joined(t))
  /\ UNCHANGED <<joinSem, freedUsed>>
  /\ LeaveCPU(t, status)

Exit(t, status) ==
  /\ At(t, "run")
  /\ joinSem' = [u \in Threads |->
       joinSem[u] + Cardinality({ i \in Joined(t) : execFiles[i].s = u })]
  /\ execFiles' = [i \in Slots |->
       IF i \in Entries(t) \ Joined(t) THEN NULL ELSE execFiles[i]]
  /\ execFilesMap' = execFilesMap \ (Entries(t) \ Joined(t))
  /\ freedUsed' = (freedUsed \/ \E i \in execFilesMap : execFiles[i] = NULL)
  /\ LeaveCPU(t, status)

(* Nachos_Halt                                                             *)
Halt(t) ==
  /\ At(t, "run")
  /\ mode' = "halted"
  /\ UNCHANGED <<pc, execFilesMap, execFiles, joining, joinSem, r2, freedUsed, historyVars>>

(* Nobody is ready: Interrupt::Idle stops the machine, there being no      *)
(* interrupt but the timer's.                                              *)
Idle ==
  /\ mode = "up"
  /\ \A t \in Threads : ~Runnable(t)
  /\ mode' = "idle"
  /\ UNCHANGED <<pc, execFilesMap, execFiles, joining, joinSem, r2, freedUsed, historyVars>>

Stopped == mode # "up" /\ UNCHANGED vars

Resume(t) == Start(t) \/ StartFails(t) \/ JoinSet(t) \/ JoinWake(t) \/ Redo(t)

Next ==
  \/ \E t, u \in Threads : Exec(t, u) \/ ExecFull(t, u) \/ Fork(t, u)
  \/ \E t \in Threads, i \in Slots : JoinInvalid(t, i) \/ JoinTest(t, i)
  \/ \E t \in Threads, status \in Statuses : Exit(t, status)
  \/ \E t \in Threads : Resume(t) \/ Halt(t)
  \/ Idle
  \/ Stopped

Spec == Init /\ [][Next]_vars

(* A thread the kernel has made ready gets the CPU (Kernel's ReadyRuns),   *)
(* and the machine notices that nothing is left to do.                     *)
FairSpec == Spec /\ WF_vars(Idle) /\ \A t \in Threads : WF_vars(Resume(t))

-----------------------------------------------------------------------------
TypeOK ==
  /\ pc \in [Threads -> Location]
  /\ execFilesMap \subseteq Slots
  /\ execFiles \in [Slots -> Entry \cup {NULL}]
  /\ joining \in [Threads -> Slots]
  /\ joinSem \in [Threads -> {0, 1}]
  /\ mode \in {"up", "halted", "idle", "aborted"}

(* A slot is marked exactly while its entry is allocated, and nobody has   *)
(* used an entry after its delete: Exit frees it when there is no joiner,  *)
(* the woken joiner otherwise, and never both (exception.cc:458-471,       *)
(* 558-566).                                                               *)
NoFreedEntryUsed ==
  /\ ~freedUsed
  /\ \A i \in Slots : i \in execFilesMap <=> execFiles[i] # NULL

(* A program that runs has one entry of its own in the table, so that its  *)
(* Exit finds those who wait for it, whatever slots and addresses were     *)
(* used before.                                                            *)
RunningProgramListed ==
  \A t \in Threads :
    program[t] # 0 =>
      Cardinality({ i \in execFilesMap : /\ execFiles[i] # NULL
                                         /\ execFiles[i].threadId = t
                                         /\ execFiles[i].runs = program[t] }) = 1

Returns(t) == pc[t] = "wait" /\ pc'[t] = "run"

(* Join does not return before the program it was called for has ended     *)
(* (syscall.h:66), as long as no entry was used after its delete.          *)
JoinsEnded == \A t \in Threads : Returns(t) /\ ~freedUsed => exited[wanted[t]] # NULL

JoinOnlyAfterEnd == [][JoinsEnded]_vars

WaitsForEnded(t) == pc[t] = "wait" /\ wanted[t] # 0 /\ exited[wanted[t]] # NULL

(* Join returns once the program has ended, unless the machine is halted   *)
(* (syscall.h:66-67).                                                      *)
JoinReturns ==
  \A t \in Threads : WaitsForEnded(t) ~> (pc[t] # "wait" \/ mode = "halted")
=============================================================================
