----------------------------- MODULE MCPrograms -----------------------------
(***************************************************************************)
(* The system calls of userprog/: programs, their semaphores, their files. *)
(* The components are explored side by side in one run; the variable part  *)
(* says which of them, in which instance, a behaviour is about.            *)
(***************************************************************************)
EXTENDS Integers, Sequences

CONSTANT NULL

VARIABLES
  part,   \* the component a behaviour is about
  pc, execFilesMap, execFiles, joining, joinSem, r2, mode, freedUsed,
  program, wanted, exited, semaphores, openSemsMap, allocated, value, queue,
  on, openFiles, openFilesMap, host, exists, console, id, aborted

vars == <<part,
          pc, execFilesMap, execFiles, joining, joinSem, r2, mode,
          freedUsed, program, wanted, exited, semaphores, openSemsMap,
          allocated, value, queue, on, openFiles, openFilesMap, host,
          exists, console, id, aborted>>

\* Three programs and a table of two entries; any thread may call, files may be missing.
Any == INSTANCE Processes WITH
  Threads <- 1..3, Main <- 1, Callers <- 1..3, TableSize <- 2,
  MaxPrograms <- 3, Statuses <- {0}, Executables <- BOOLEAN,
  Preemptive <- FALSE

\* One program starts the others and waits for them.
Parent == INSTANCE Processes WITH
  Threads <- 1..4, Main <- 1, Callers <- {1}, TableSize <- 2,
  MaxPrograms <- 3, Statuses <- {0}, Executables <- {TRUE},
  Preemptive <- FALSE

\* The CPU may be taken away inside Join.
Race == INSTANCE Processes WITH
  Threads <- 1..3, Main <- 1, Callers <- 1..3, TableSize <- 2,
  MaxPrograms <- 2, Statuses <- {0}, Executables <- BOOLEAN,
  Preemptive <- TRUE

\* Two identifiers for three semaphores.
Sems == INSTANCE UserSemaphores WITH
  Threads <- 1..3, TableSize <- 2, Objects <- 1..3, InitValues <- {0, 1},
  MaxValue <- 1

\* Two threads of one program and one of another; each table has one free entry.
Calls == INSTANCE FileCalls WITH
  Threads <- 1..3, Programs <- {1, 2}, programOf <- <<1, 1, 2>>,
  TableSize <- 4, Files <- {"a", "b"}, HostLimit <- 4, ClosedWrites <- TRUE,
  None <- "none"

ASSUME
  /\ Any!ProcessesAssumption /\ Parent!ProcessesAssumption /\ Race!ProcessesAssumption
  /\ Sems!UserSemaphoresAssumption /\ Calls!FileCallsAssumption

-----------------------------------------------------------------------------
(* A component that is not the one of the behaviour has no state.          *)
Init ==
  \/ /\ \/ part = "processes" /\ Any!Init
        \/ part = "parent" /\ Parent!Init
        \/ part = "race" /\ Race!Init
     /\ semaphores = 0 /\ openSemsMap = 0 /\ allocated = 0 /\ value = 0
     /\ queue = 0 /\ on = 0 /\ openFiles = 0 /\ openFilesMap = 0 /\ host = 0
     /\ exists = 0 /\ console = 0 /\ id = 0 /\ aborted = 0
  \/ /\ part = "semaphores" /\ Sems!Init
     /\ execFilesMap = 0 /\ execFiles = 0 /\ joining = 0 /\ joinSem = 0
     /\ r2 = 0 /\ mode = 0 /\ freedUsed = 0 /\ program = 0 /\ wanted = 0
     /\ exited = 0 /\ openFiles = 0 /\ openFilesMap = 0 /\ host = 0
     /\ exists = 0 /\ console = 0 /\ id = 0 /\ aborted = 0
  \/ /\ part = "files" /\ Calls!Init
     /\ execFilesMap = 0 /\ execFiles = 0 /\ joining = 0 /\ joinSem = 0
     /\ r2 = 0 /\ mode = 0 /\ freedUsed = 0 /\ program = 0 /\ wanted = 0
     /\ exited = 0 /\ semaphores = 0 /\ openSemsMap = 0 /\ allocated = 0
     /\ value = 0 /\ queue = 0 /\ on = 0

(* Threads may all wait on user semaphores, and a failed assertion of the  *)
(* file calls ends the machine.                                            *)
Stopped == part \in {"semaphores", "files"} /\ UNCHANGED vars

Next ==
  \/ /\ \/ part = "processes" /\ Any!Next
        \/ part = "parent" /\ Parent!Next
        \/ part = "race" /\ Race!Next
     /\ UNCHANGED <<part,
                    semaphores, openSemsMap, allocated, value, queue, on,
                    openFiles, openFilesMap, host, exists, console, id,
                    aborted>>
  \/ /\ part = "semaphores" /\ Sems!Next
     /\ UNCHANGED <<part,
                    execFilesMap, execFiles, joining, joinSem, r2, mode,
                    freedUsed, program, wanted, exited, openFiles,
                    openFilesMap, host, exists, console, id, aborted>>
  \/ /\ part = "files" /\ Calls!Next
     /\ UNCHANGED <<part,
                    execFilesMap, execFiles, joining, joinSem, r2, mode,
                    freedUsed, program, wanted, exited, semaphores,
                    openSemsMap, allocated, value, queue, on>>
  \/ Stopped

Spec ==
  /\ Init /\ [][Next]_vars
  /\ WF_(Parent!vars)(part = "parent" /\ Parent!Idle)
  /\ \A t \in 1..4 : WF_(Parent!vars)(part = "parent" /\ Parent!Resume(t))

-----------------------------------------------------------------------------
(* The table execFiles: nobody uses an entry after its delete, which Exit  *)
(* does when there is no joiner and the woken joiner otherwise, and a      *)
(* running program has one entry of its own (exception.cc:458-471,         *)
(* 558-566).                                                               *)
NoFreedEntryUsed ==
  /\ part = "processes" => Any!TypeOK /\ Any!NoFreedEntryUsed /\ Any!RunningProgramListed
  /\ part = "parent" => Parent!NoFreedEntryUsed /\ Parent!RunningProgramListed

(* Join does not return before the program it was called for has ended     *)
(* (syscall.h:66), wherever inside Join the CPU is taken away, as long as  *)
(* no entry was used after its delete.                                     *)
JoinOnlyAfterEnd ==
  [][/\ part = "processes" => Any!JoinsEnded
     /\ part = "race" => Race!JoinsEnded]_vars

(* Join returns once the program has ended, unless the machine is halted,  *)
(* when one program alone waits for the others (exception.cc:553-574).     *)
JoinReturns ==
  \A t \in 1..4 :
    (part = "parent" /\ Parent!WaitsForEnded(t))
      ~> (part = "parent" /\ (pc[t] # "wait" \/ mode = "halted"))

(* A destroyed semaphore gets no unit any more, and no identifier: a       *)
(* SemSignal meant for a new semaphore cannot reach it, though the table   *)
(* reuses identifiers.                                                     *)
DestroyedIsDead == [][part = "semaphores" => Sems!DeadStaysDead]_vars

(* What programs share in the kernel: of user semaphores, the bit map and  *)
(* the array agree, and while threads sleep every unit has a woken thread  *)
(* on its way to it (NachosSems.cc:31-54); of the console, one thread at a *)
(* time is between P and V of its semaphore, and no path of Write that     *)
(* goes on loses it (exception.cc:160-240).                                *)
SharedExact ==
  /\ part = "semaphores" =>
       Sems!TypeOK /\ Sems!IdentifiersExact /\ Sems!NoSleeperBesideUnit
  /\ part = "files" => Calls!TypeOK /\ Calls!ConsoleExact

=============================================================================
