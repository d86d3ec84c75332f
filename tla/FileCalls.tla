----------------------------- MODULE FileCalls ------------------------------
(***************************************************************************)
(* The system calls Create, Open, Read, Write and Close                    *)
(* (userprog/exception.cc) with the table of open files of each program    *)
(* (userprog/nachostabla.cc), which the threads it forks share.  Files are *)
(* the host's.  A call runs without losing the CPU, but Write waits for    *)
(* the semaphore Console, and P may give the CPU away before it returns    *)
(* (interrupts are enabled again).  Identifiers 0, 1 and 2 are the console *)
(* streams; programs do not close them here.                               *)
(***************************************************************************)
EXTENDS Integers, FiniteSetsExt

CONSTANTS
  Threads, Programs,
  programOf,     \* the program a thread belongs to
  TableSize,     \* MAX_FILES; the code has 128
  Files,         \* names of files
  HostLimit,     \* the host's descriptors are 0..HostLimit
  ClosedWrites,  \* BOOLEAN: programs may write to an identifier not open
  None

FileCallsAssumption ==
  /\ TableSize > 3 /\ HostLimit > 2
  /\ programOf \in [Threads -> Programs]
  /\ ClosedWrites \in BOOLEAN /\ None \notin Files

Handles == 0..(TableSize - 1)
Standard == 0..2
SC_Open == 5

VARIABLES
  openFiles,     \* NachosOpenFilesTable::openFiles, of each program
  openFilesMap,  \* the marked bits of each program's table
  host,          \* the host's descriptors: the file open there, or None
  exists,        \* the files that exist on the host
  console,       \* the value of the semaphore Console
  pc,            \* "run"; in Write: "P" before, "write" after Console->P();
                 \* "redo": back from a call with the PC not advanced
  id,            \* the identifier given to Write
  aborted

vars == <<openFiles, openFilesMap, host, exists, console, pc, id, aborted>>
fileVars == <<openFiles, openFilesMap, host, exists>>
writeVars == <<console, pc, id, aborted>>

(* The streams of the host process are open under the same numbers.        *)
Init ==
  /\ openFiles = [p \in Programs |-> [h \in Handles |-> IF h \in Standard THEN h ELSE 0]]
  /\ openFilesMap = [p \in Programs |-> Standard]
  /\ host = [d \in 0..HostLimit |-> IF d \in Standard THEN "stream" ELSE None]
  /\ exists \in SUBSET Files
  /\ console = 1
  /\ pc = [t \in Threads |-> "run"]
  /\ id = [t \in Threads |-> 0]
  /\ aborted = FALSE

FreeDescriptors == { d \in DOMAIN host : host[d] = None }

isOpened(p, h) == h \in openFilesMap[p]

getUnixHandle(p, h) == IF isOpened(p, h) THEN openFiles[p][h] ELSE -1

(* Nachos_Create: creat makes the file and a descriptor, closed at once;   *)
(* without a free descriptor it fails and close(-1) does nothing.          *)
Create(t, f) ==
  /\ pc[t] = "run" /\ ~aborted
  /\ exists' = IF FreeDescriptors = {} THEN exists ELSE exists \cup {f}
  /\ UNCHANGED <<openFiles, openFilesMap, host, writeVars>>

(* What Open leaves in r2.  A failed call does not touch the register,     *)
(* which still holds the number of the system call.                        *)
OpenResult(t, f) ==
  IF f \notin exists \/ FreeDescriptors = {} \/ openFilesMap[programOf[t]] = Handles
  THEN SC_Open
  ELSE Min(Handles \ openFilesMap[programOf[t]])


(* Nachos_Open: the host opens first.  With the table full its descriptor  *)
(* stays open with nothing leading to it.                                  *)
Open(t, f) ==
  /\ pc[t] = "run" /\ ~aborted
  /\ LET p == programOf[t]
         d == Min(FreeDescriptors)
         h == OpenResult(t, f)
     IN  IF f \notin exists \/ FreeDescriptors = {}
         THEN UNCHANGED <<openFiles, openFilesMap, host>>
         ELSE /\ host' = [host EXCEPT ![d] = f]
              /\ IF openFilesMap[p] = Handles
                 THEN UNCHANGED <<openFiles, openFilesMap>>
                 ELSE /\ openFiles' = [openFiles EXCEPT ![p][h] = d]
                      /\ openFilesMap' = [openFilesMap EXCEPT ![p] = @ \cup {h}]
  /\ UNCHANGED <<exists, writeVars>>

(* Nachos_Read, of an open identifier or not, changes none of this state.  *)
Read(t, h) == pc[t] = "run" /\ ~aborted /\ UNCHANGED vars

(* Nachos_Close: the descriptor is looked up, the table's entry is freed,  *)
(* then the host's descriptor is closed; close(-1) does nothing.           *)
Close(t, h) ==
  /\ pc[t] = "run" /\ ~aborted
  /\ h \notin Standard
  /\ LET p == programOf[t]
         d == getUnixHandle(p, h)
     IN  /\ openFilesMap' = [openFilesMap EXCEPT ![p] = @ \ {h}]
         /\ openFiles' = [openFiles EXCEPT ![p][h] = 0]
         /\ host' = IF d = -1 THEN host ELSE [host EXCEPT ![d] = None]
  /\ UNCHANGED <<exists, writeVars>>

(* Nachos_Write up to Console->P(): the text is copied from user memory.   *)
Write(t, h) ==
  /\ pc[t] = "run" /\ ~aborted
  /\ h \in Standard \/ ClosedWrites \/ isOpened(programOf[t], h)
  /\ pc' = [pc EXCEPT ![t] = "P"]
  /\ id' = [id EXCEPT ![t] = h]
  /\ UNCHANGED <<fileVars, console, aborted>>

WriteP(t) ==
  /\ pc[t] = "P" /\ ~aborted
  /\ console > 0
  /\ console' = console - 1
  /\ pc' = [pc EXCEPT ![t] = "write"]
  /\ UNCHANGED <<fileVars, id, aborted>>

(* The rest of Nachos_Write.  When the identifier is not open it returns   *)
(* with the semaphore taken and the program counter where it was.          *)
WriteBody(t) ==
  /\ pc[t] = "write" /\ ~aborted
  /\ IF id[t] \in Standard \/ isOpened(programOf[t], id[t])
     THEN /\ console' = console + 1
          /\ pc' = [pc EXCEPT ![t] = "run"]
     ELSE /\ pc' = [pc EXCEPT ![t] = "redo"]
          /\ UNCHANGED console
  /\ id' = [id EXCEPT ![t] = 0]
  /\ UNCHANGED <<fileVars, aborted>>

(* The syscall instruction is executed again, now with r2 = -1, for which  *)
(* ExceptionHandler has no case: it ends in ASSERT(false).                 *)
Redo(t) ==
  /\ pc[t] = "redo" /\ ~aborted
  /\ aborted' = TRUE
  /\ UNCHANGED <<fileVars, console, pc, id>>

Next ==
  \E t \in Threads :
    \/ \E f \in Files : Create(t, f) \/ Open(t, f)
    \/ \E h \in Handles : Read(t, h) \/ Close(t, h) \/ Write(t, h)
    \/ WriteP(t) \/ WriteBody(t) \/ Redo(t)

Spec == Init /\ [][Next]_vars

-----------------------------------------------------------------------------
(* Types; the descriptors of distinct identifiers are distinct and open.   *)
TypeOK ==
  /\ openFiles \in [Programs -> [Handles -> DOMAIN host]]
  /\ openFilesMap \in [Programs -> SUBSET Handles]
  /\ host \in [0..HostLimit -> Files \cup {"stream", None}]
  /\ console \in 0..1
  /\ pc \in [Threads -> {"run", "P", "write", "redo"}]

(* One thread at a time is between P and V of the semaphore Console, and   *)
(* the semaphore is free when there is none: no path of Write that goes on *)
(* loses it.                                                               *)
ConsoleExact ==
  LET inside == { t \in Threads : pc[t] \in {"write", "redo"} }
  IN  Cardinality(inside) + console = 1

(* The table implements the abstract one: an identifier denotes the file   *)
(* it was opened for, whatever descriptors the host reuses and whoever     *)
(* else opens and closes (exception.cc:90-122, 281-294).                   *)
Denotes(p, h) == IF isOpened(p, h) THEN host[openFiles[p][h]] ELSE None

Opened == [p \in Programs |-> [h \in Handles |-> Denotes(p, h)]]

Abstract == INSTANCE OpenFiles WITH opened <- Opened, Files <- Files \cup {"stream"}

=============================================================================
