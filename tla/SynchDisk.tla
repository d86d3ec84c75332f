----------------------------- MODULE SynchDisk ------------------------------
(***************************************************************************)
(* The synchronous disk (filesys/synchdisk.cc) on the simulated disk       *)
(* (machine/disk.cc).  The disk transfers the data when it is given the    *)
(* request and raises an interrupt later, at a time computed by            *)
(* DiskTiming; here it comes at any later moment.  The lock is a           *)
(* MesaMonitor without conditions, the semaphore counts.                   *)
(***************************************************************************)
EXTENDS MesaMonitor

CONSTANTS Sectors, Data

SynchDiskAssumption == Conds = {}

VARIABLES
  sectors,    \* the file that simulates the disk
  active,     \* Disk::active
  semaphore,  \* SynchDisk::semaphore
  pc,         \* "idle"; "lock", "request", "P", "release" inside a call
  args        \* sector, data, writing: the arguments of the call

vars == <<monitorVars, sectors, active, semaphore, pc, args>>

NoArgs == [sector |-> 0, data |-> 0, writing |-> FALSE]

Init ==
  /\ MonitorInit
  /\ sectors \in [Sectors -> Data]
  /\ active = FALSE
  /\ semaphore = 0
  /\ pc = [t \in Threads |-> "idle"]
  /\ args = [t \in Threads |-> NoArgs]

Goto(t, from, to) == pc[t] = from /\ pc' = [pc EXCEPT ![t] = to]

(* ReadSector and WriteSector: a call begins.                              *)
Begin(t, s, d, writing) ==
  /\ Goto(t, "idle", "lock")
  /\ args' = [args EXCEPT ![t] = [sector |-> s, data |-> d, writing |-> writing]]
  /\ UNCHANGED <<monitorVars, sectors, active, semaphore>>

(* Mutant: the lock is not taken.                                          *)
LockAcquireNot(t) ==
  /\ Goto(t, "lock", "request")
  /\ UNCHANGED <<monitorVars, sectors, active, semaphore, args>>

LockAcquire(t) ==
  /\ Goto(t, "lock", "request")
  /\ Acquire(t)
  /\ UNCHANGED <<sectors, active, semaphore, args>>

(* Disk::ReadRequest and WriteRequest; their assertion is OneRequest.      *)
DiskRequest(t) ==
  LET s == args[t].sector
  IN  /\ Goto(t, "request", "P")
      /\ active' = TRUE
      /\ IF args[t].writing
         THEN sectors' = [sectors EXCEPT ![s] = args[t].data] /\ UNCHANGED args
         ELSE args' = [args EXCEPT ![t].data = sectors[s]] /\ UNCHANGED sectors
      /\ UNCHANGED <<monitorVars, semaphore>>

(* Disk::HandleInterrupt, which calls SynchDisk::RequestDone.              *)
RequestDone ==
  /\ active
  /\ active' = FALSE
  /\ semaphore' = semaphore + 1
  /\ UNCHANGED <<monitorVars, sectors, pc, args>>

SemaphoreP(t) ==
  /\ Goto(t, "P", "release")
  /\ semaphore > 0
  /\ semaphore' = semaphore - 1
  /\ UNCHANGED <<monitorVars, sectors, active, args>>

LockRelease(t) ==
  /\ Goto(t, "release", "idle")
  /\ Release(t)
  /\ args' = [args EXCEPT ![t] = NoArgs]
  /\ UNCHANGED <<sectors, active, semaphore>>

Next ==
  \/ RequestDone
  \/ \E t \in Threads :
       \/ LockAcquire(t) \/ DiskRequest(t) \/ SemaphoreP(t) \/ LockRelease(t)
       \/ \E s \in Sectors, d \in Data, writing \in BOOLEAN : Begin(t, s, d, writing)

Spec == Init /\ [][Next]_vars

-----------------------------------------------------------------------------
(* The disk is given one request at a time (disk.cc:120, 140), its         *)
(* interrupt wakes the thread that made the request, and no unit is left   *)
(* over for a later one to return too early.                               *)
OneRequest ==
  /\ \A t \in Threads : pc[t] = "request" => ~active /\ semaphore = 0
  /\ semaphore + (IF active THEN 1 ELSE 0) <= 1
  /\ active \/ semaphore > 0 => \E t \in Threads : pc[t] = "P" /\ holder = t

(* A call reads or writes its sector in one step, on behalf of one thread; *)
(* callers see an atomic disk.                                             *)
Phase(t) == CASE pc[t] = "idle"               -> "none"
              [] pc[t] \in {"lock", "request"} -> "begun"
              [] OTHER                         -> "done"

Atomic == INSTANCE AtomicDisk WITH
  call <- [t \in Threads |->
             IF pc[t] = "idle" THEN [phase |-> "none"]
             ELSE [phase |-> Phase(t), sector |-> args[t].sector,
                   data |-> args[t].data, writing |-> args[t].writing]]

ImplementsAtomicDisk == Atomic!Spec
=============================================================================
