\* A finished thread is reclaimed by Scheduler::Run: violated.
SPECIFICATION Spec
CONSTANTS
  Threads = {main, t1, t2}
  Main = main
  Sems = {s1}
  InitialValue <- NoUnits
  MaxUnits = 2
  NULL = NULL
INVARIANT
  FinishedIsReclaimed
