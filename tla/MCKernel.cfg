\* Safety: four threads, two semaphores, at most two units.
SPECIFICATION Spec
CONSTANTS
  Threads = {main, t1, t2, t3}
  Main = main
  Sems = {s1, s2}
  InitialValue <- NoUnits
  MaxUnits = 2
  NULL = NULL
SYMMETRY Symmetry
INVARIANTS
  NoLostWakeup
  Inv
PROPERTIES
  DeleteOnlyFinished
  ImplementsSemaphore
