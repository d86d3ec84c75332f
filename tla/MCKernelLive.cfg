\* Liveness: three threads, one semaphore, under FairSpec.
SPECIFICATION FairSpec
CONSTANTS
  Threads = {main, t1, t2}
  Main = main
  Sems = {s1}
  InitialValue <- NoUnits
  MaxUnits = 2
  NULL = NULL
PROPERTIES
  ReadyRuns
  UnitsAreTaken
