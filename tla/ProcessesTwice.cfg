\* Two programs wait for a third.
SPECIFICATION FairSpec
CONSTANTS
  Threads = {main, t1, t2}
  Main = main
  Callers = {main, t1}
  TableSize = 2
  MaxPrograms = 2
  Statuses = {0}
  Executables = {TRUE}
  Preemptive = FALSE
  NULL = NULL
PROPERTIES
  JoinReturns
