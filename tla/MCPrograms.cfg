\* Exec, Join and Exit; user semaphores; open files and the console.
SPECIFICATION Spec
CONSTANT NULL = NULL
INVARIANTS
  NoFreedEntryUsed
  SharedExact
PROPERTIES
  JoinOnlyAfterEnd
  JoinReturns
  DestroyedIsDead
  
