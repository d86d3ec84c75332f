\* Fresh TLB arrays from used heap memory: what is lost.
\* CleanPagesRecoverable is violated.
SPECIFICATION Spec
CONSTANTS
  Spaces = {p1, p2}
  NumPages = 2
  noInitData = 2
  Writable = {1}
  NumPhysPages = 2
  TLBSize = 2
  SWAPSize = 2
  Data = {0, 1}
  Zero = 0
  Image <- Ones
  Stale <- AnyHeap
  NULL = NULL
INVARIANTS
  CleanPagesRecoverable
