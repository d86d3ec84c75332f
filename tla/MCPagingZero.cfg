\* Uninitialised data starts as zero: violated.
SPECIFICATION Spec
CONSTANTS
  Spaces = {p1}
  NumPages = 3
  noInitData = 1
  Writable = {1, 2}
  NumPhysPages = 2
  TLBSize = 2
  SWAPSize = 2
  Data = {0, 1}
  Zero = 0
  Image <- Ones
  Stale <- ZeroedHeap
  NULL = NULL
INVARIANTS
  FreshPagesAreZero
