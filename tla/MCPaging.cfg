\* Two programs exchange pages and the TLB is as large as memory; the other
\* instances are in MCPaging.
SPECIFICATION PagingSpec
CONSTANTS
  Spaces = {p1, p2}
  NumPages = 2
  noInitData = 1
  Writable = {1}
  NumPhysPages = 2
  TLBSize = 2
  SWAPSize = 2
  Data = {0, 1}
  Zero = 0
  Image <- Ones
  Stale <- ZeroedHeap
  NULL = NULL
INVARIANTS
  AllFramesExact
  AllSwapExact
  AllTLBCoherent
  AllCleanRecoverable
PROPERTIES
  ClosedFormRight
  AllImplementMemory
