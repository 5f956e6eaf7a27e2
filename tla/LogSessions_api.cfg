CONSTANTS
  Ids = {s1, s2}
  Cells = {a, b}
  Https = {h1}
  Requests <- MCRequests
  FlushEvery = 2
  DiskFills = TRUE
  RowsThrow = TRUE
  MaxRows = 2
  MaxClock = 2
  MaxCrashes = 1
  Free = Free
  None = None
SPECIFICATION Spec
SYMMETRY Symmetry
INVARIANTS
  
  SessionsInv
  FlushBound
PROPERTIES
  OverdueIsStopped
  ImplementsLedger
CHECK_DEADLOCK FALSE
