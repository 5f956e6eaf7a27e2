CONSTANTS
  Ids = {s1, s2}
  Cells = {a, b}
  Https = {h1}
  Requests <- MCRequests
  FlushEvery = 2
  DiskFills = FALSE
  RowsThrow = TRUE
  MaxRows = 3
  MaxClock = 2
  MaxCrashes = 1
  Free = Free
  None = None
SPECIFICATION Spec
SYMMETRY Symmetry
INVARIANT PointersStayValid
CHECK_DEADLOCK FALSE
