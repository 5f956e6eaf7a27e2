SPECIFICATION JobsSpec
SYMMETRY Symmetry
CONSTANTS
  Jobs = {j1, j2}
  Sensors = {s1, s2}
  MaxSessions = 3
  MaxLosses = 2
  None = None
  Local = Local
INVARIANTS
  
  
  RemoteKnown
