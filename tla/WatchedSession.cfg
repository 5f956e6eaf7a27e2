SPECIFICATION SWFairSpec
CONSTANTS
  Pids = {p1, p2}
  Exes = {a, b}
  WatchMax = 1
  MaxProcs = 2
  MaxCalls = 3
  Absent = Absent
INVARIANTS
  EntriesAreSound
  SessionOutlivesWatched
PROPERTIES
  WatchedGetsTracked
  
