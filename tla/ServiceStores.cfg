SPECIFICATION Spec
SYMMETRY Symmetry
CONSTANTS
  Https = {h1, h2}
  Types = {"session", "week", "custom"}
  Dates = {0, 1}
  SaveFails = TRUE
  Week = 1
  MaxKeys = 2
  MaxTime = 2
  MaxBoots = 2
  Hosts = {u1, u2}
  NoHost = NoHost
  Garbled = Garbled
  EnrolThreads = {e1, e2}
  MaxIds = 2
  MaxStarts = 3
  MaxEnrols = 2
INVARIANTS
  KeysInv
  AcceptedIsGranted
  
  EnrolmentIsKept
CHECK_DEADLOCK FALSE
