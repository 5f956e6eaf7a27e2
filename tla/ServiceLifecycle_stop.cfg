SPECIFICATION FairSpec
CONSTANTS
  Conns = {c1, c2}
  EventFails = FALSE
  LateListen = FALSE
PROPERTIES StopIsHonored
CHECK_DEADLOCK FALSE
