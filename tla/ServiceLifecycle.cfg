SPECIFICATION FairSpec
CONSTANTS
  Conns = {c1, c2}
  EventFails = TRUE
  LateListen = TRUE
INVARIANTS
  LifecycleInv
  NoClientLeftOpen

  
CHECK_DEADLOCK FALSE
