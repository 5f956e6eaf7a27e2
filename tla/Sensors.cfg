CONSTANTS
  n1 = n1
  n2 = n2
  NicTable <- MCNicTable
  MaxDrives = 2
  DriveSlots = 1
  NicSlots = 2
  Gpus <- MCGpus
  Mod = 4
  Narrow = 2
  Readings <- MCReadings
  Faults = Faults
  None = None
  MaxBusy = 1
  Depth = 3
  Values = {1, 2, 5}
  MaxPushes = 7
SPECIFICATION Spec
INVARIANTS
  RingHoldsSuffix
  ReadLastIsSuffix
  StatisticsMatchHistory
  
  SlotsInv
