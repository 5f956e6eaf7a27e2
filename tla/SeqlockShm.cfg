CONSTANTS
  Depth = 2
  NumMetrics = 2
  MetricReaders = {ui}
  HistoryReaders = {ui}
  SnapshotReaders = {}
  SpinReaders = {pipe}
  RawReaders = {}
  MaxRetries = 2
  MaxPolls = 3
  MaxCrashes = 1
  CrashMidWrite = FALSE
  NoAnswer = NoAnswer
  Refused = Refused
SPECIFICATION Spec
INVARIANTS
  EvenBlockIsOnePoll
  AcceptedReadIsCurrent
PROPERTIES
  ImplementsBoard
CHECK_DEADLOCK FALSE
