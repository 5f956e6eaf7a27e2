CONSTANTS
  Positions = {"bottom", "top"}
  Layouts = {"l1", "l2"}
  NoRect = NoRect
  MaxNotes = 1
  MaxMoves = 4
  Sessions = {s1, s2, s3}
  NoSession = NoSession
  MaxPages = 2
  MaxModal = 2
  Devices = {"d1", "d2"}
  NoDevice = NoDevice
  MaxChanges = 5
  Panels = {a, b}
  Vizzes = {0, 1}
  DefaultHud = {a}
  Home = "Default.json"
  Other = "exported"
  MaxSteps = 5
  MaxCrashes = 1
  NoKey = NoKey
  Undrawn = Undrawn
  MaxDrawn = 3
  MaxActs = 5
  Launchers = {"l1", "l2"}
  MaxLaunches = 3
  MaxServiceMoves = 3
SPECIFICATION Spec
INVARIANTS
  WindowInv
  LoggingFlagsAgree
  ForgottenIsExcused
  
  
  
  
  
  LauncherInv
PROPERTIES
  BarFollows
CHECK_DEADLOCK FALSE
