SPECIFICATION Spec
SYMMETRY Symmetry
CONSTANTS
  Devices = {a, b}
  Addresses = {x, y, z}
  Https = {h1, h2}
  HistoryMax = 2
  MaxMoves = 2
  MaxClicks = 2
  MaxCrashes = 1
INVARIANTS HeartbeatNeverTrusts
