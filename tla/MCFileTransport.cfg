SPECIFICATION TransportSpec
CONSTANTS
  MaxLines = 6
  Bytes <- MCBytes
  MaxSize = 2
  HighWater = 3
  Timed = TRUE
  Periods = 1
  Levels = {"error", "log"}
  MaxLevel = "info"
  Faults = 2
INVARIANT LinesKept
PROPERTIES RotatedInTime RotationEnds
CHECK_DEADLOCK FALSE
