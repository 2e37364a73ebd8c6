SPECIFICATION Spec
CONSTANTS
  HighWaterMark = 1
  MaxWrites = 2
  MaxErrors = 2
  MaxListeners = 2
  MaxNesting = 1
INVARIANTS
  NothingLost
  EndAfterData
  WritersWaitForData
CHECK_DEADLOCK FALSE
