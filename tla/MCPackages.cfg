SPECIFICATION PackagesSpec
CONSTANTS
  MaxDelay = 4
  LastTime = 9
  Lateness = 1
  MaxRequests = 3
  MaxId = 3
  Timeouts = {1, 3}
  Interval = 2
  MaxTime = 5
  byName = byName
  byScope = byScope
  byHand = byHand
  plain = plain
  Instance = Instance
  NoName = NoName
  Plugins <- MCPlugins
  Source <- MCSource
  OwnName <- MCOwnName
  OwnPriority <- MCOwnPriority
  Installed <- MCInstalled
  Batches <- MCBatches
  Unregisters = {1, 2}
INVARIANTS
  NeverLate
  NoOrphan
  OwnAnswer
  StoppedWhenRemoved
  InOrder
  FoundByItsSource
PROPERTIES
  NeverEarly
  ClearedStaysSilent
CHECK_DEADLOCK FALSE
