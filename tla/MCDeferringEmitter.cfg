SPECIFICATION DeferringSpec
CONSTANTS
  Functions = {f, g}
  Bound = {}
  MaxEvents = 5
  MaxIssued = 3
  MaxPauses = 2
  MaxChanges = 2
INVARIANTS
  HeldOrEmittedOnce
  OvertakesOnlyInFlush
PROPERTIES
  HeldIsReleased
  EmitsRounds
