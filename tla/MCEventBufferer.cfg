SPECIFICATION BuffererSpec
CONSTANTS
  Functions = {f}
  Bound = {b}
  Wrapped = {b}
  MaxEvents = 3
  MaxCalls = 2
INVARIANTS
  EmissionOrder
  ExactAudience
  NoEventLost
PROPERTY EventuallyHanded
