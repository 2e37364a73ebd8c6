SPECIFICATION Spec
CONSTANTS
  MaxUnits = 3
  Concurrency = 2
INVARIANT UnitsInTurn
PROPERTIES
  Resolves
  Aggregates
