SPECIFICATION Spec
CONSTANTS
  Runs = {r1, r2, r3, r4}
  NoRun = NoRun
SYMMETRY RunsAlike
INVARIANTS
  OneRender
  FailuresSurface
