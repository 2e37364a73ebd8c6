SPECIFICATION Spec
SYMMETRY LoadsAlike
CONSTANTS
  rootFile = rootFile
  branchFile = branchFile
  envFile = envFile
  preset = preset
  overridePreset = overridePreset
  first = first
  second = second
  None = None
  Loads = {first, second}
  RootFiles <- MCRootFiles
  BranchFiles <- MCBranchFiles
  Preset = preset
  OverridePreset = overridePreset
  Extending = {rootFile, envFile}
  Overriding = {rootFile, branchFile}
  Nested = {rootFile}
  Initial <- MCInitial
  Edits = 1
  Clears = 1
INVARIANTS Fresh AppliedOnce
CHECK_DEADLOCK FALSE
