SPECIFICATION Spec
CONSTANTS
  Objects <- MCObjects
  Bodies <- MCBodies
  Headers <- MCHeaders
  ExtensionLists <- MCExtensionLists
  Chains <- MCChains
  Today = 2
  Texts <- MCTexts
  Cwd <- MCCwd
  Lower <- MCLower
  OnePath <- MCOnePath
  TwoPaths <- MCTwoPaths
  Lists <- MCLists
  Indices <- MCIndices
  Searches <- MCSearches
  Graphs <- MCGraphs
  Options <- MCOptions
  Params <- MCParams
  Commands <- MCCommands
  Numerals <- MCNumerals
  OptionLike <- MCOptionLike
  Modes <- MCModes
  CommandLines <- MCCommandLines
  Base = 8
  SafeHi = 128
  BIG_ENDIAN = FALSE
  NumberCalls <- MCNumberCalls
  ByteCalls <- MCByteCalls
  ReadableCalls <- MCReadableCalls
  Secrets <- MCSecrets
  Ciphers <- MCCiphers
  UpperCase <- MCUpperCase
  LineBytes = 3
  Damages = 2
INVARIANTS
  WrittenIsRead
  AcceptedIsCanonical
  VerifiedIsTrusted
  DamageIsDetected
  PathsLead
  ListIsItsBytes
  PackagesInOrder
  
