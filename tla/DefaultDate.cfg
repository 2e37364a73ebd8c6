SPECIFICATION Spec
CONSTANTS
  Objects = {}
  Bodies = {}
  Headers = {}
  ExtensionLists = {}
  Chains <- MCChains
  Today = 2
  Texts = {}
  Cwd <- MCCwd
  Lower <- MCLower
  OnePath = {}
  TwoPaths = {}
  Lists = {}
  Indices = {}
  Searches = {}
  Graphs = {}
  Options <- MCOptions
  Params <- MCParams
  Commands <- MCCommands
  Numerals <- MCNumerals
  OptionLike <- MCOptionLike
  Modes = {}
  CommandLines = {}
  Base = 8
  SafeHi = 128
  BIG_ENDIAN = FALSE
  NumberCalls = {}
  ByteCalls = {}
  ReadableCalls = {}
  Secrets = {}
  Ciphers <- MCCiphers
  UpperCase <- MCUpperCase
  LineBytes = 3
  Damages = 2
INVARIANT
  DefaultDateIsChecked
