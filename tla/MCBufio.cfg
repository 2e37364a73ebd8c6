SPECIFICATION Spec
CONSTANTS
  Base = 8
  SafeHi = 128
  BIG_ENDIAN = FALSE
  Objects <- MCObjects
  Slack <- MCSlack
  Garbage = {0, 5}
  MaxDamaged = 1
INVARIANTS ReadIsWritten WholeOrRefused
