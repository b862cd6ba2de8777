SPECIFICATION MCSpec
CONSTANTS
  MaxLen = 3
  Samples = {0, 1, 128, 165}
  Patterns <- MCPatterns
INVARIANTS
  CrcIsRemainder
  LaterByteErrorsSeen
  FirstByteBlindSpot
CHECK_DEADLOCK FALSE
