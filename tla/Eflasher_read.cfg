SPECIFICATION Spec
CONSTANTS
  CHIP = 8
  UNIT = 2
  BUFFER_SIZE = 3
  OldChip <- MCOldChip
  Files <- MCFiles
  Args <- ReadArgs
  MaxFaults = 0
INVARIANTS
  ReadIsRange
CHECK_DEADLOCK FALSE
