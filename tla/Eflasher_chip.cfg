SPECIFICATION Spec
CONSTANTS
  CHIP = 8
  UNIT = 2
  BUFFER_SIZE = 3
  OldChip <- MCOldChip
  Files <- MCFiles
  Args <- MCArgs
  MaxFaults = 1
INVARIANTS
  TypeOK
  NothingIgnored
  WrittenIsFile
  ReadRepeats
PROPERTIES
  NoCommandWhileBusy
  WriteKeepsOutside
  RegistersRestored
  WriteImplemented
  Termination
CHECK_DEADLOCK FALSE
