SPECIFICATION Spec
CONSTANTS
  P = 2
  ROM_SIZE = 12
  BASE = 2
  MARKER = 6
  EEPROM1 = 8
  EEPROM2 = 10
  TAIL = 6
  WORD = 64
  OFFSET_WORD = 16
  SectorStarts <- MCSectors
  OldImage <- MCOldImage
  Corrupted <- OneBitFlipped
  Roms <- ProperRom
  CommandLines <- AllLines
  FaultKinds = {"open", "power"}
  MaxFaults = 3
  MaxRuns = 4
  SleepsSuffice = TRUE
INVARIANTS
  SleepsInv
  HeldInv
  FinishMeansComplete
PROPERTIES
  NeverBootsDamaged
  UpdateImplemented
CHECK_DEADLOCK FALSE
