SPECIFICATION MisledSpec2
CONSTANTS
  P = 2
  LAP = 3
  ROM_SIZE = 12
  BASE = 2
  MARKER = 6
  EEPROM1 = 8
  EEPROM2 = 10
  TAIL = 6
  WORD = 64
  OFFSET_WORD = 16
  SectorStarts <- MCSectors
  OldImage <- MCOldImage
  Corrupted <- OneBitFlipped
  Roms <- ProperRom
  CommandLines <- PlainLines
  FaultKinds = {}
  MaxFaults = 0
  MaxRuns = 1
  SleepsSuffice = TRUE
INVARIANTS
  FinishMeansComplete
CHECK_DEADLOCK FALSE
