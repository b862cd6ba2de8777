SPECIFICATION Spec
CONSTANTS
  P = 2
  ROM_SIZE = 12
  BASE = 2
  MARKER = 6
  EEPROM1 = 8
  EEPROM2 = 10
  TAIL = 6
  WORD = 64
  OFFSET_WORD = 16
  SectorStarts <- MCSectors
  OldImage <- MCOldImage
  Corrupted <- OneBitFlipped
  Roms <- ProperRom
  CommandLines <- EraseLines
  FaultKinds = {}
  MaxFaults = 0
  MaxRuns = 1
  SleepsSuffice = TRUE
INVARIANTS
  EraseOptionsErase
CHECK_DEADLOCK FALSE
