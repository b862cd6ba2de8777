SPECIFICATION MisledSpec2
CONSTANTS
  P = 2
  LAP = 3
  ROM_SIZE = 12
  BASE = 2
  MARKER = 6
  EEPROM1 = 8
  EEPROM2 = 10
  TAIL = 6
  WORD = 64
  OFFSET_WORD = 16
  SectorStarts <- MCSectors
  OldImage <- MCOldImage
  Corrupted <- OneBitFlipped
  Roms <- ShortAndProper
  CommandLines <- IdleLines
  FaultKinds = {"fail", "lost", "corrupt", "open", "kill", "power"}
  MaxFaults = 2
  MaxRuns = 3
  SleepsSuffice = TRUE
INVARIANTS
  WholeLapsUnlessMisled
PROPERTIES
  RunningKeptUnlessMisled
  BootBlockKeptUnlessAsked
CHECK_DEADLOCK FALSE
