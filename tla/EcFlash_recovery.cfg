SPECIFICATION MisledRetrying
CONSTANTS
  P = 2
  ROM_SIZE = 12
  BASE = 2
  MARKER = 6
  EEPROM1 = 8
  EEPROM2 = 10
  TAIL = 6
  WORD = 64
  OFFSET_WORD = 16
  SectorStarts <- MCSectors
  OldImage <- MCOldImage
  Corrupted <- OneBitFlipped
  Roms <- AnyRoms
  CommandLines <- NidLines
  FaultKinds = {"fail", "lost", "open", "kill", "power"}
  MaxFaults = 2
  MaxRuns = 5
  SleepsSuffice = TRUE
INVARIANTS
  ForeignOnlyMisled
PROPERTIES
  RunningKeptUnlessMisled
  MarkerGuardsUnlessMisled
  Recovers
  LeavesBootBlock
CHECK_DEADLOCK FALSE
