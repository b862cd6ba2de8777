SPECIFICATION FairSpec
CONSTANTS
  P = 2
  ROM_SIZE = 12
  BASE = 2
  MARKER = 6
  EEPROM1 = 8
  EEPROM2 = 10
  TAIL = 6
  WORD = 64
  OFFSET_WORD = 16
  SectorStarts <- MCSectors
  OldImage <- MCOldImage
  Corrupted <- OneBitFlipped
  Roms <- ProperRom
  CommandLines <- AllLines
  FaultKinds = {"fail", "corrupt", "open", "kill", "power"}
  MaxFaults = 2
  MaxRuns = 2
  SleepsSuffice = FALSE
INVARIANTS
  TypeOK
  TransferInv
  PlacedInv
  NoForeignBlock
  AtMostLastMissing
PROPERTIES
  BootBlockKeptUnlessAsked
  StoppedIsHarmless
  Termination
CHECK_DEADLOCK FALSE
