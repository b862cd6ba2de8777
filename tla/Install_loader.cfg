SPECIFICATION Spec
CONSTANTS
  Options <- OwnLoader
  FaultKinds = {}
  MaxFaults = 0
  MaxRuns = 1
  Media <- Cards
  MaxBoots = 0
INVARIANTS
  BootloaderIsFlashed
CHECK_DEADLOCK FALSE
