SPECIFICATION Spec
CONSTANTS
  Options <- MCOptions
  FaultKinds = {"fail", "source", "busy", "kill"}
  MaxFaults = 2
  MaxRuns = 2
  Media <- Cards
  MaxBoots = 2
INVARIANTS
  TypeOK
  FlashedIsBuilt
  ForeignKept
  NoFailureByLeftovers
  RootMatchesKernel
PROPERTIES
  FlashedBoots
CHECK_DEADLOCK FALSE
