SPECIFICATION Spec
CONSTANTS
  NA = 2
  MaxTravel = 6
  MaxFaults = 6
  Inputs = {curtain}
  Table <- PausedTable
  Unload <- MCUnload
  Grind <- MCGrind
  Faults <- GrindFaults
  Exposed <- GrindExposed
INVARIANTS
  GroundAtGrind
PROPERTIES
  FiresOnce
CHECK_DEADLOCK FALSE
