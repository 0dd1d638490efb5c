SPECIFICATION FairSpec
CONSTANTS
  NA = 2
  MaxTravel = 4
  MaxFaults = 3
  Inputs = {curtain, button}
  Table <- MCTable
  Unload <- MCUnload
  Grind <- MCGrind
  Faults <- MCFaults
  Exposed <- MCExposed
PROPERTIES
  WeldAtTarget
  AdvanceAtTarget
  RecoveryEnds
  CycleEnds
CHECK_DEADLOCK FALSE
