SPECIFICATION Spec
CONSTANTS
  NA = 2
  MaxTravel = 4
  MaxFaults = 2
  Inputs = {curtain}
  Table <- MCTable
  Unload <- MCUnload
  Grind <- MCGrind
  Faults <- FaultKinds
  Exposed <- AllExposed
INVARIANTS
  TypeOK
  NoPointSkipped
  RestartNumber
PROPERTIES
  CycleSpec
CHECK_DEADLOCK FALSE
