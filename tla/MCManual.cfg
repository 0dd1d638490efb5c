SPECIFICATION Spec
CONSTANTS
  NA = 2
  MaxTravel = 6
  MaxFaults = 3
  Table <- MCTable
  Unload <- MCUnload
  Grind <- MCGrind
  Shifts <- MCShifts
  Exposed <- MCExposed
  Habits = {"early"}
INVARIANTS
  TypeOK
  PedalAtTarget
  RestartNumber
PROPERTIES
  CycleSpec
CHECK_DEADLOCK FALSE
