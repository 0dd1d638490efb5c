SPECIFICATION FairSpec
CONSTANTS
  Udis = {u1, u2}
  Program <- ThreePositions
  Habits = {"close"}
  Faults = {"reject", "no_verdict", "mes", "dsp"}
  MaxWelds = 4
  MaxScans = 2
  MaxFaults = 2
INVARIANTS
  RecordsInOrder
  WeldWithProgram
PROPERTIES
  PassedIsWelded
  WeldStored
CHECK_DEADLOCK FALSE
