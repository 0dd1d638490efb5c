SPECIFICATION Spec
CONSTANTS
  Udis = {u1}
  Program <- TwoPositions
  Habits = {"early", "overlap", "skip"}
  Faults = {"reject", "db"}
  MaxWelds = 2
  MaxScans = 2
  MaxFaults = 1
INVARIANTS
  TypeOK
  LockedWithoutUdi
PROPERTIES
  ReleasedForProgram
CHECK_DEADLOCK FALSE
