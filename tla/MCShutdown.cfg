SPECIFICATION FairSpec
CONSTANTS
  Udis = {u1, u2}
  Program <- TwoPositions
  Habits = {"close"}
  Faults = {}
  MaxWelds = 2
  MaxScans = 2
  MaxFaults = 0
PROPERTIES
  ShutdownEnds
CHECK_DEADLOCK FALSE
