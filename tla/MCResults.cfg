SPECIFICATION Spec
CONSTANTS
  Results = {r1, r2, r3}
  Faults = {"refuse", "silent", "crash"}
  MaxFaults = 3
  MaxKept = 2
INVARIANTS
  TypeOK
  NothingDropped
  TakenOnce
CHECK_DEADLOCK FALSE
