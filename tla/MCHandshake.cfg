SPECIFICATION FairSpec
CONSTANTS
  Faults = {"output", "power"}
  MaxFaults = 2
INVARIANTS
  TypeOK
  OwnVerdict
PROPERTIES
  RepeatsUndecided
  VerdictTaken
CHECK_DEADLOCK FALSE
