SPECIFICATION FairSpec
CONSTANTS
  Sockets = {1, 2}
  MaxRuns = 2
  Files <- MCFiles
  Recoveries <- MCRecoveries
  KeyTries = 2
  Faults = {"odd", "lost", "implausible", "refuses", "weak", "contact", "switch"}
  MaxFaults = 1
INVARIANTS
  TypeOK
  PassIsProgrammed
  OneWriter
PROPERTIES
  ButtonBack
CHECK_DEADLOCK FALSE
