SPECIFICATION FairSpec
CONSTANTS
  MaxDepth = 6
  MaxCuts = 3
  MaxNoise = 2
INVARIANTS
  TypeOK
  NoSessionLeft
PROPERTIES
  CallSpec
  CommandReturns
CHECK_DEADLOCK FALSE
