SPECIFICATION Spec
CONSTANTS
  Channels = {1, 2, 3}
  Adapters = {1, 2}
  Kinds = {"inventory", "leak"}
  Values = {a, b}
  Short = {b}
  Faults = {"odd", "fails", "replug", "torn"}
  MaxFaults = 2
  MaxCalls = 3
INVARIANTS
  TypeOK
  OwnChannel
  TrueIsStored
  LoadedWasAsked
CHECK_DEADLOCK FALSE
