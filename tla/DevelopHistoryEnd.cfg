SPECIFICATION HistorySpec
CONSTANTS
  Instance = {1, 2, 3}
  Copy = {2}
  AlwaysOn = {3}
  OpOf <- MCOpOf
  RemoveListedOnly = FALSE
  GuiWaits = TRUE
  RatedTypes = {"METADATA"}
  MaxSteps = 5
INVARIANTS EndInside
CHECK_DEADLOCK FALSE
