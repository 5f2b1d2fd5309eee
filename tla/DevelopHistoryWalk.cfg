SPECIFICATION HistorySpec
CONSTANTS
  Instance = {1, 2, 3}
  Copy = {2}
  AlwaysOn = {3}
  OpOf <- MCOpOf
  RemoveListedOnly = TRUE
  GuiWaits = TRUE
  RatedTypes = {"METADATA"}
  MaxSteps = 5
INVARIANTS HistoryWellFormed ControlsShowHistory
PROPERTIES WalksTheTimeline
CHECK_DEADLOCK FALSE
