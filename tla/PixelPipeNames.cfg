SPECIFICATION Spec
CONSTANTS
  Gamma = 3
  Focus = 1
  Editable = {1, 2}
  Important = {2}
  Entries = 5
  MemLimit = 4
  Roi <- Views
  FullRoi = "full"
  SizeOf <- ViewSize
  MaxGestures = 2
CHECK_DEADLOCK FALSE
INVARIANTS NamesTellParams
