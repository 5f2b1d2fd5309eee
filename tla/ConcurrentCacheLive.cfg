SPECIFICATION FairSpec
CONSTANTS
  t1 = t1
  t2 = t2
  t3 = t3
  k1 = k1
  k2 = k2
  NoThread = NoThread
  NoSlot = NoSlot
  Thread <- ThreeThreads
  Key <- OneKey
  Slot = {1, 2, 3}
  Costs = {1}
  Quotas = {0, 1}
  Ratios = {0}
  MaxCost = 1
  CallbackBacked = FALSE
PROPERTY Drains
