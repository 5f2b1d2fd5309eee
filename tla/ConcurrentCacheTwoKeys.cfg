SPECIFICATION Spec
CONSTANTS
  t1 = t1
  t2 = t2
  t3 = t3
  k1 = k1
  k2 = k2
  NoThread = NoThread
  NoSlot = NoSlot
  Thread <- TwoThreads
  Key <- TwoKeys
  Slot = {1, 2, 3}
  Costs = {1, 2}
  Quotas = {0, 1}
  Ratios = {100}
  MaxCost = 2
  CallbackBacked = TRUE
SYMMETRY ThreadSymmetry
INVARIANTS TypeOK LeaseExclusion HeldStaysPublished SingleFlight Bookkeeping
PROPERTIES ImplementsLeases
