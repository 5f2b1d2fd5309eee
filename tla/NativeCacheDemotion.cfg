SPECIFICATION Spec
CONSTANTS
  t1 = t1  t2 = t2  t3 = t3  k1 = k1  k2 = k2  s1 = s1  s2 = s2
  Thread <- TwoThreads
  Key <- TwoKeys
  Slot <- Slots
  None = None
  Costs = {1, 2}
  cost_quota = 2
INVARIANTS GeneratesWriteLocked
