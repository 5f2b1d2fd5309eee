SPECIFICATION Spec
CONSTANTS
  t1 = t1
  t2 = t2
  t3 = t3
  k1 = k1
  NoThread = NoThread
  NoFlight = NoFlight
  Thread <- TwoThreads
  Key <- OneKey
  Flight = {1, 2, 3, 4}
  Oversized = {FALSE, TRUE}
  MaxInvalidations = 0
SYMMETRY ThreadSymmetry
INVARIANT NeverPoisoned
