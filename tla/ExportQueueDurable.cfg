SPECIFICATION Spec
CONSTANTS
  r1 = r1
  r2 = r2
  g1 = g1
  w1 = w1
  w2 = w2
  c1 = c1
  c2 = c2
  NoRequest = NoRequest
  NoBundle = NoBundle
  Request <- OneRequest
  Target <- OneTarget
  TargetOf <- SameTarget
  Worker <- OneWorker
  Client <- OneClient
  RetryLimit = 1
  StoreFaults = FALSE
  ReadFaults = FALSE
  PowerLoss = TRUE
SYMMETRY Symmetric
INVARIANT SucceededIsDurable
