SPECIFICATION Spec
CONSTANTS
  r1 = r1
  r2 = r2
  g1 = g1
  w1 = w1
  w2 = w2
  c1 = c1
  c2 = c2
  NoRequest = NoRequest
  NoBundle = NoBundle
  Request <- TwoRequests
  Target <- OneTarget
  TargetOf <- SameTarget
  Worker <- TwoWorkers
  Client <- OneClient
  RetryLimit = 0
  StoreFaults = TRUE
  ReadFaults = TRUE
  PowerLoss = FALSE
SYMMETRY Symmetric
INVARIANTS TypeOK OneStager
PROPERTIES CancelledPublishesNothing BundlesAreImmutable
