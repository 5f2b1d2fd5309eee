SPECIFICATION FairSpec
CONSTANTS
  c1 = c1  c2 = c2  w1 = w1  w2 = w2  r1 = r1
  import = import  thumb1 = thumb1  thumb2 = thumb2  thumb3 = thumb3
  scan = scan  export1 = export1  export2 = export2  lua = lua
  pipe1 = pipe1  pipe2 = pipe2  history = history
  Jobs = {scan, pipe1, thumb1, history}
  Clients <- OneClient
  Workers <- OneWorker
  Reserved <- ReservedSet
  QueueOf <- Queues
  SlotOf <- Slots
  Content <- Contents
  Synchronous <- AtOnce
  Cancellable = {}
  StackLimit = 1
  PriorityLimit = 12
  MayQuit = TRUE
  StrayWrites = FALSE
  None = None
CHECK_DEADLOCK FALSE
INVARIANTS HeadsAreServed
PROPERTIES Served ShutdownEnds
