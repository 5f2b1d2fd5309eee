SPECIFICATION Spec
CONSTANTS
  c1 = c1  c2 = c2  w1 = w1  w2 = w2  r1 = r1
  import = import  thumb1 = thumb1  thumb2 = thumb2  thumb3 = thumb3
  scan = scan  export1 = export1  export2 = export2  lua = lua
  pipe1 = pipe1  pipe2 = pipe2  history = history
  Jobs = {import, export1}
  Clients <- OneClient
  Workers <- OneWorker
  Reserved <- NoReserved
  QueueOf <- Queues
  SlotOf <- Slots
  Content <- Contents
  Synchronous <- AtOnce
  Cancellable <- Buttons
  StackLimit = 1
  PriorityLimit = 12
  MayQuit = FALSE
  StrayWrites = TRUE
  None = None
CHECK_DEADLOCK FALSE
INVARIANTS OneOwner
