SPECIFICATION Spec
CONSTANTS
  NoTask = NoTask
  Task <- ChainTasks
  PriorityOf <- ChainPriority
  Dependencies <- ChainDependencies
  Memory <- ChainMemory
  Workers <- ChainWorkers
  Pipelines = {"export", "tidy"}
  Cancellable = {}
  TotalQueueLimit = 2
  PerClassQueueLimit = 2
  ActivePipelineLimit = 1
  WorkerLimit = 2
  MemoryLimit = 4
  MaxClock = 0
  MaxDeficit = 12
CHECK_DEADLOCK FALSE
INVARIANT VisibleTasksDrain
