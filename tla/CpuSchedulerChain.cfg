SPECIFICATION Spec
CONSTANTS
  NoTask = NoTask
  Task <- ChainTasks
  PriorityOf <- ChainPriority
  Dependencies <- ChainDependencies
  Memory <- ChainMemory
  Workers <- ChainWorkers
  Pipelines = {"export", "tidy"}
  Cancellable = {"export", "analyse"}
  TotalQueueLimit = 2
  PerClassQueueLimit = 2
  ActivePipelineLimit = 1
  WorkerLimit = 2
  MemoryLimit = 4
  MaxClock = 1
  MaxDeficit = 6
CHECK_DEADLOCK FALSE
INVARIANTS WellFormed DependencyOrder NoStall
PROPERTIES AbortAllStops
