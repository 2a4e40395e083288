SPECIFICATION FairSpec
CONSTANTS
  Priority <- MCPriority
  QueueLength = 2
INVARIANTS MutexSound
PROPERTIES TasksServed BusOffRestarts
