\* The wait of the timer task, a wait with a limit and a wait for room, beside an interrupt.
SPECIFICATION Spec
CONSTANTS
  Tasks <- MCTasks
  Idle = "idle"
  Timer = {"timer"}
  Priority <- MCPriority
  Delays <- MCDelays
  ReceiveWaits <- MCReceive
  SendWaits <- MCSend
  TaskMessages = {m1}
  InterruptMessages = {m2}
  None = None
  QueueLength = 2
  TickMod = 4
  MaxPended = 1
INVARIANTS TypeOK NobodyLate NoLostWakeup ListsSound
PROPERTIES NobodyEarly QueueKept
