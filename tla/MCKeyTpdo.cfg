\* Three keys: a pass may fill the queue; the event timer of TPDO1 is on.
CONSTANTS
  KeyCount = 3
  QueueLength = 3
  KeyboardPeriod = 3
  EventTime = 1
  MaxNmtChanges = 2
SPECIFICATION FairSpec
INVARIANTS
  QueueFits
  OdFollowsKeys
  OnlyRaceLoses
PROPERTIES
  WireFollowsKeys
