\* A history of two messages fills, overflows and wraps.
CONSTANTS
  RpdoCount = 1
  FifoSize = 3
SPECIFICATION FairSpec
INVARIANTS
  LastMessageTrue
  OverflowReported
  CriticalStops
PROPERTIES
  HistoryRefined
  AllTold
