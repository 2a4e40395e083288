CONSTANTS
  HbTimes <- MCHbTimes
  DefaultHbTime = 0
  FirstHbTime = 3
  MaxElapsed = 2
SPECIFICATION NmtFairSpec
INVARIANTS
  HeartbeatTrue
  OnlyRaceLosesCommand
PROPERTIES
  ReportsState
