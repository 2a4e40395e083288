CONSTANTS
  Dict <- MCDict
  Jobs <- MCJobs
  MaxJobs = 3
  MaxHastyJobs = 2
  SDOtimeoutTime = 2
  MaxElapsed = 1
  InFlight = 2
  NoObject = "zero"
SPECIFICATION FairSpec
INVARIANTS
  TypeOK
  WholeValues
  PatientTrue
  OnlyFullLosesCode
PROPERTIES
  ServerFree
CHECK_DEADLOCK FALSE
