CONSTANTS
  RpdoCount = 2
  FifoSize = 3
SPECIFICATION Spec
INVARIANTS
  RpdoErrorIndicated
