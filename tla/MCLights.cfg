SPECIFICATION FairSpec
CONSTANTS
  Colours = {1, 2}
  Keys = {k1}
  MAX_BRIGTH = 1
  MAX_BRIGTH_COUNTER = 1
  calcBrigt <- MCCalc
  BlinkPeriod = 0
  BackColours <- MCBack
  Mapped <- MCMapped
  StartBrigth = 1
  StartBack = 1
  StartColor <- MCStartColor
  Sent <- MCSent
  Written <- MCWritten
  MaxBurst = 1
INVARIANTS RpdoWhole LedMeansObject
PROPERTIES OwedDelivered LampShown BlinksForEver
