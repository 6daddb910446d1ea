SPECIFICATION FairSpec
CONSTANTS
  MaxPending = 2
  DelayInitial = 1
  DelayMax = 2
  MaxNest = 2
  Setups <- LiveSetups
CHECK_DEADLOCK FALSE
PROPERTIES
  SilenceEnds
  CloseTearsDown
  Reconnects
