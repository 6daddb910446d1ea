SPECIFICATION FairSpec
CONSTANTS
  MaxStray = 3
  MaxNest = 3
  Setups <- AllSetups
CHECK_DEADLOCK FALSE
INVARIANTS
  BufferBalance
  ResponseMatches
  OneOutcome
  InterestExact
PROPERTIES
  TimeoutsEnd
