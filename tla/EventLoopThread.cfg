SPECIFICATION FairSpec
CONSTANTS
  FStack = TRUE
  MaxSessions = 3
  Stops = {"hook", "owner", "self"}
CHECK_DEADLOCK FALSE
INVARIANTS
  StoreAlive
  TeardownOrder
PROPERTIES
  CallsReturn
