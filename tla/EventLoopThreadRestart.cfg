SPECIFICATION Spec
CONSTANTS
  FStack = FALSE
  MaxSessions = 3
  Stops = {"hook"}
CHECK_DEADLOCK FALSE
INVARIANTS
  NoTerminate
