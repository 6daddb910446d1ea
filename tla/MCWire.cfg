SPECIFICATION Spec
CONSTANTS
  Base = 3
  Short = 4
  Wide = 8
  Narrow = 4
  Cap = 26
  MaxPending = 2
  Room = 9
  Grants = {1, 7}
  Jobs <- MCJobs
CHECK_DEADLOCK FALSE
INVARIANTS
  Delivered
  SentExact
  FailsForReason
  NoFdLeak
  OpenUpgraded
PROPERTY
  Drains
