SPECIFICATION Spec
CONSTANTS
  MaxPending = 2
  DelayInitial = 1
  DelayMax = 2
  MaxNest = 2
  Setups <- SafetySetups
CHECK_DEADLOCK FALSE
INVARIANTS
  BufferBalance
  OpenConnected
  NoUnderflowUnlessReconnected
  UpgradeFirst
  ViewValid
