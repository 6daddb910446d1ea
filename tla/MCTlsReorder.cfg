SPECIFICATION Spec
CONSTANTS
  Chunk = 2
  HighWater = 1
  MaxRead = 1
  MaxUnits = 6
  MaxLive = 1
  Setups <- BurstSetups
INVARIANT InOrder
CHECK_DEADLOCK FALSE
