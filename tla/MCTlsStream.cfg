SPECIFICATION FairSpec
CONSTANTS
  Chunk = 3
  HighWater = 2
  MaxRead = 1
  MaxUnits = 5
  MaxLive = 2
  Setups <- AllSetups
CHECK_DEADLOCK FALSE
INVARIANTS
  NoLoss
  InOrderUnlessBursts
  NoSslLeak
PROPERTIES
  BothWaysMove
