SPECIFICATION FairSpec
CONSTANTS
  Chunk = 2
  HighWater = 1
  MaxRead = 1
  MaxUnits = 3
  MaxLive = 1
  Setups <- PlainSetups
PROPERTY EofSurfaces
CHECK_DEADLOCK FALSE
