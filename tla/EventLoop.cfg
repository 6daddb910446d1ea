SPECIFICATION FairSpec
CONSTANTS
  Pollables = {p1, p2, p3}
  Null = Null
  MaxEvents = 2
  MaxSlots = 4
INVARIANTS
  InBounds
  NoDangling
PROPERTIES
  FreshWaits
  EveryoneServed
