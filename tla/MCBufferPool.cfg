SPECIFICATION FairSpec
CONSTANTS
  Threads = {t1, t2}
  Count = 2
  VerMod = 4
  SizeMod = 4
  MaxOvertake = 3
INVARIANTS
  IInv
  AvailableExact
PROPERTIES
  ImplementsPool
  LockFree
