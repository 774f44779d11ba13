CONSTANTS
  Threads = {t1, t2}
  Isrs = {i1, i2}
  NoThread = NoThread
  MaxDelayTicks = 1
  MaxDepth = 2
  MaxStores = 2
SPECIFICATION FairSpec
INVARIANT Exclusion
INVARIANT NeverLost
INVARIANT NoLostUpdate
PROPERTY ImplementsLock
PROPERTY LockReturns
INVARIANT GuardKeepsMutex
