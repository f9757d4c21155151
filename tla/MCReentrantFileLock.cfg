CONSTANTS
  t1 = t1
  t2 = t2
  t3 = t3
  lockA = lockA
  lockB = lockB
  Threads <- MCThreads
  Locks <- MCLocks
  LockOf <- MCLockOf
  MaxDepth = 2
  MaxHolds = 4
  None = None
SPECIFICATION FairSpec
INVARIANTS
  MutualExclusion
  InsideHoldsFile
  NoOrphanedFlock
PROPERTIES
  ImplementsMutex
  EveryCallerEnters
CHECK_DEADLOCK FALSE
