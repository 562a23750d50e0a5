SPECIFICATION Spec
CONSTANTS
  t1 = t1
  t2 = t2
  t3 = t3
  Threads <- TwoThreads
  Detached <- NoThreads
  Abandoned <- NoThreads
  PoolSize = 2
  MaxOps = 1
  MaxOutages = 0
CHECK_DEADLOCK FALSE
INVARIANTS
  CloseAllReturns
