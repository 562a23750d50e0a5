SPECIFICATION FairSpec
CONSTANTS
  t1 = t1
  t2 = t2
  t3 = t3
  Threads <- TwoThreads
  Detached <- NoThreads
  Abandoned <- SecondThread
  PoolSize = 3
  MaxOps = 2
  MaxOutages = 0
CHECK_DEADLOCK FALSE
PROPERTIES
  OperationsEnd
INVARIANTS
  NoCircularWait
