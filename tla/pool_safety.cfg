SPECIFICATION Spec
CONSTANTS
  t1 = t1
  t2 = t2
  t3 = t3
  Threads <- ThreeThreads
  Detached <- LastThread
  Abandoned <- SecondThread
  PoolSize = 2
  MaxOps = 1
  MaxOutages = 1
CHECK_DEADLOCK FALSE
INVARIANTS
  TypeOK
  ExclusiveUse
  NoLostWakeup
  CloseFindsWrapper
PROPERTIES
  LossNeedsOutage
  ImplementsLending
