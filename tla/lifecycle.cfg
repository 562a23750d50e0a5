SPECIFICATION FairSpec
CONSTANTS
  w1 = w1
  k1 = k1
  Main = Main
  Cleaner = Cleaner
  Workers <- MCWorkers
  Tasks <- MCTasks
  MaxSignals = 2
  MaxEvents = 3
INVARIANTS
  TypeOK
  RequestsEndFirst
  PoolOutlivesWorkers
  OnlyEarlySignalLost
  DeletedWhole
  StopNotBlocked
PROPERTIES
  SignalEnds
CHECK_DEADLOCK FALSE
