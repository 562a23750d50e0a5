SPECIFICATION Spec
CONSTANTS
  t1 = t1
  t2 = t2
  t3 = t3
  p1 = p1
  p2 = p2
  r1 = r1
  r2 = r2
  f1 = f1
  f2 = f2
  Torrents <- MCTorrents
  Peers <- MCPeers
  Readers <- MCReaders
  Fetches <- MCFetches
  PageSize = 1
  MaxPage = 3
  MaxInt = 2
  MaxChanges = 2
  TicksPerSecond = 2
  MaxTime = 3
  MaxTicks = 8
  MaxRequests = 3
SYMMETRY Symmetric
INVARIANTS
  TypeOK
  FiguresAgree
  WalkComplete
  StraysByTimer
  RateBounded
CHECK_DEADLOCK FALSE
