SPECIFICATION Spec
CONSTANTS
  w1 = w1
  w2 = w2
  p1 = p1
  p2 = p2
  t1 = t1
  None = None
  Workers <- TwoWorkers
  Torrents <- OneTorrent
  Peers <- TwoPeers
  StatsWindow = 2
  MaxPeerAge = 1
  CleanupInterval = 1
  NumWant = 1
  MaxAnnounces = 3
  MaxFaults = 0
  MaxOutage = 0
SYMMETRY Interchangeable
INVARIANTS
  TypeOK
  StatsExact
  FewDownloadsMissed
