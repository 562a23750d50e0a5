SPECIFICATION Spec
CONSTANTS
  Backups = 3
  MaxSize = 3
  Longest = 2
  MaxFiles = 8
  MaxFaults = 5
INVARIANTS
  TypeOK
  NewestFirst
  OnlyOldestMissing
  NumbersTellAges
  SizeBounded
CHECK_DEADLOCK FALSE
