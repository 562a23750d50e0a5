SPECIFICATION Spec
CONSTANTS
  s1 = s1
  s2 = s2
  s3 = s3
  c1 = c1
  Sessions <- ThreeSessions
  ApiClients <- OneApiClient
  TaskThreads = 2
  MaxConnections = 2
CHECK_DEADLOCK FALSE
INVARIANTS
  ResponseWritten
