SPECIFICATION ThreadSpec
CONSTANTS
  Subjects = {"server", "reports"}
  \* server
  r1 = r1
  r2 = r2
  t1 = t1
  t2 = t2
  t3 = t3
  Remotes = {r1, r2}
  KindsOf <- MCKindsOf
  Threads = {t1, t2, t3}
  RemoteOf <- MCRemoteOf
  Asks <- MCAsks
  PoolThreads = {"w1", "w2"}
  MAX_REQUESTS = 4
  NoHandle = NoHandle
  Nobody = Nobody
  \* error reports
  UserThreads = {t1, t2}
  Owner = t1
  PacketSizes = {1, 2}
  Unknown = Unknown
  Free = Free
  MAX_REPORTS = 2
  MAX_USES = 4
INVARIANTS
  RequestsReachTheirController
  NothingLeftBehind
  ReportsOnce
PROPERTIES
  Answered
  CloseEnds
CHECK_DEADLOCK FALSE
