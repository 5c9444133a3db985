SPECIFICATION FairSpec
CONSTANTS
  r1 = r1
  r2 = r2
  Request = {r1, r2}
  Deployments = {{"primary", "replicator", "api"}, {"replicator"}}
  PoolSize = 1
  ApiTimeout = 1
  ApiWrite = 2
  KeepAlive = 2
  Grace = 3
  ReadTimeout = 4
  PoolTimeout = 5
  MaxTimeout = 2
CHECK_DEADLOCK FALSE
INVARIANTS
  TypeOK
  OnTime
PROPERTIES
  WritesProceed
  StopsCleanly
