SPECIFICATION FairSpec
CONSTANTS
  Requests = {r1, r2, r3}
  CfgMaxConcurrent = 1
  CfgMaxQueue = 1
  CfgQueueTimeout = 1
  NoRequest = NoRequest
INVARIANTS
  SlotsAccounted
  RefusedNeverRuns
PROPERTIES
  LimitsConcurrency
  NobodyIsLeft
CHECK_DEADLOCK FALSE
