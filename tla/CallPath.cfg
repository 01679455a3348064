SPECIFICATION CallPathSpec
CONSTANTS
  Chains <- MCChains
  MaxCalls = 3
  HttpStacks <- MCHttpStacks
  MaxWrites = 2
  Waiters = {w1}
  Rate = 2
  Interval = 3
  Burst = 2
  MaxTokensPerRequest = 3
  FailOpen = FALSE
  MaxElapsed = 4
  Epsilon = 3
  MinWait = 1
  MaxWait = 2
  MaxIterations = 2
  MaxTotalWait = 4
  MaxWaitTimeLimit = 5
  TTL = 3
  MaxClock = 6
  NoBucket = NoBucket
  Clients = {c1, c2}
  Keys = {k1, k2}
  Entries = {e1, e2}
  States = {}
  Ops = {"update", "get", "delete", "reset"}
  MaxKeys = 1
  EntryTTL = 1
  MaxStoreClock = 2
  Nil = Nil
  Free = Free
  Janitor = Janitor
SYMMETRY StoreSymmetry
INVARIANTS
  RefusalsNotRetried
  CallCostBounded
  OneAuthor
  NoFalseSuccess
  BreakersJudgeTheResponse
  RateBound
  IdleBucketFills
  WaitTimeAgreesWithRefill
  CountAccountsForKeys
  KeysBounded
  LocksComeFree
PROPERTY BreakerCountsCalls
CHECK_DEADLOCK FALSE
