SPECIFICATION RedisSpec
CONSTANTS
  Waiters = {}
  Rate = 2
  Interval = 3
  Burst = 4
  MaxTokensPerRequest = 1
  FailOpen = TRUE
  MaxElapsed = 4
  Epsilon = 0
  MinWait = 1
  MaxWait = 2
  MaxIterations = 2
  MaxTotalWait = 4
  MaxWaitTimeLimit = 5
  TTL = 3
  MaxClock = 5
  NoBucket = NoBucket
  Second = 3
INVARIANT RedisLimitHolds
CHECK_DEADLOCK FALSE
