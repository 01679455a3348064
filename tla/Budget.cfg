SPECIFICATION FairSpec
CONSTANTS
  Callers = {c1, c2}
  MaxTokens = 2
  MaxUSD <- MCMaxUSD
  MaxMicros = 100
  MaxCalls = 2
  ResetAfters = {0, 2}
  Costs <- TwoCosts
  Resets = 1
  MaxRuns = 4
  MaxClock = 2
INVARIANTS CallsCapped BreachedWhenOver WindowTotalsExact
PROPERTY EveryCallReturns
CHECK_DEADLOCK FALSE
