SPECIFICATION Spec
CONSTANTS
  Callers = {c1, c2}
  MaxRequests = 1
  Interval = 0
  Timeout = 1
  ReadyToTrip <- OneFailure
  WindowType = "disabled"
  WindowSize = 2
  MinimumCalls = 2
  RatePercent = 50
  TicksPerSecond = 1
  HasCallback = TRUE
  BufferSize = 1
  CountModulus = 2
  MaxClock = 4
  MaxGen = 1
  MaxCalls = 3
INVARIANT
  TrialsBounded
