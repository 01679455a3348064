SPECIFICATION Spec
CONSTANTS
  Callers = {c1, c2}
  MaxRequests = 2
  Interval = 2
  Timeout = 1
  ReadyToTrip <- TwoConsecutive
  WindowType = "count"
  WindowSize = 2
  MinimumCalls = 2
  RatePercent = 50
  TicksPerSecond = 1
  HasCallback = FALSE
  BufferSize = 0
  CountModulus = 3
  MaxClock = 6
  MaxGen = 4
  MaxCalls = 3
SYMMETRY CallerSymmetry
INVARIANTS
  HalfOpenHasRoom
  MirrorsPublished
PROPERTIES
  StaleResultsAreIgnored
  OutcomesShareAnInterval
  NoTripOverdue
