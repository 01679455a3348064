SPECIFICATION RaceSpec
CONSTANTS
  Callers = {c1}
  Readers = {r1, r2}
  MaxRequests = 1
  Interval = 0
  Timeout = 1
  ReadyToTrip <- OneFailure
  WindowType = "disabled"
  WindowSize = 1
  MinimumCalls = 1
  RatePercent = 50
  TicksPerSecond = 1
  HasCallback = TRUE
  BufferSize = 2
  CountModulus = 2
  MaxClock = 4
  MaxGen = 1
  MaxCalls = 3
SYMMETRY ReaderSymmetry
INVARIANT OneEventPerTransition
