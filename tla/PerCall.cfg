SPECIFICATION PerCallSpec
CONSTANTS
  StreamConfigs <- MCStreamConfigs
  LastMark = 3
  MaxClock = 6
  Kinds = {"hedge", "llm"}
  RawAttempts <- MCRawAttempts
  MaxOverall = 3
INVARIANTS StageIsTrue FailsOnlyWhenAllFail
PROPERTIES DeadlinesBite CallEndsCleanly
CHECK_DEADLOCK FALSE
