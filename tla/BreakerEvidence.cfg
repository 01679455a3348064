SPECIFICATION EvidenceSpec
CONSTANTS
  MaxUint32 = 15
  RawConfigs <- MCRawConfigs
  Exercised <- MCExercised
  FirstSec <- MCFirstSec
  LastSec = 3
  MaxHist = 4
  i1 = i1
  i2 = i2
  c1 = c1
  c2 = c2
  c3 = c3
  Instances = {i1, i2}
  Callers = {c1, c2, c3}
  Home <- MCHome
  Configs <- MCConfigs
  Drift = 1
  MaxTime = 2
  MaxGeneration = 3
  MaxResets = 1
INVARIANTS
  WindowExact
  EveryConfigCanTrip
  StreakShared
  TrialSlotsExact
PROPERTY HalfOpenDecided
CHECK_DEADLOCK FALSE
