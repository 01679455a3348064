SPECIFICATION Spec
CONSTANTS
  Callers = {c1, c2}
  Configs <- MCConfigs
  MaxInt32 = 255
  RTTs = {0, 2, 20}
  MaxFailures = 1
INVARIANTS LimitInRange InFlightExact
PROPERTY StepsAreGentle
SYMMETRY Symmetry
