SPECIFICATION CutSpec
CONSTANTS
  Stacks <- MCStacks
  MaxWrites = 2
INVARIANT CutStreamsAreFailures
CHECK_DEADLOCK FALSE
