SPECIFICATION MCSpec
CONSTANTS
  NumCores = 4
  MaxCalls = 3
  LoadCores = 3
  Irqs = {"sync", "user"}
  MaxSignals = 1
INVARIANTS NoEarlyReturn StartsComplete NeverWild
PROPERTIES AbsSpec EveryoneReturns LoadEnds
CHECK_DEADLOCK FALSE
