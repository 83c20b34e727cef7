CONSTANTS
  NumCores = 2
  SlotsPerCore = 2
  WordBytes = 8
  MaxEvents = 4
  Requests = {1, 3}
SPECIFICATION Spec
INVARIANTS InsideSegment
CHECK_DEADLOCK FALSE
