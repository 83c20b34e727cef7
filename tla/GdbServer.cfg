SPECIFICATION Spec
CONSTANTS
  Threads = {1, 2}
  Stops = {"bkpt", "call"}
  MaxPid = 2
  MaxSessions = 2
  HaltOnAttach = TRUE
INVARIANTS StopsRight
PROPERTIES NoStopLost ClientAnswered StopsTold
CHECK_DEADLOCK FALSE
