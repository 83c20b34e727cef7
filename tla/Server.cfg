SPECIFICATION MCSpec
CONSTANTS
  CoreSpace = 4
  Sram = 4
  Word = 2
  Double = 4
  MaxWrite = 4
  MaxRead = 2
  Rows = 1
  Cols = 2
  FirstRow = 0
  FirstCol = 1
  ExtBase = 16
  ExtSize = 4
  Values = {"x", "y"}
  Addresses <- SmallAddresses
  MaxLen = 3
  MaxSpoilt = 0
  Chips <- SmallChips
  Rectangles <- SmallRectangles
  ULong = 16
  MaxPid = 3
  Programs <- SmallPrograms
  Numbers = {"SYS_write", "SYS_stat", "other"}
  BufSize = 6
  Asks = {2, 4, 6}
  Lengths = {0, 1, 4, 5, 9}
  MaxChanges = 2
  Nybble = 2
  Chunks = 2
  MaxRequests = 3
  MaxVersion = 2
  MaxFaults = 1
  MaxBreaks = 1
  MaxSessions = 2
INVARIANTS NeverShown BreakpointsKept TablesRight SelfStopNamed RepliesWhole AnswersMatch
PROPERTIES CallsAnswerable Answered
CHECK_DEADLOCK FALSE
