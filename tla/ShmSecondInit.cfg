CONSTANTS
  Procs = {p1, p2}
  NoProc = NoProc
  Bases = {b1, b2}
  NoBase = NoBase
  Gone = Gone
  Names = {n1, n2}
  NoName = NoName
  MaxRegions = 2
  RefRange = 4
  HeapLen = 4
  Overrun = 1
  Sizes <- MCSizes
  Junk <- ZeroJunk
  MaxRefs = 1
  MaxExits = 0
SPECIFICATION Spec
INVARIANTS SegmentsDisjoint
CHECK_DEADLOCK FALSE
