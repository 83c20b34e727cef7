CONSTANTS
  BlockLen = 2
  NumSlots = 4
  Overrun = 1
  HeapLen <- MCHeapLen
  Sizes <- MCSizes
  Junk <- MCJunk
  p1 = p1
  NoProc = NoProc
  b1 = b1
  NoBase = NoBase
  Gone = Gone
  n1 = n1
  n2 = n2
  n3 = n3
  NoName = NoName
SPECIFICATION MCSpec
PROPERTIES ChunksDisjoint NoFalseFailure SegmentsDisjoint CallsEnd
CHECK_DEADLOCK FALSE
