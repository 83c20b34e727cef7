CONSTANTS
  HeapLen = 8
  Overrun = 1
  Sizes <- MCSizes
  Junk <- MCJunk
SPECIFICATION Spec
PROPERTIES ChunksDisjoint
CHECK_DEADLOCK FALSE
