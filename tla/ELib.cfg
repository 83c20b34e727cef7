SPECIFICATION MCSpec
CONSTANTS
  Cores <- MCCores
  CoreId <- MCCoreId
  ShmNames = {"a", "b"}
  ShmSegments = {"s", "t"}
  ShmSlots = 2
  ShmAllocs = 4
  OneIrqs = {4, 9}
  OneRoutines <- MCRoutines
  OneRequests <- MCRequests
  OneCountMod = 4
  OneClicks = 1
  OneCalls = 2
  OneSets = 1
  IdCols = 8
  IdWindow = 4
  IdEmem = 200
  IdGroups <- MCGroups
  DmaCores = {1, 2, 3}
  DmaTracers = {2}
  DmaRing = 3
  DmaSlots = 5
  DmaEvents = 5
  DmaCounts = {2}
  FieldSize <- MCFieldSize
  Samples <- MCSamples
INVARIANTS MutualExclusion CopiesRight RegistersRight  TracingRight
PROPERTIES SomeoneEnters SameCells Returns
CHECK_DEADLOCK FALSE
