CONSTANTS
  NumCores = 2
  SlotsPerCore = 4
  WordBytes = 8
  MaxEvents = 3
  Requests = {1, 3}
  TbSize = 2
  MaxRetries = 5
  ServerEvents = 2
  LapSlots = 2
  LapBytes = 2
  LapEvents = 3
  LapRequests = {3}
SPECIFICATION MCSpec
INVARIANTS EventsRead LapsHarmless FileRight
PROPERTIES HostEnds
CHECK_DEADLOCK FALSE
