SPECIFICATION MCSpec
CONSTANTS
  IdCols = 4
  ChipDb <- MCChipDb
  Window = 8
  Sram = 2
  RegR0 = 6
  Regs = 2
  EBase = 200
  PBase = 300
  ESize = 4
  Page = 2
  Targets = {"native", "esim", "pal"}
  HdfFiles <- MCHdfFiles
  Device <- MCDevice
  Shapes <- MCShapes
  Buffers <- MCBuffers
  SrecFiles <- MCSrecFiles
  MaxWrites = 2
  MaxFaults = 1
  MaxOpens = 3
  CopyAddresses = {0, 1, 2, 3, 4, 5, 6, 7}
  CopySizes = {0, 1, 2, 3, 4, 5, 6, 7, 8, 9, 10, 11}
  Executables <- MCExecutables
  CoreSpace = 64
  CoreIds = {2}
  MaxAway = 8
INVARIANTS ReadsBack NothingHeld CoresNamed CopiesRight
CHECK_DEADLOCK FALSE
