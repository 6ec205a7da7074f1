SPECIFICATION FairFlasherSpec
CONSTANTS
  Requests <- MCRequests
  Table <- MCTable
  FlashUnits = 8
  RamUnits = 2
  Block = 2
  RamBlock = 1
  CountMax = 2
  MaxFails = 2
  MaxShorts = 1
INVARIANTS ProgrammedErased  EvenAfterSuccess
PROPERTIES RunEnds
