SPECIFICATION FairControlSpec
CONSTANTS
  Buffers <- MCBuffers
  RxEps = 2
  PacketSize = 2
  TxLimit = 1
  MaxOut = 3
  MaxWrites = 2
  MaxPrint = 2
  MaxResets = 1
  Requests <- MCRequests
  Descriptors <- MCDescriptors
  EP0Size = 2
  NumEndpoints = 6
  MaxRequests = 2
INVARIANTS OneOwner FlushHasPacket BanksAgree ControlInStep
PROPERTIES Received BuffersKept Flushed
CHECK_DEADLOCK FALSE
