SPECIFICATION UsbSpec
CONSTANTS
  Buffers = {1, 2, 3, 4, 5, 6}
  RxEps = 2
  PacketSize = 2
  TxLimit = 1
  MaxOut = 3
  MaxWrites = 2
  MaxPrint = 3
  MaxResets = 1
INVARIANT StarvingIsCounted
CHECK_DEADLOCK FALSE
