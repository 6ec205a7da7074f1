SPECIFICATION FairTransferSpec
CONSTANTS
  Nibble <- MCNibble
  Addr <- MCAddr
  Requests <- MCRequests
  VramBytes = 2
  LoadBytes = 2
  LoadRegs = 3
  MaxRuns = 2
  MaxAborts = 1
  MaxResets = 1
  PcPrompt = TRUE
  MdPrompt = TRUE
  DelayOk = TRUE
INVARIANTS CommandDone NoTransferContention
PROPERTIES AckIsFresh RunsEnd
CHECK_DEADLOCK FALSE
