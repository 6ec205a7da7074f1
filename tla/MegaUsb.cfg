SPECIFICATION FairMegaSpec
CONSTANTS
  CommandLines <- MCCommandLines
  Text <- MCText
  File <- MCFile
  Block = 2
  MaxBlocks = 2
  Large = 3
  Ready = 3
  KeepsInput = FALSE
  MaxRuns = 3
  MaxAborts = 2
  MaxResets = 1
INVARIANT CommandTruth
PROPERTIES FailsForAReason MegaRunsEnd
CHECK_DEADLOCK FALSE
