SPECIFICATION FairProSpec
CONSTANTS
  ProLines <- MCLines
  ProFile <- MCFile
  Memory <- MCMemory
  MaxRuns = 3
  MaxAborts = 1
INVARIANT Landed
PROPERTIES RunsInStep RunsEnd
CHECK_DEADLOCK FALSE
