SPECIFICATION PadsSpec
CONSTANTS
  Games <- MCGames
  Modes <- MCAllModes
  Players <- MCTwoPlayers
  MaxReports = 2
  MaxSwitches = 2
  MaxTime = 4
  MaxEdges = 8
  MaxPolls = 3
INVARIANTS SixButtonRead AckedNibble
PROPERTIES ReportsForward
CHECK_DEADLOCK FALSE
