SPECIFICATION FairHostSpec
CONSTANTS
  Args <- MCArgs
  Places <- MCPlaces
  Modes <- MCModes
  Budgets <- MCBudgets
INVARIANTS PendingTruth InSync
PROPERTIES PacketStable ChangeIsSent
CHECK_DEADLOCK FALSE
