SPECIFICATION FairMailboxSpec
CONSTANTS
  Calls <- MCCalls
  Garbage <- MCGarbage
  Cell <- MCCell
  MaxCalls = 2
  MaxVsyncs = 1
INVARIANTS OnceAsAsked ReturnIsTrue
PROPERTY CallsEnd
