SPECIFICATION PicoSpec
CONSTANTS
  MaxResets = 2
  LastAgain = 14
INVARIANTS TestsPass ConsoleReady
