SPECIFICATION EditorSpec
CONSTANTS
  Base = 2
  AddrBytes = 2
  Row = 4
  Rows = 2
  OffMod = 32
  Under = 24
  RepeatAt = 2
  Nib = 4
  Predef <- MCPredef
  Region <- MCRegion
  Mars = "on"
  Inputs <- MCInputs
INVARIANTS CursorOnScreen
PROPERTIES CursorTracks ConfirmedOnly
CHECK_DEADLOCK FALSE
