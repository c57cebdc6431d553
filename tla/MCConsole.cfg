SPECIFICATION Spec
CONSTANTS
  Proc = {p1, p2}
  INPUT_BUF = 2
  UINT = 4
  COLS = 2
  ROWS = 2
  Sizes = {3}
SYMMETRY Symmetry
INVARIANTS SleepJustified NoStuckModifier
PROPERTIES CursorOK ImplementsTty
CHECK_DEADLOCK FALSE
