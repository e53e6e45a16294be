\* After MaxPuts characters nothing is left to draw.
CHECK_DEADLOCK FALSE
SPECIFICATION Spec
CONSTANTS
  ROWS = 2
  COLS = 2
  Echoers = {e1, e2}
  Writer = w
  Letters = {"a"}
  MaxPuts = 5
  MaxOverlaps = 2
SYMMETRY EchoSymmetry
INVARIANTS
  ScreenIsTerminal
  CursorNearScreen
  EraseStaysOnScreen
