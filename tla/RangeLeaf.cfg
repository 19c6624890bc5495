SPECIFICATION Spec
CONSTANTS
  GridSize = 2
  MaxPoints = 2
  Inputs <- MCInputs
  Bounds <- MCBounds
INVARIANT ReportedAreInWindow
CHECK_DEADLOCK FALSE
