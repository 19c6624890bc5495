SPECIFICATION Spec
CONSTANTS
  GridSize = 3
  MaxPoints = 5
  Inputs <- MCInputs
  Bounds <- MCBounds
INVARIANTS
  TypeOK
  ThrowsExactlyForEqualPoints
  LimitsAreExact
  NothingMissed
  ExtraOnlyAtLeaf
CHECK_DEADLOCK FALSE
