SPECIFICATION Spec
CONSTANTS
  Size = 3
  SmallWidth = 3
  SmallHeight = 3
  Inputs <- MCInputs
  Bounds <- MCBounds
INVARIANTS
  TypeOK
  NothingMissed
  ReportedMeet
  ThrowsAsPromised
  ListsAreMonotone
CHECK_DEADLOCK FALSE
