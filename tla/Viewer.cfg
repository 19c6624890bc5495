SPECIFICATION Spec
CONSTANTS
  Points <- MCPoints
  MaxSegments = 2
  None = None
INVARIANTS
  TypeOK
  StructureIsCurrent
  OneGesture
PROPERTY HighlightsFollow
CHECK_DEADLOCK FALSE
