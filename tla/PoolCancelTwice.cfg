SPECIFICATION Spec
CONSTANTS
  NumHot = 1
  MaxTasks = 1
  MaxSpurious = 0
  Endless = {}
  Absent = Absent
  None = None
PROPERTY RemovalsAreFromQueue
CHECK_DEADLOCK FALSE
