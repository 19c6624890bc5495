SPECIFICATION Spec
CONSTANTS
  NumHot = 1
  MaxTasks = 1
  MaxSpurious = 0
  Endless = {}
  Absent = Absent
  None = None
PROPERTY CleanupEnds
CHECK_DEADLOCK FALSE
