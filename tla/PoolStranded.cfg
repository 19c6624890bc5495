SPECIFICATION Spec
CONSTANTS
  NumHot = 0
  MaxTasks = 2
  MaxSpurious = 0
  Endless = {}
  Absent = Absent
  None = None
INVARIANT QueueHasTaker
CHECK_DEADLOCK FALSE
