SPECIFICATION Spec
CONSTANTS
  NumHot = 1
  MaxTasks = 2
  MaxSpurious = 1
  Endless = {0}
  Absent = Absent
  None = None
PROPERTIES
  TasksAreServed
  TerminatedTasksEnd
  WorkersRetire
  ToldThreadsLeave
CHECK_DEADLOCK FALSE
