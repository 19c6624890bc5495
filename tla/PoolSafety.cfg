SPECIFICATION AnsweredSpec
CONSTANTS
  NumHot = 1
  MaxTasks = 3
  MaxSpurious = 1
  Endless = {}
  Absent = Absent
  None = None
INVARIANTS
  BoardInv
  IdleIsExact
  AssignmentIsExact
  RemovedNeverRuns
  CanceledWasAsked
  InterruptionNeverReachesWait
  HotThreadsStay
  NoMissedWakeup
  QueueHasTaker
PROPERTY ImplementsBoard
CHECK_DEADLOCK FALSE
