CONSTANTS
  Nanos = 3
  MaxWord = 15
  Tasks = {t1, t2}
  Deadlines = {1, 2, 4}
  Freq = 2
  RegWidth = 2
  ItLinesField = 1
  TimerIrq = 1
  TasksUnmask = FALSE
  MaxCount = 3
SPECIFICATION FairSpec
CHECK_DEADLOCK FALSE
PROPERTY DeadlineDelivered
