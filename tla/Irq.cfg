CONSTANTS
  Nanos = 3
  MaxWord = 15
  Tasks = {t1, t2}
  Deadlines = {1, 2, 4}
  Freq = 2
  RegWidth = 2
  ItLinesField = 1
  TimerIrq = 1
  TasksUnmask = TRUE
  MaxCount = 3
SPECIFICATION FairSpec
INVARIANTS TypeOK VectorsBeforeIrqs NoUnhandledIrq AcknowledgedIsEnded NeverEarly FiresOnce
  CancelledStaysQuiet MaskIsPerTask SwitchIsMasked RegistersSurvive
PROPERTY DeliveredIfUnmasked
CHECK_DEADLOCK FALSE
