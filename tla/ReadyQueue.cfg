CONSTANTS
  QueueCapacity = 3
  NoTask = NoTask
  Handles = {t1, t2, t3}
SPECIFICATION QueueSpec
INVARIANT QueueIsFifo
