CONSTANTS
  GenModulus = 2
  Callers <- TwoTasks
  QueueCapacity = 2
  NoTask = NoTask
  EpCapacity = 2
  TableCapacity = 2
  NoCap = NoCap
  NoHandle = NoHandle
  NoEp = NoEp
  InitTables <- NoIdle
  NewRights <- NewRightsAll
  MaxReuse = 0
  FirstFresh = 10
  MaxSent = 1
SPECIFICATION Spec
PROPERTY RetryAfterDeadlock
