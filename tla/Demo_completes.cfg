CONSTANTS
  GenModulus = 2
  Callers <- ThreeTasks
  QueueCapacity = 3
  NoTask = NoTask
  EpCapacity = 1
  TableCapacity = 2
  NoCap = NoCap
  NoHandle = NoHandle
  NoEp = NoEp
  InitTables <- DemoTables
  NewRights <- NewRightsAll
  MaxReuse = 0
  FirstFresh = 10
  MaxSent = 2
  A = 0
  B = 1
  IdleTask = 2
  CapA = 1
  CapB = 2
  WakeSource = FALSE
SPECIFICATION DemoSpec
PROPERTY DemoCompletes
CHECK_DEADLOCK FALSE
