CONSTANTS
  GenModulus = 2
  Callers <- ThreeTasks
  QueueCapacity = 3
  NoTask = NoTask
  EpCapacity = 1
  TableCapacity = 2
  NoCap = NoCap
  NoHandle = NoHandle
  NoEp = NoEp
  InitTables <- TwoReceivers
  NewRights <- NewRightsAll
  MaxReuse = 0
  FirstFresh = 10
  MaxSent = 2
SPECIFICATION Spec
INVARIANT ResumeFindsMessage
