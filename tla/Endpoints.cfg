CONSTANTS
  GenModulus = 8
  Callers <- TwoCallers
  EpCapacity = 2
  TableCapacity = 3
  NoCap = NoCap
  NoHandle = NoHandle
  Owners <- FirstCaller
  EpRights <- BothWays
  MaxCreated = 2
  MaxSent = 2
  MaxCaps = 7
SPECIFICATION Spec
INVARIANTS TypeOK ExactlyOnce
PROPERTIES AuthorityConserved RefusalChangesNothing RefinesChannels
CHECK_DEADLOCK FALSE
