CONSTANTS
  Capacity = 4
  MaxDepth = 2
  GenModulus = 3
  MaxIssued = 5
  Objects = {o1}
  RightsInputs <- TwoRights
SPECIFICATION Spec
INVARIANTS FreeListExact TreeExact Attenuation HandlesNameOneCap WalksSucceed
PROPERTIES RefinesForest CallsReturn
