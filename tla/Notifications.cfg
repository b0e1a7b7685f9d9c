CONSTANTS
  GenModulus = 3
  ArenaCapacity = 2
  Bits = {b1, b2}
  MaxCreated = 5
SPECIFICATION NotificationSpec
INVARIANTS ArenaFreeListExact StaleOnlyAfterWrap WordIsOwn
