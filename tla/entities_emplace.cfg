SPECIFICATION WalksSpec
CONSTANTS
  MaxEntities = 3
  Versions = 3
  PoolCount = 2
  MaxCreated = 3
  MaxDepth = 2
INVARIANTS EmplaceReturnsOwn
CHECK_DEADLOCK FALSE
