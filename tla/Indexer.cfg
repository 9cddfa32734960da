SPECIFICATION FairSpec
CONSTANTS
  a = a
  b = b
  pool = pool
  Wallets = {a, b, pool}
  Pools = {pool}
  LastSlot = 3
  Chains <- MCChains
  MaxTime = 3
  MaxCrashes = 1
  MaxDetours = 1
INVARIANTS
  AgedTrue
  Acknowledged
  FileFollowsMemory
PROPERTIES
  CatchesUp
CHECK_DEADLOCK FALSE
