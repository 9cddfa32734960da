SPECIFICATION Spec
CONSTANTS
  a = a
  b = b
  pool = pool
  Wallets = {a, b, pool}
  Pools = {pool}
  LastSlot = 3
  Chains <- MCChains
  MaxTime = 3
  MaxCrashes = 1
  MaxDetours = 0
INVARIANTS
  ReplayIdempotent
CHECK_DEADLOCK FALSE
