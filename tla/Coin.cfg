SPECIFICATION FairSpec
CONSTANTS
  Coins = {c1, c2}
  Configs = {k1, k2}
  Wallets = {w1}
  PayoutMints = {m1}
  Splits <- MCSplits
  MinSweeps = {1, 4}
  CreationFees = {1}
  Pauses <- MCPauses
  Overrides <- MCOverrides
  Accruals = {3}
  MaxAccrued = 6
  MaxPlatformAllowlist = 1
  None = None
INVARIANTS
  TypeOK
  FeesAccounted
  SharesAddUp
  GraduatedOnOwnPool
PROPERTIES
  SplitRespected
  OneWayLife
  FeesArrive
CHECK_DEADLOCK FALSE
