SPECIFICATION Spec
CONSTANTS
  Coins = {c1}
  Configs = {k1}
  Wallets = {w1}
  PayoutMints = {m1}
  Splits <- MCSplits
  MinSweeps = {1}
  CreationFees = {1}
  Pauses <- MCPauses
  Overrides <- MCOverrides
  Accruals = {3}
  MaxAccrued = 6
  MaxPlatformAllowlist = 1
  None = None
INVARIANTS
  NoFeeLeftBehind
CHECK_DEADLOCK FALSE
