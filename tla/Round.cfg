SPECIFICATION Spec
CONSTANTS
  wsol = wsol
  usdc = usdc
  stock = stock
  Mints = {wsol, usdc, stock}
  wsolMint = wsol
  usdcMint = usdc
  defaultPayoutMint = stock
  Wallets = {1, 2, 3}
  Electors = {1, 2}
  Epochs = {0}
  MaxNonce = 1
  Weighings <- MCWeighings
  Supply = 100
  CapBps = 300
  minShareLamports = 1
  epochSeconds = 1
  FirstList = {wsol, usdc, stock}
  Surveys <- MCSurveys
  Limits <- MCLimits
  Degrading = {stock, usdc}
  MaxTime = 1
  MaxFees = 3
  MaxCrashes = 1
INVARIANTS
  FileVerifies
  ProofsVerify
  FitsFrozen
  Swappable
  PublishedIsPaid
CHECK_DEADLOCK FALSE
