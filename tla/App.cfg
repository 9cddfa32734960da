SPECIFICATION Spec
CONSTANTS
  Wallets = {w1, w2}
  Electors = {w1, w2}
  Mints = {usdc, stock}
  Epochs = {0}
  Coins = {c1}
  Parts = {"meta"}
  FirstPages = {"explore", "election", "launch"}
  ChunkSize = 18
  MaxClicks = 5
  MaxRoutes = 3
  MaxTime = 2
  MaxNonce = 2
INVARIANTS
  SubmittedIsKept
  LaunchedLast
  TablesCover
PROPERTIES
  ScreenSettles
CHECK_DEADLOCK FALSE
