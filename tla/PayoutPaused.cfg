SPECIFICATION Spec
CONSTANTS
  WSOL = WSOL
  Mints = {WSOL, m1}
  MaxEpoch = 0
  LaunchTs = 0
  MaxTime = 2
  MaxBalance = 2
  Amounts = {1, 2}
  Quotes = {1}
  Counts = {0, 1, 2}
  BucketCounts = {1}
  PauseFlags = {FALSE, TRUE}
  EditedMints = {}
  Seconds = {1}
  SlippageBps = {100}
  MaxAllowlist = 2
PROPERTY PausedStopsDistribution
CHECK_DEADLOCK FALSE
