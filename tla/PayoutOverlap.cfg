SPECIFICATION RoundsSpec
CONSTANTS
  WSOL = WSOL
  Mints = {WSOL, m1}
  MaxEpoch = 1
  LaunchTs = 0
  MaxTime = 2
  MaxBalance = 2
  Amounts = {1, 2}
  Quotes = {1}
  Counts = {0, 1, 2}
  BucketCounts = {1}
  PauseFlags = {FALSE}
  EditedMints = {}
  Seconds = {1}
  SlippageBps = {100}
  MaxAllowlist = 2
INVARIANT NothingDoubleSpent
CHECK_DEADLOCK FALSE
