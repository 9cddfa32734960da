SPECIFICATION RoundsSpec
CONSTANTS
  WSOL = WSOL
  Mints = {WSOL, m1}
  MaxEpoch = 1
  LaunchTs = 0
  MaxTime = 2
  MaxBalance = 2
  Amounts = {1, 2}
  Quotes = {1}
  Counts = {0, 1, 2}
  BucketCounts = {1}
  PauseFlags = {FALSE}
  EditedMints = {m1}
  Seconds = {1}
  SlippageBps = {100}
  MaxAllowlist = 2
INVARIANTS
  TypeOK
  SpentMatchesBuckets
  BucketsWithinBounds
  CompletionCounted
  OutputsBacked
  RoundFunded
  WsolConserved
  BucketsFollowSnapshot
PROPERTIES
  KeepsPromise
  RecordsFrozen
CHECK_DEADLOCK FALSE
