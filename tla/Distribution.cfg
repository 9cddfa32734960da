SPECIFICATION FairSpec
CONSTANTS
  Drivers = {d1, d2}
  RecipientCount = 5
  BatchSize = 2
  Share <- MCShare
  AmountOut = 7
  MaxCrashes = 2
INVARIANTS
  PaidInOrder
  TallyMatches
PROPERTIES
  PaysOnce
  ReturnsWhenPaid
  EveryonePaid
