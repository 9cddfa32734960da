SPECIFICATION Spec
CONSTANTS
  alice = alice
  bob = bob
  coin1 = coin1
  People = {alice, bob}
  Deployer = alice
  Mints <- MCMints
  Configs <- MCConfigs
  Coins = {coin1}
  Outset = {0, 1, 2, 3, 4}
  Venues <- MCVenues
  MaxSent = 3
  MaxFlight = 2
  MaxEpoch = 1
INVARIANTS
  AcceptedWhenFresh
PROPERTIES
  AsTheAdminMeant
CHECK_DEADLOCK FALSE
