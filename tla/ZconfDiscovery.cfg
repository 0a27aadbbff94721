\* One peer that comes, goes and comes back elsewhere; one caller.
SPECIFICATION FairSpec
CONSTANTS
  UPPER = UPPER
  lower = lower
  r1 = r1
  a1 = a1
  a2 = a2
  Ids = {UPPER, lower}
  Peers = {UPPER}
  Lower <- MCLower
  Addresses = {a1, a2}
  Resolvers = {r1}
  Target <- MCTarget
  MaxChanges = 3
  MaxUnderWay = 2
INVARIANTS
  ParkedForUnknownHostOnly
  GoneUntilHeard
  NoSleepOnResolved
PROPERTIES
  ResolveReturns
  AdvertisedIsFound
\* A closed discovery is silent.
CHECK_DEADLOCK FALSE
