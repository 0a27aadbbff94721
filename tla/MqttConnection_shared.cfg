\* The registrations for one filter belong to two threads.
SPECIFICATION Spec
CONSTANTS
  h1 = h1  h2 = h2  h3 = h3
  t1 = t1  t2 = t2
  Filters <- MCFilters
  Topics <- MCTopics
  Handles = {h1, h2, h3}
  FilterOf <- MCFilterOf
  Threads = {t1, t2}
  Owner <- Shared
  MaxDrops = 2
  MaxArriving = 1
  CameUp = CameUp
INVARIANT
  SubscribedWhenQuiet
CHECK_DEADLOCK FALSE
