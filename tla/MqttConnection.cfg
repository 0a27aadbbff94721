\* Two registrations of one thread for one filter, one of another thread.
SPECIFICATION FairSpec
CONSTANTS
  h1 = h1  h2 = h2  h3 = h3
  t1 = t1  t2 = t2
  Filters <- MCFilters
  Topics <- MCTopics
  Handles = {h1, h2, h3}
  FilterOf <- MCFilterOf
  Threads = {t1, t2}
  Owner <- Exclusive
  MaxDrops = 2
  MaxArriving = 1
  CameUp = CameUp
INVARIANT
  SubscribedWhenQuiet
PROPERTY
  RegisteredIsSubscribed
\* Everyone may have left, with the connection up or down.
CHECK_DEADLOCK FALSE
