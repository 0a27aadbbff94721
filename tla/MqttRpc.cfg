\* A call with a timeout and one without.
SPECIFICATION FairSpec
CONSTANTS
  c1 = c1  c2 = c2
  Calls = {c1, c2}
  Bounded = {c1}
  AckBounded = TRUE
  Deliveries <- DeliveriesOf
  Reaching = {c1}
  Garbled = {c1}
  NoCall = NoCall
INVARIANTS
  NoSleepOnVerdict
  NobodyStranded
PROPERTIES
  WorkerLeaves
  ImplementsRpcCall
\* Everyone may have returned and both ends be closed.
CHECK_DEADLOCK FALSE
