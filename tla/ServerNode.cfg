\* Two workers, two requests, a node that may start paused and a terminate() at
\* any time.
SPECIFICATION FairServerSpec
CONSTANTS
  s1 = s1
  k1 = k1
  w1 = w1
  w2 = w2
  q1 = q1
  q2 = q2
  IO = IO
  NoRequest = NoRequest
  Starters = {s1}
  Terminators = {k1}
  Patient = {k1}
  Resumers = {}
  MaxPauses = 0
  SetupThrows = TRUE
  Workers = {w1, w2}
  Requests = {q1, q2}
INVARIANTS
  AckedIsHeld
PROPERTIES
  ImplementsRpcService
  TerminateReturns
  AckedIsServed
\* A node that has exited stops.
CHECK_DEADLOCK FALSE
