\* Two patient readers and a timed one, two racing close() calls, a queue of
\* two that overflows.
SPECIFICATION FairSpec
CONSTANTS
  p1 = p1  p2 = p2  t1 = t1  k1 = k1  k2 = k2
  Readers = {p1, p2, t1}
  Patient = {p1, p2}
  Closers = {k1, k2}
  MaxQueueSize = 2
  MaxFrames = 3
  NoReader = NoReader
INVARIANTS
  OneCloserProceeds
PROPERTIES
  ImplementsLossyFifo
  CallsReturn
  SleeperIsServed
\* After close() every thread may be done, or wait for ever.
CHECK_DEADLOCK FALSE
