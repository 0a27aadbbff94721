\* Two writers, two racing close() calls, a queue of two that overflows.
SPECIFICATION FairSpec
CONSTANTS
  w1 = w1  w2 = w2  k1 = k1  k2 = k2
  Writers = {w1, w2}
  Closers = {k1, k2}
  MaxQueueSize = 2
  MaxFrames = 4
INVARIANTS
  CloseFlushes
PROPERTIES
  ImplementsLossyFifo
  CloseReturns
  QueueDrains
\* After close() every thread may be done, or wait for ever.
CHECK_DEADLOCK FALSE
