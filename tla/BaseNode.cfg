\* Two racing start(), two racing terminate(), pauses and a resume(); setup() may throw.
SPECIFICATION FairSpec
CONSTANTS
  s1 = s1
  s2 = s2
  k1 = k1
  k2 = k2
  r1 = r1
  Starters = {s1, s2}
  Terminators = {k1, k2}
  Patient = {k1}
  Resumers = {r1}
  MaxPauses = 2
  SetupThrows = TRUE
INVARIANTS
  OneStart
  PauseStopsProcessing
  NothingRunsAfterExit
PROPERTIES
  TerminateReturns
  ResumedNodeWakes
\* A node that has exited stops.
CHECK_DEADLOCK FALSE
