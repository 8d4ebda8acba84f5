SPECIFICATION FairSpec
CONSTANTS
  None = None
  Names = {a, b}
  Lazy = {a}
  Guarded = {a}
  Calls = {c1}
  Streams = {s1}
  Window = 1
  MaxRuns = 2
INVARIANTS
  NoEarly404
PROPERTIES
  StrangersStartNothing
  FireSparesCalls
  IdleProcessEnds
  QueuedCallsAreServed
  ImplementsBootGate
\* The process may have ended for good.
CHECK_DEADLOCK FALSE
