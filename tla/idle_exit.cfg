SPECIFICATION Spec
CONSTANTS
  None = None
  Names = {a, b}
  Lazy = {a}
  Guarded = {a}
  Calls = {c1}
  Streams = {s1}
  Window = 1
  MaxRuns = 1
INVARIANT IdleExitIsClean
\* The process may have ended for good.
CHECK_DEADLOCK FALSE
