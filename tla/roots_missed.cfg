SPECIFICATION Spec
CONSTANTS
  None = None
  URIs = {a, b}
  Handlers = {h1}
  RootsUsable = TRUE
  Dials = {d1}
  MaxChanges = 1
  MaxTeardowns = 0
INVARIANTS StaysCorrect
\* The requests may all be served and the changes used up.
CHECK_DEADLOCK FALSE
