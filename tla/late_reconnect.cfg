SPECIFICATION Spec
CONSTANTS
  None = None
  Template = Template
  Lazy = TRUE
  PerSession = FALSE
  MaxGen = 1
  MaxLosses = 1
  MaxPanics = 0
  Removable = FALSE
  Clients = {c1}
  Keys = {c1}
  SessionID <- OwnIds
  Rooted = {}
  Requests = {r1}
  Ids = {1, 2}
INVARIANTS
  NilAfterTeardown
\* The clients may all have left and the generations be used up.
CHECK_DEADLOCK FALSE
