SPECIFICATION Spec
CONSTANTS
  None = None
  Template = Template
  Lazy = FALSE
  PerSession = TRUE
  MaxGen = 1
  MaxLosses = 0
  MaxPanics = 0
  Removable = FALSE
  Clients = {c1, c2}
  Keys = {none}
  SessionID <- SharedId
  Rooted = {}
  Requests = {r1}
  Ids = {1, 2}
INVARIANTS
  OwnConnections
\* The clients may all have left and the generations be used up.
CHECK_DEADLOCK FALSE
