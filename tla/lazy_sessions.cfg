SPECIFICATION Spec
CONSTANTS
  None = None
  Template = Template
  Lazy = TRUE
  PerSession = TRUE
  MaxGen = 1
  MaxLosses = 0
  MaxPanics = 0
  Removable = TRUE
  Clients = {c1, c2}
  Keys = {c1, c2}
  SessionID <- OwnIds
  Rooted = {}
  Requests = {r1, r2}
  Ids = {1, 2}
SYMMETRY Symmetry
INVARIANTS
  NoneStranded
  ConnectedHasTemplate
  CallsStayApart
PROPERTIES
  ImplementsPool
\* The clients may all have left and the generations be used up.
CHECK_DEADLOCK FALSE
