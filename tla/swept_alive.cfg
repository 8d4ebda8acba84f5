SPECIFICATION Spec
CONSTANTS
  None = None
  Template = Template
  Lazy = FALSE
  PerSession = TRUE
  MaxGen = 1
  MaxLosses = 0
  MaxPanics = 0
  Removable = FALSE
  Clients = {c1}
  Keys = {c1}
  SessionID <- OwnIds
  Rooted = {}
  Requests = {r1, r2}
  Ids = {1, 2}
PROPERTIES
  SweepSparesLive
\* The clients may all have left and the generations be used up.
CHECK_DEADLOCK FALSE
