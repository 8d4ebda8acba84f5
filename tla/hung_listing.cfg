SPECIFICATION HangingSpec
CONSTANTS
  None = None
  Template = Template
  Lazy = TRUE
  PerSession = FALSE
  MaxGen = 1
  MaxLosses = 0
  MaxPanics = 0
  Removable = FALSE
  Clients = {c1, c2}
  Keys = {c1, c2}
  SessionID <- OwnIds
  Rooted = {}
  Requests = {r1, r2}
  Ids = {1, 2}
PROPERTIES
  NeverWedged
\* The clients may all have left and the generations be used up.
CHECK_DEADLOCK FALSE
