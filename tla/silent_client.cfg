SPECIFICATION FairSpec
CONSTANTS
  None = None
  Template = Template
  Lazy = TRUE
  PerSession = TRUE
  MaxGen = 1
  MaxLosses = 0
  MaxPanics = 0
  Removable = FALSE
  Clients = {c1}
  Keys = {c1}
  SessionID <- OwnIds
  Rooted = {c1}
  Requests = {r1}
  Ids = {1, 2}
PROPERTIES
  EachRequestEnds
\* The clients may all have left and the generations be used up.
CHECK_DEADLOCK FALSE
