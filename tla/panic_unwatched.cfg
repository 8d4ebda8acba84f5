SPECIFICATION FairSpec
CONSTANTS
  None = None
  Template = Template
  Lazy = FALSE
  PerSession = FALSE
  MaxGen = 1
  MaxLosses = 2
  MaxPanics = 1
  Removable = FALSE
  Clients = {c1}
  Keys = {c1}
  SessionID <- OwnIds
  Rooted = {}
  Requests = {r1}
  Ids = {1, 2}
PROPERTIES
  TemplateReconnects
\* The clients may all have left and the generations be used up.
CHECK_DEADLOCK FALSE
