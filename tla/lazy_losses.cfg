SPECIFICATION Spec
CONSTANTS
  None = None
  Template = Template
  Lazy = TRUE
  PerSession = FALSE
  MaxGen = 1
  MaxLosses = 2
  MaxPanics = 1
  Removable = FALSE
  Clients = {c1, c2}
  Keys = {c1, c2}
  SessionID <- OwnIds
  Rooted = {}
  Requests = {r1, r2}
  Ids = {1, 2, 3}
INVARIANTS
  OneBackendPerGeneration
  TemplateIsTended
\* The clients may all have left and the generations be used up.
CHECK_DEADLOCK FALSE
