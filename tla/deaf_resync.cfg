SPECIFICATION FairSpec
CONSTANTS
  None = None
  toolA = toolA
  toolB = toolB
  prompt = prompt
  Items = {toolA}
  KindOf <- MCKindOf
  PageOf <- MCPageOf
  NumKinds = 1
  NumPages = 1
  Blocked = {}
  Malformed = {}
  Workers = {w1, w2}
  Flaky = FALSE
  MaxConns = 3
  MaxChanges = 1
PROPERTY Resyncs
\* The bounds on connections and changes may be reached.
CHECK_DEADLOCK FALSE
