SPECIFICATION FairSpec
CONSTANTS
  None = None
  toolA = toolA
  toolB = toolB
  prompt = prompt
  Items = {toolA, toolB}
  KindOf <- MCKindOf
  PageOf <- MCPageOf
  NumKinds = 1
  NumPages = 2
  Blocked = {}
  Malformed = {}
  Workers = {w1}
  Flaky = FALSE
  MaxConns = 2
  MaxChanges = 1
PROPERTY StaysInSync
\* The bounds on connections and changes may be reached.
CHECK_DEADLOCK FALSE
