SPECIFICATION FairSpec
CONSTANTS
  None = None
  toolA = toolA
  toolB = toolB
  prompt = prompt
  Items = {toolA, toolB, prompt}
  KindOf <- MCKindOf
  PageOf <- MCPageOf
  NumKinds = 2
  NumPages = 2
  Blocked = {prompt}
  Malformed = {toolB}
  Workers = {w1, w2}
  Flaky = FALSE
  MaxConns = 3
  MaxChanges = 1
PROPERTIES
  NeverWithdrawn
  EventuallyOffered
  EventuallyExact
\* The bounds on connections and changes may be reached.
CHECK_DEADLOCK FALSE
