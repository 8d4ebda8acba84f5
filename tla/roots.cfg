SPECIFICATION FairSpec
CONSTANTS
  None = None
  URIs = {a, b}
  Handlers = {h1}
  RootsUsable = TRUE
  Dials = {d1, d2}
  MaxChanges = 2
  MaxTeardowns = 1
INVARIANTS MirrorMatches KeptRootsStay MirrorIsCurrent
PROPERTIES ChangesReachUpstream
\* The requests may all be served and the changes used up.
CHECK_DEADLOCK FALSE
