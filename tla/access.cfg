SPECIFICATION Spec
CONSTANTS
  None = None
  Broken = Broken
  Null = Null
  Proxy = Proxy
  NotFound = NotFound
  NoMatcher = NoMatcher
  NoRepo = NoRepo
  NoHost = NoHost
  NoPort = NoPort
  NoPath = NoPath
  a = a
  b = b
  c = c
  t1 = t1
  t2 = t2
  k1 = k1
  k2 = k2
  plain = plain
  off = off
  repo = repo
  url = url
  host = host
  blank = blank
  main = main
  tree = tree
  other = other
  away = away
  R1 = R1
  R2 = R2
  h1 = h1
  h2 = h2
  p1 = p1
  org = org
  Names = {a, b, c}
  Tools = {t1, t2}
  Tokens = {k1, k2}
  Owns = {plain, off, repo, url, host, blank}
  Disabled = {off}
  Lazy = {url}
  Dirs = {main, tree, other, away}
  Repos = {R1, R2}
  Rules <- MCRules
  Files <- MCFiles
  Segments <- MCSegments
  Patterns <- MCPatterns
  Length <- MCLength
  Point <- MCPoint
  RepoAt <- MCRepoAt
  Urls <- MCUrls
  Remotes <- MCRemotes
  WhitelistOf <- MCWhitelistOf
  Clients <- MCClients
INVARIANTS LoadedIsEffective AnsweredAsConfigured ShownOnlyToMembers MembersAreShown
PROPERTIES RestartsFollowMeaning

