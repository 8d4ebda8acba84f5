SPECIFICATION FairSpec
CONSTANTS
  None = None
  Broken = Broken
  a = a
  b = b
  eager = eager
  lazy = lazy
  critical = critical
  off = off
  Names = {a, b}
  Cfgs = {eager, lazy, critical, off}
  Files <- MCFiles
  Disabled = {off}
  Lazy = {lazy}
  Critical = {critical}
  Faulty = {eager}
  MaxEdits = 2
  MaxHups = 1
INVARIANTS
  RoutesAreLive
  RoutesAreManaged
  OneInstance
  ReportIsTrue
PROPERTIES
  BecomesReady
  ChangesAreServed
  HupsAreServed
  ImplementsTable
  ImplementsBootGate
  CloseAllMissesOnlyBusy
\* The process may exit.
CHECK_DEADLOCK FALSE
