SPECIFICATION Spec
CONSTANTS
  None = None
  Broken = Broken
  a = a
  b = b
  eager = eager
  lazy = lazy
  critical = critical
  off = off
  Names = {a, b}
  Cfgs = {eager, lazy, critical, off}
  Files <- MCFiles
  Disabled = {off}
  Lazy = {lazy}
  Critical = {critical}
  Faulty = {}
  MaxEdits = 0
  MaxHups = 0
INVARIANT AllTornDown
\* The process may exit.
CHECK_DEADLOCK FALSE
