SPECIFICATION DetachSpec
CONSTANTS
  Proc = {f, g, w, c, d}
  Path = {lA}
  Handle = {h1, h2}
  Lockless = {}
  None = None
  Container = lA
  Login = {f, g}
  Writer = {w}
  Interrupts = TRUE
VIEW Unrecorded
CHECK_DEADLOCK FALSE
INVARIANTS
  LockLostOnlyByInterrupt
  ReportHonest
PROPERTIES
  ForegroundReturns
