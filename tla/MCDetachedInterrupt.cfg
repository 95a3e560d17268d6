SPECIFICATION DetachSpec
CONSTANTS
  Proc = {f, w, c, d}
  Path = {lA}
  Handle = {h1, h2}
  Lockless = {}
  None = None
  Container = lA
  Login = {f}
  Writer = {w}
  Interrupts = TRUE
CHECK_DEADLOCK FALSE
INVARIANTS
  SessionLocked
