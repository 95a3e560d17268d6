SPECIFICATION Spec
CONSTANTS
  Pid = {p1, p2, p3, p4}
  Root = p1
  First = p2
  Signals = {"TERM", "KILL", "STOP"}
  None = None
SYMMETRY Symmetry
CHECK_DEADLOCK FALSE
INVARIANTS
  TerminatedMeansGone
PROPERTIES
  OnlySessionSignalled
