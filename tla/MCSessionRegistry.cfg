SPECIFICATION Spec
CONSTANTS
  Session = {s1, s2, s3}
  Pid = {p1, p2}
  Reader = {r1, r2}
  MaxErrors = 1
  None = None
SYMMETRY Symmetry
CHECK_DEADLOCK FALSE
INVARIANTS
  StaysListed
  ListingComplete
PROPERTIES
  ReportedLive
