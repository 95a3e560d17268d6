SPECIFICATION Spec
CONSTANTS
  Proc = {p1, p2}
  Ref = {r1}
  b = b
  Base = {b}
  Made = {x}
  Served <- MCServed
  Instr = {i}
  MaxLayers = 1
  Overlap = {"sweep", "remove", "clear"}
  Damage = TRUE
  None = None
SYMMETRY Symmetry
INVARIANTS TypeOK OnlyVerifiedContent
