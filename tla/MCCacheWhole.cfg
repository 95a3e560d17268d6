SPECIFICATION Spec
CONSTANTS
  Proc = {p1, p2}
  Ref = {r1, r2}
  b = b
  Base = {b}
  Made = {x}
  Served <- MCServed
  Instr = {i, j}
  MaxLayers = 1
  Overlap = {}
  Damage = FALSE
  None = None
SYMMETRY Symmetry
INVARIANT BuiltImageWhole
PROPERTY RecordsKept
VIEW Readable
