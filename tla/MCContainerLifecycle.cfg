SPECIFICATION Spec
CONSTANTS
  Proc = {p1, p2}
  Name = {1, 2}
  Image = {i1, i2}
  Plain = {}
  Old = {1}
  Legacy = Legacy
  Faults = {"kill", "io", "abort"}
  None = None
SYMMETRY Symmetry
CHECK_DEADLOCK FALSE
INVARIANTS
  ManifestNamesRootfs
  SessionSeesWhole
PROPERTIES
  SessionUndisturbed
  DestroyedOnlyOnRequest
