SPECIFICATION Spec
CONSTANTS
  Proc = {p1, p2}
  Name = {1, 2}
  Image = {i1, i2}
  Plain = {}
  Old = {}
  Legacy = Legacy
  Faults = {}
  None = None
SYMMETRY Symmetry
CHECK_DEADLOCK FALSE
PROPERTIES
  ActsOnRecordedImage
