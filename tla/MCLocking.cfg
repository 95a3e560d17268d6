SPECIFICATION Spec
CONSTANTS
  Proc = {p1, p2, p3}
  Path = {lA, lB}
  Handle = {h1, h2, h3}
  Lockless = {lB}
  None = None
SYMMETRY Symmetry
CHECK_DEADLOCK FALSE
INVARIANTS
  CriticalExclusion
  HeldTracksFlock
  RecordNamesHolder
PROPERTIES
  LostOnlyByOwner
  ImplementsReadersWriterLock
