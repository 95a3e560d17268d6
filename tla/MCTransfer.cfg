SPECIFICATION Spec
CONSTANTS
  MaxRetries = 2
  MaxHops = 2
  None = None
  l1 = l1
  l2 = l2
  Layers <- MCLayers
  Layer = {l1, l2}
  Config = config
INVARIANTS CredentialsStayHome TlsKept DownloadAtomic TagWhole
PROPERTY CommandEnds
CHECK_DEADLOCK FALSE
