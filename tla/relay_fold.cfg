SPECIFICATION Spec
CONSTANTS
  None = None
  s1 = s1
  v1 = v1
  v2 = v2
  k1 = k1
  Sids = {k1}
  Sources = {s1}
  Viewers = {v1, v2}
  FromSource = 1
  FromViewer = 0
  Aging = {s1, v1, v2}
  SidOf <- OneSid
  MaxChunks <- Chunks
SYMMETRY Interchangeable
INVARIANT
  OnlyNaturalDeathEndsSession
