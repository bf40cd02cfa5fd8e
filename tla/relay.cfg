SPECIFICATION FairSpec
CONSTANTS
  None = None
  s1 = s1
  v1 = v1
  v2 = v2
  k1 = k1
  Sids = {k1}
  Sources = {s1}
  Viewers = {v1, v2}
  FromSource = 2
  FromViewer = 0
  Aging = {s1}
  SidOf <- OneSid
  MaxChunks <- Chunks
INVARIANTS
  TypeOK
  NoZombieSession
  NoOrphanReader
  CurrentClosedOnlyByLoneTimer
  SameSessionOnly
  NothingLost
  InOrderOnce
PROPERTIES
  ClosedReaderReturns
  LoneConnectionResolved
  DeathClosesPeer
CHECK_DEADLOCK FALSE
