SPECIFICATION FairSpec
CONSTANTS
  Nil = Nil
  k1 = k1
  k2 = k2
  p1 = p1
  p2 = p2
  r1 = r1
  r2 = r2
  Keys = {k1}
  Procs = {p1, p2}
  Reqs = {r1}
  MaxChanges = 3
  MaxFaults = 1
INVARIANTS
  TypeOK
  CacheTruthful
  NoDuplicateWebhookAlone
  TransitionNotified
  MirroredIsListed
PROPERTIES
  VersionFollowsContent
  MirrorConverges
