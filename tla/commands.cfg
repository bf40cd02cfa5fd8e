SPECIFICATION FairSpec
CONSTANTS
  c1 = c1
  c2 = c2
  w1 = w1
  p1 = p1
  p2 = p2
  Nil = Nil
  Cmds = {c1, c2}
  Watchers = {w1}
  Polls = {p1}
  MaxFaults = 1
INVARIANTS
  TypeOK
  ClaimedNotDropped
  NoLostWakeup
PROPERTIES
  PendingIsClaimed
  RevocationDrains
  JobSpec
