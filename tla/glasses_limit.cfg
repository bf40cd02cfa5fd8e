SPECIFICATION Spec
CONSTANTS
  None = None
  h1 = h1
  h2 = h2
  t1 = t1
  t2 = t2
  Rids = {1, 2, 3, 4, 5, 6}
  RelayRids = {}
  Puts = {h1}
  Takes = {}
  TTL = 1
  Grace = 1
  MaxItems = 1
  FetchLimit = 5
  MaxTime = 1
  MaxAnswers = 6
  MaxAsks = 0
  MaxFaults = 0
INVARIANTS
  FreshIsFetched
CHECK_DEADLOCK FALSE
