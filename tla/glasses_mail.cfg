SPECIFICATION FairSpec
CONSTANTS
  None = None
  h1 = h1
  h2 = h2
  t1 = t1
  t2 = t2
  Rids = {1, 2, 3}
  RelayRids = {1}
  Puts = {h1}
  Takes = {t1}
  TTL = 2
  Grace = 1
  MaxItems = 1
  FetchLimit = 2
  MaxTime = 3
  MaxAnswers = 3
  MaxAsks = 1
  MaxFaults = 1
INVARIANTS
  TypeOK
  RelayAnswerStaysOffBridge
  AnswerKept
  PassedOverForOthers
PROPERTIES
  BridgeLosesNothing
  RelayReplyArrives
CHECK_DEADLOCK FALSE
