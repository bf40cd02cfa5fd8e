SPECIFICATION FairSpec
CONSTANTS
  Base = 2
  Cap = 5
  Retry = 3
  WatchTick = 3
  Big = 3
  QMax = 4
  MaxInputs = 2
  MaxStale = 1
PROPERTY
  UnsentInputRetried
