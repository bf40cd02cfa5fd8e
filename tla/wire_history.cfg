SPECIFICATION Spec
CONSTANTS
  Byte <- Symbols
  BSU <- BsuMark
  ESU <- EsuMark
  OSC <- OscMark
  ST <- StMark
  Streams <- AnyProducer
  Lines <- HistoryLines
  MaxConns = 3
INVARIANT
  NoHistAfterHistory
CHECK_DEADLOCK FALSE
