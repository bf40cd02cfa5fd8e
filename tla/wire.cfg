SPECIFICATION Spec
CONSTANTS
  Byte <- Symbols
  BSU <- BsuMark
  ESU <- EsuMark
  OSC <- OscMark
  ST <- StMark
  Streams <- BriefProducer
  Lines <- HistoryLines
  MaxConns = 3
INVARIANTS
  TypeOK
  ExactlyTheText
  ChunkingInvisible
  FrameInOneWrite
  HistoryOnceOnTop
PROPERTY
  PipeSpec
CHECK_DEADLOCK FALSE
