SPECIFICATION FairSpec
CONSTANTS
  Streams = {a, b}
  Recording = {b}
  NoStream = NoStream
  CUBEB_STREAM_MAX = 2
  PipeSize = 2
PROPERTY DrainEnds
CHECK_DEADLOCK FALSE
