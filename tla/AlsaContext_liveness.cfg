SPECIFICATION FairSpec
CONSTANTS
  Streams = {a, b}
  Recording = {b}
  NoStream = NoStream
  CUBEB_STREAM_MAX = 2
  PipeSize = 2
PROPERTIES
  CallsReturn
  EventsAreServed
  DrainEndsWhenQuiet
CHECK_DEADLOCK FALSE
