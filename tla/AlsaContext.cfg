SPECIFICATION Spec
CONSTANTS
  Streams = {a, b, c}
  Recording = {b}
  NoStream = NoStream
  CUBEB_STREAM_MAX = 2
  PipeSize = 2
INVARIANTS
  TypeOK
  StopQuiesces
  NoWakeUpIsLost
  PlacesAgree
PROPERTY NoCallbackAfterShort
CHECK_DEADLOCK FALSE
