SPECIFICATION Spec
CONSTANTS
  Compiled = {"jack"}
  Kinds = {"output", "input", "duplex"}
  Sinks = {"k"}
  Sources = {"r"}
  MaxStarts = 2
  MaxConnects = 2
  Users = {u1, u2}
  MAX_STREAMS = 2
  InputOnly = FALSE
  MaxOpens = 3
  NotifierFirst = TRUE
  Capacity = 3
  PlayFrames = 3
  RecordFrames = 2
  DeviceFrames = 4
  TimeoutLimit = 3
  NBufs = 3
  Blocks = 2
  MaxFrames = 5
  Frames = 3
INVARIANT NoCallbackAfterError
CHECK_DEADLOCK FALSE
