SPECIFICATION FairSpec
CONSTANTS
  Compiled = {"pulse", "sndio", "oss", "audiounit", "winmm", "sun", "opensl", "aaudio"}
  Kinds = {"output"}
  Sinks = {}
  Sources = {}
  MaxStarts = 2
  MaxConnects = 1
  Users = {u1, u2}
  MAX_STREAMS = 2
  InputOnly = FALSE
  MaxOpens = 3
  NotifierFirst = TRUE
  Capacity = 2
  PlayFrames = 3
  RecordFrames = 2
  DeviceFrames = 4
  TimeoutLimit = 3
  NBufs = 3
  Blocks = 2
  MaxFrames = 3
  Frames = 3
PROPERTIES
  CallsReturn
  ChangeIsSeen
CHECK_DEADLOCK FALSE
