SPECIFICATION Spec
CONSTANTS
  numberVisibleListElements = 5
  MaxSize = 12
  Overshoot = 3
  Sizes = {0, 3, 8, 9, 11}
  Values <- MCValues
  Versions = {1, 2, 3}
  Never = 4
  Schemas <- MCSchemas
  Plain <- MCPlain
  Texts <- MCTexts
  MaxHops = 2
  channel_count = 2
  capacity_in_frames = 2
  FrameCounts = {1, 2, 3}
  RelaxedStore = FALSE
  MaxFrames = 5
  Ratios <- MCRatios
  BaseLengths = {4, 8}
  Align = 4
  BufferSize = 2
  MaxWord = 5
  MaxIn = 5
  MaxOut = 4
  FrontKinds = {"pass", "input", "output", "both", "delayed input", "delayed output"}
  HalfFilter = 2
  Keep = 4
  MaxGive = 3
  MaxRecorded = 6
  Starved = FALSE
  PcmKinds = {"play", "record", "duplex"}
  buffer_size = 3
  FrameBytes = 2
  MaxPcm = 4
  SetupBackends = {"pulse", "alsa", "jack", "aaudio", "opensl", "oss", "sun", "sndio", "wasapi", "winmm", "audiounit", "kai", "audiotrack"}
  SetupKinds = {"output", "input", "duplex"}
INVARIANTS
  TypeOK
  DrawnRight
  StorageCovers
  InStep
  MessageArrives
  FramesInPlace
  ResamplerIsRight
  RolledBack
  ResultIsTrue
PROPERTIES
  SmoothScroll
  ImplementsBitset
  InputGoesOn
CHECK_DEADLOCK FALSE
