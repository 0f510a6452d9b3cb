SPECIFICATION FairSpec
CONSTANTS
  QuitKeys = {"q"}
  OtherKeys = {"x"}
  MaxKeys = 1
  MaxSignals = 2
PROPERTY InterruptEndsSession
CHECK_DEADLOCK FALSE
