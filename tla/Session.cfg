SPECIFICATION FairSpec
CONSTANTS
  QuitKeys = {"q", "Q"}
  OtherKeys = {"x"}
  MaxKeys = 2
  MaxSignals = 3
INVARIANTS
  TypeOK
  LeftRawOnlyByKill
  LoopSurvivesInterrupts
  TypeaheadNeverQuits
PROPERTY RequestsEndSession
CHECK_DEADLOCK FALSE
