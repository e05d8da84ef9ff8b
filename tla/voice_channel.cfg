SPECIFICATION FairSpec
CONSTANTS
  FifoSize = 4
  ReadSize = 2
  TextLimit = 4
  StopFails = TRUE
  SpeakFails = TRUE
CHECK_DEADLOCK FALSE
INVARIANTS
  SpokenAloudOnCleanLine
  RetryUnlessStopFailed
PROPERTIES
  VoiceEnds
