SPECIFICATION FairSpec
CONSTANTS
  Faults = TRUE
  TimerQueueLength = 10
  CycleLimit = 2
INVARIANTS
  TimerQueueHasRoom
  CaptionIsScanned
  ScreenOff
  LedsStop
PROPERTIES
  PresentationEnds
