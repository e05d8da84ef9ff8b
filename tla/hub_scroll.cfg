SPECIFICATION FairSpec
CONSTANTS
  MaxGlyphs = 7
  CycleLimit = 2
  PollRows = 3
  Faults = TRUE
INVARIANTS
  RightCharacter
  EnteringGlyphShown
PROPERTIES
  FinishScrollsOut
  FinishEnds
