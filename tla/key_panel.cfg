SPECIFICATION Spec
CONSTANTS
  TickMod = 7
  Debounce = 2
  LongPress = 4
  DoubleClick = 3
  MaxGap = 2
  Step = 60
INVARIANT OncePerHold
INVARIANT LevelIsWiper
PROPERTY NeverLeaps
PROPERTY PressReported
