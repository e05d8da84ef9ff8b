SPECIFICATION Spec
CONSTANTS
  RingSize = 4
  Capacity = 3
  Backlog = 3
INVARIANTS
    NothingForgotten
PROPERTIES
  DeliversInOrder
  NoFalseAlarm
