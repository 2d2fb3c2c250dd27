\* A frame from behind a wrap.
SPECIFICATION TimelineSpec
CONSTANTS
  W = 8
  Step = 4
  Skew = 3
  CompositionTimes <- MCCompositionTimes
  NoUnit = NoUnit
  MaxTurn = 2
  MaxBack = 1
INVARIANTS
  LateIsNotAWrap
CHECK_DEADLOCK FALSE
