\* A picture with a negative composition time.
SPECIFICATION TimelineSpec
CONSTANTS
  W = 8
  Step = 4
  Skew = 3
  CompositionTimes <- MCCompositionTimes
  NoUnit = NoUnit
  MaxTurn = 2
  MaxBack = 1
INVARIANTS
  DecodedBeforeShown
CHECK_DEADLOCK FALSE
