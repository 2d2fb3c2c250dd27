\* Two interleaved tracks over three turns of the counter.
SPECIFICATION TimelineSpec
CONSTANTS
  W = 8
  Step = 4
  Skew = 3
  CompositionTimes <- MCCompositionTimes
  NoUnit = NoUnit
  MaxTurn = 2
  MaxBack = 1
INVARIANTS
  TimeIsRight
CHECK_DEADLOCK FALSE
