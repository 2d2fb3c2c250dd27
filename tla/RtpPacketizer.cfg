\* Two tracks, played, paused and played again.
SPECIFICATION Spec
CONSTANTS
  None = None
  Budget = 5
  SeqW = 4
  TsW = 8
  Second = 2
  ClockRate <- MCClockRate
  MAX_ACCESS_UNIT = 2
  VideoUnits <- MCVideoUnits
  AudioUnits <- MCAudioUnits
  Starts <- MCStarts
  Times <- MCTimes
  MaxWire = 4
  MaxUnits = 3
  MaxPlays = 2
INVARIANTS
  UnitsComeBackWhole
  NothingIsWaitedFor
  TimesComeBack
CHECK_DEADLOCK FALSE
