\* Every order of messages from one encoder.
SPECIFICATION FairSpec
CONSTANTS
  app1 = app1
  k1 = k1
  k2 = k2
  x = x
  y = y
  Unset = Unset
  Apps <- MCApps
  Keys <- MCKeys
  Params <- MCParams
  WINDOW_SIZE = 3
  MaxBatch = 2
INVARIANTS
  EncoderCanReadReplies
  DescriptionHolds
  SettledIsPublished
PROPERTIES
  DisplacedLetsGo
CHECK_DEADLOCK FALSE
