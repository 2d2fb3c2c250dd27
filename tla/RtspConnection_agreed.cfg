\* A publisher replaced between SETUP and PLAY.
SPECIFICATION Spec
CONSTANTS
  p1 = p1
  p2 = p2
  video = video
  sound = sound
  c1 = c1
  c2 = c2
  None = None
  Paths <- MCPaths
  Codecs <- MCCodecs
  Descriptions <- MCDescriptions
  Channels <- MCChannels
  MaxTracks = 2
  MaxBatch = 2
INVARIANTS
  PlaysWhatWasAgreed
CHECK_DEADLOCK FALSE
