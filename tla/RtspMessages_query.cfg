\* The control of a description that was asked for with a query.
SPECIFICATION Spec
CONSTANTS
  Numerals <- MCNumerals
  Uris <- UrisWithQuery
  Headers <- MCHeaders
  Others <- MCOthers
  Tracks <- MCTracks
  Sdp <- MCSdp
  Packet <- MCPacket
  U8 = 4
  U16 = 8
  None = None
  MAX_HEAD = 9
  MAX_BODY = 3
  MaxSaid = 3
  MaxPackets = 2
INVARIANT ControlComesBack
CHECK_DEADLOCK FALSE
