\* Requests, frames and noise in pieces of any size, and the answers to them.
SPECIFICATION Spec
CONSTANTS
  Numerals <- MCNumerals
  Uris <- MCUris
  Headers <- MCHeaders
  Others <- MCOthers
  Tracks <- MCTracks
  Sdp <- MCSdp
  Packet <- MCPacket
  U8 = 4
  U16 = 8
  None = None
  MAX_HEAD = 9
  MAX_BODY = 3
  MaxSaid = 3
  MaxPackets = 2
INVARIANTS
  TakesWhatWasSent
  NothingIsHeldBack
  AnswersComeBackWhole
  ControlComesBack
  AgreesToWhatWasOffered
CHECK_DEADLOCK FALSE
