\* The handshake in pieces, every short command, and media of every form.
SPECIFICATION FairSpec
CONSTANTS
  SIZE = 3
  Chunks <- MCChunks
  Fields <- MCFields
  AvcRecords <- MCAvcRecords
  AacRecords <- MCAacRecords
  Pictures <- MCPictures
  Sounds <- MCSounds
  U16 = 4
  MAX_DEPTH = 2
  Error = Error
  Panic = Panic
  None = None
  MaxFields = 5
  MaxMedia = 3
INVARIANTS
  HandshakeKeepsInStep
  CommandsComeBack
  MediaComesBack
  PicturesKeepTheirUnits
  PlayerIsToldWhatWasStated
PROPERTIES
  EveryHandshakeEnds
CHECK_DEADLOCK FALSE
