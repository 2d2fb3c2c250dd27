\* A length of one byte, or of 256 to 511, is taken for a start code (outside of the runs).
SPECIFICATION Spec
CONSTANTS
  SIZE = 3
  Chunks <- MCChunks
  Fields <- MCFields
  AvcRecords <- MCAvcRecords
  AacRecords <- MCAacRecords
  Pictures <- MCPictures
  Sounds <- MCSounds
  U16 = 4
  MAX_DEPTH = 2
  Error = Error
  Panic = Panic
  None = None
  MaxFields = 5
  MaxMedia = 3
INVARIANTS
  LengthsAreNoStartCodes
CHECK_DEADLOCK FALSE
