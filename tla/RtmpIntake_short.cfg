\* A tag that is cut off within its header ends the task (outside of the runs).
SPECIFICATION Spec
CONSTANTS
  SIZE = 3
  Chunks <- MCChunks
  Fields <- MCFields
  AvcRecords <- MCAvcRecords
  AacRecords <- MCAacRecords
  Pictures <- ShortHeaders
  Sounds <- MCSounds
  U16 = 4
  MAX_DEPTH = 2
  Error = Error
  Panic = Panic
  None = None
  MaxFields = 5
  MaxMedia = 3
INVARIANTS
  ShortTagsAreRefused
CHECK_DEADLOCK FALSE
