\* Writer, read back by Reader.
SPECIFICATION Spec
CONSTANTS
  c1 = c1
  c2 = c2
  None = None
  Csids <- MCCsids
  CONTROL = control
  Shapes <- MCShapes
  Sizes = {1, 2}
  W = 3
  EXTENDED_TIMESTAMP = 2
  DEFAULT_CHUNK_SIZE = 1
  MAX_CHUNK_STREAMS = 3
  MAX_ASSEMBLED_LENGTH = 2
  MaxWire = 14
  MaxMessages = 3
SYMMETRY Symmetric
INVARIANTS
  ReadsItsOwn
CHECK_DEADLOCK FALSE
