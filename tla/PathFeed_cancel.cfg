SPECIFICATION Spec
CONSTANTS
  r1 = r1
  r2 = r2
  Readers <- OneReader
  Selecting <- OneReader
  Lens = {1, 2}
  BACKLOG = 2
  CACHE_LIMIT = 3
  MaxUnits = 5
PROPERTIES NextIsCancelSafe
CHECK_DEADLOCK FALSE
