\* One reader that is polled in a select! and one that lets every next() finish.
SPECIFICATION FairSpec
CONSTANTS
  r1 = r1
  r2 = r2
  Readers <- MCReaders
  Selecting <- OneReader
  Lens = {1}
  BACKLOG = 2
  CACHE_LIMIT = 2
  MaxUnits = 4
INVARIANTS
  CacheIsLastGroup
  NothingLostUnlessBehind
  EveryUnitAccountedFor
  KeepingUpLosesNothing
PROPERTIES
  EveryReaderIsTold
  KeepsPromise
CHECK_DEADLOCK FALSE
