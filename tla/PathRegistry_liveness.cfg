\* Two publishers of one name, a reader and a caller of names().
SPECIFICATION FairSpec
CONSTANTS
  p1 = p1
  p2 = p2
  p3 = p3
  r1 = r1
  l1 = l1
  n1 = n1
  n2 = n2
  Publishers <- TwoPublishers
  Readers <- OneReader
  Listers <- OneLister
  Names <- OneName
  MaxPublished = 2
PROPERTIES
  EveryCallReturns
  EveryoneIsTold
CHECK_DEADLOCK FALSE
