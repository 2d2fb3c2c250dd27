\* A drop that gives up a name just taken over.
SPECIFICATION Spec
CONSTANTS
  p1 = p1
  p2 = p2
  p3 = p3
  r1 = r1
  l1 = l1
  n1 = n1
  n2 = n2
  Publishers <- ThreePublishers
  Readers <- OneReader
  Listers <- OneLister
  Names <- OneName
  MaxPublished = 3
INVARIANTS
  OnePublisherPerName
CHECK_DEADLOCK FALSE
