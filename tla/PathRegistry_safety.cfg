\* Three publishers of two names, and a caller of names().
SPECIFICATION Spec
CONSTANTS
  p1 = p1
  p2 = p2
  p3 = p3
  r1 = r1
  l1 = l1
  n1 = n1
  n2 = n2
  Publishers <- ThreePublishers
  Readers <- OneReader
  Listers <- OneLister
  Names <- TwoNames
  MaxPublished = 3
SYMMETRY Symmetric
INVARIANTS
  NoStreamIsMixed
  NoNameIsLeftBehind
PROPERTIES
  EndsOnlyForAReason
CHECK_DEADLOCK FALSE
