\* One server and two connections, with fairness.
SPECIFICATION FairSpec
CONSTANTS
  s1 = s1
  s2 = s2
  c1 = c1
  c2 = c2
  Servers <- OneServer
  Connections <- MCConnections
  Configs <- MCConfigs
  Free = free
  Foreign = foreign
  Budget = 1
INVARIANTS
  FailedStartLeavesNothing
  ListenersOwnConnections
PROPERTIES
  StopEndsEverything
  EveryoneIsLetIn
CHECK_DEADLOCK FALSE
