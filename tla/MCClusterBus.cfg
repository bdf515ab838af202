CONSTANTS
  Node <- ThreeNodes
  CLUSTER_SLOTS = 4
  Jobs <- Once
  Meets <- OnceLinks
  Unreachable <- BadDial
  Crashes <- OneDies
  MaxBroken = 0
  SendCap = 1
  MaxGossip = 1
  MaxTraffic = 1
SPECIFICATION Spec
INVARIANTS EntriesConsistent StaysPingable RedirectsRight
PROPERTIES RoutesKept
CHECK_DEADLOCK FALSE
