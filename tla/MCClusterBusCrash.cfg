CONSTANTS
  Node <- ThreeNodes
  CLUSTER_SLOTS = 3
  Jobs <- Once
  Meets <- OnceLinks
  Unreachable <- None
  Crashes <- OneDies
  MaxBroken = 0
  SendCap = 1
  MaxGossip = 0
  MaxTraffic = 9
SPECIFICATION FairSpec
PROPERTIES PingsGoOn
CHECK_DEADLOCK FALSE
