CONSTANTS
  Node <- ThreeNodes
  CLUSTER_SLOTS = 4
  Jobs <- Grown
  Meets <- GrownLinks
  Unreachable <- None
  Crashes <- None
  MaxBroken = 1
  SendCap = 1
  MaxGossip = 0
  MaxTraffic = 2
SPECIFICATION FairSpec
INVARIANTS SlotsDealt RangesExact
PROPERTIES HandshakeCompletes PingsGoOn ClusterServes
