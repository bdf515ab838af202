CONSTANTS
  k = k
  Node <- ThreeNodes
  Hub = 1
  Slot <- FourSlots
  FirstOwner <- Lopsided
  Contacts <- ThreeNodes
  Key <- OneKey
  SlotOf <- KeyInSlotZero
  MaxPending = 1
  MaxRuns = 1
  MaxFailures = 1
SPECIFICATION FairSpec
INVARIANTS KeysFollowOwner
PROPERTIES BitmapsConverge
