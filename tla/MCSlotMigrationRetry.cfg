CONSTANTS
  k = k
  Node <- ThreeNodes
  Hub = 1
  Slot <- FourSlots
  FirstOwner <- Lopsided
  Contacts <- HubOrSource
  Key <- NoKeys
  SlotOf <- Nothing
  MaxPending = 0
  MaxRuns = 2
  MaxFailures = 1
SPECIFICATION Spec
INVARIANTS SlotServed SettledSlots
