CONSTANTS
  c1 = c1
  c2 = c2
  Client <- TwoClients
  Key <- SlottedKeys
  Lock <- TwoSlots
  LockOf <- SlotOfKey
  Value <- Bits
  None <- Absent
  Modify <- Increment
SPECIFICATION FairSpec
PROPERTIES Linearizable CallsReturn
