--------------------------- MODULE MCSlotMigration ---------------------------
EXTENDS SlotMigration

CONSTANT k

\* The first node of a cluster, one that has most of the slots and a new one.
ThreeNodes == 1..3
FourSlots == 0..3
HubOrSource == {1, 2}
Lopsided == [s \in FourSlots |-> IF s = 3 THEN 1 ELSE 2]

OneKey == {k}
NoKeys == {}
KeyInSlotZero == [x \in OneKey |-> 0]
Nothing == [x \in NoKeys |-> 0]
=============================================================================
