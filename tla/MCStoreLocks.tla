---------------------------- MODULE MCStoreLocks ----------------------------
(* Instances of StoreLocks. *)
EXTENDS StoreLocks

CONSTANTS c1, c2

TwoClients == {c1, c2}

\* Two slots, two keys in the first.
TwoSlots == {1, 2}
SlottedKeys == {"a", "b", "z"}
SlotOfKey == [k \in SlottedKeys |-> IF k = "z" THEN 2 ELSE 1]

\* A counter modulo 2 that an absent key starts from.
Bits == {0, 1}
Absent == -1
Increment == [v \in Bits \cup {Absent} |-> IF v = 0 THEN 1 ELSE IF v = 1 THEN 0 ELSE 1]
=============================================================================
