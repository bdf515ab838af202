------------------------- MODULE SlotMigrationProofs -------------------------
(***************************************************************************)
(* No slot is ever without a server, and a slot that is not being moved    *)
(* and was not left behind has one owner: for every number of nodes,       *)
(* slots, runs and broken connections.                                     *)
(***************************************************************************)
EXTENDS SlotMigration, FiniteSetTheorems, SequenceTheorems, TLAPS

\* The time, in seconds, that each prover is given for a leaf.
USE SMTT(20), ZenonT(20)

-----------------------------------------------------------------------------
(***************************************************************************)
(* The plan.  The rank of an element in a strict total order on a finite   *)
(* set is an injection into 0 .. N - 1 and thereby a surjection, so that   *)
(* every place is taken by an element.                                     *)
(***************************************************************************)

\* R orders S strictly and totally.
Orders(R, S) ==
  /\ \A x \in S : <<x, x>> \notin R
  /\ \A x, y \in S : x # y => <<x, y>> \in R \/ <<y, x>> \in R
  /\ \A x, y, z \in S : <<x, y>> \in R /\ <<y, z>> \in R => <<x, z>> \in R

\* The sorts of ClusterRebalanceNodes and the scan of clusterComputeReshardTable
\* yield an element of what they sort for every index within its size.
LEMMA NthInSet ==
  ASSUME NEW S, IsFiniteSet(S), NEW R, Orders(R, S), NEW i \in 1 .. Cardinality(S)
  PROVE  /\ Nth(S, R, i) \in S
         /\ Cardinality({y \in S : <<y, Nth(S, R, i)>> \in R}) = i - 1
<1> DEFINE below(x) == {y \in S : <<y, x>> \in R}
           N == Cardinality(S)
           f == [x \in S |-> Cardinality(below(x))]
<1>0. N \in Nat
  BY FS_CardinalityType
<1>1. \A x \in S : IsFiniteSet(below(x)) /\ Cardinality(below(x)) \in 0 .. N - 1
  <2> TAKE x \in S
  <2>1. below(x) \in SUBSET S /\ x \notin below(x)
    BY DEF Orders
  <2>2. IsFiniteSet(below(x)) /\ Cardinality(below(x)) <= N /\ Cardinality(below(x)) # N
    BY <2>1, FS_Subset, Zenon
  <2> QED BY <1>0, <2>2, FS_CardinalityType
<1>2. ASSUME NEW x \in S, NEW y \in S, <<x, y>> \in R
      PROVE  f[x] < f[y]
  <2>1. below(x) \in SUBSET below(y)
    BY <1>2 DEF Orders
  <2>2. x \in below(y) /\ x \notin below(x)
    BY <1>2 DEF Orders
  <2>3. Cardinality(below(x)) <= Cardinality(below(y)) /\ Cardinality(below(x)) # Cardinality(below(y))
    BY <1>1, <2>1, <2>2, FS_Subset, Zenon
  <2>4. Cardinality(below(x)) \in Int /\ Cardinality(below(y)) \in Int
    BY <1>0, <1>1
  <2>5. f[x] = Cardinality(below(x)) /\ f[y] = Cardinality(below(y))
    OBVIOUS
  <2> HIDE DEF f, below
  <2> QED BY <2>3, <2>4, <2>5
<1>3. f \in Injection(S, 0 .. N - 1)
  <2>1. f \in [S -> 0 .. N - 1]
    BY <1>1, Zenon
  <2> HIDE DEF f
  <2>2. ASSUME NEW x \in S, NEW y \in S, f[x] = f[y] PROVE x = y
    <3>1. f[x] \in Int /\ f[y] \in Int
      BY <1>0, <2>1
    <3>2. ~(<<x, y>> \in R) /\ ~(<<y, x>> \in R)
      BY <1>2, <2>2, <3>1
    <3> QED BY <3>2 DEF Orders
  <2>3. DOMAIN f = S
    BY <2>1
  <2>4. \A x, y \in DOMAIN f : f[x] = f[y] => x = y
    BY <2>2, <2>3
  <2> QED BY <2>1, <2>4 DEF Injection, IsInjective
<1>4. IsFiniteSet(0 .. N - 1) /\ Cardinality(0 .. N - 1) = N
  <2>1. N - 1 \in Int /\ 0 \in Int
    BY <1>0
  <2> HIDE DEF N
  <2>2. IsFiniteSet(0 .. (N - 1))
        /\ Cardinality(0 .. (N - 1)) = IF 0 > N - 1 THEN 0 ELSE (N - 1) - 0 + 1
    BY <2>1, FS_Interval, Zenon
  <2> QED BY <1>0, <2>2
<1>5. f \in Surjection(S, 0 .. N - 1)
  BY <1>3, <1>4, FS_Injection
<1>6. PICK x \in S : f[x] = i - 1
  <2>1. i - 1 \in 0 .. N - 1
    BY <1>0
  <2> HIDE DEF f
  <2> QED BY <1>5, <2>1 DEF Surjection
<1>7. \E z \in S : Cardinality({y \in S : <<y, z>> \in R}) = i - 1
  BY <1>6, Zenon
<1> QED BY <1>7, Zenon DEF Nth

\* No two places are taken by the same element.
LEMMA NthInjective ==
  ASSUME NEW S, IsFiniteSet(S), NEW R, Orders(R, S),
         NEW i \in 1 .. Cardinality(S), NEW j \in 1 .. Cardinality(S),
         Nth(S, R, i) = Nth(S, R, j)
  PROVE  i = j
<1>1. /\ Cardinality({y \in S : <<y, Nth(S, R, i)>> \in R}) = i - 1
      /\ Cardinality({y \in S : <<y, Nth(S, R, j)>> \in R}) = j - 1
  BY NthInSet
<1>2. i - 1 = j - 1
  BY <1>1
<1>3. i \in Int /\ j \in Int
  OBVIOUS
<1> QED BY <1>2, <1>3

SlotsTyped ==
  /\ owned \in [Node -> SUBSET Slot]
  /\ view \in [Node -> [Node -> SUBSET Slot]]

\* A node's balance is an integer, at most the number of slots in its entry.
LEMMA BalanceType ==
  ASSUME SlotsTyped, NEW p \in Node, NEW n \in Node
  PROVE  /\ Entry(p, n) \in SUBSET Slot /\ IsFiniteSet(Entry(p, n))
         /\ Balance(p, n) \in Int
         /\ Balance(p, n) <= Cardinality(Entry(p, n))
<1>1. Entry(p, n) \in SUBSET Slot
  BY DEF SlotsTyped, Entry
<1>2. IsFiniteSet(Entry(p, n))
  BY <1>1, FS_Subset, SlotMigrationAssumption
<1>3. Cardinality(Entry(p, n)) \in Nat
  BY <1>2, FS_CardinalityType
<1>4. Cardinality(Slot) \in Nat /\ Cardinality(Node) \in Nat
  BY FS_CardinalityType, SlotMigrationAssumption
<1>5. Cardinality(Node) # 0
  BY FS_EmptySet, SlotMigrationAssumption
<1>6. Cardinality(Slot) \div Cardinality(Node) \in Nat
  BY <1>4, <1>5
<1>7. Share(n) \in Nat
  BY <1>6 DEF Share
<1> QED BY <1>1, <1>2, <1>3, <1>7 DEF Balance

\* The two sorts of the nodes are strict total orders.
LEMMA BalanceOrders ==
  ASSUME SlotsTyped, NEW p \in Node
  PROVE  Orders(ByBalance(p), Node) /\ Orders(Descending(p), Node)
<1> DEFINE before(m, n) == Balance(p, m) < Balance(p, n)
                            \/ (Balance(p, m) = Balance(p, n) /\ m < n)
<1>1. \A m, n \in Node : <<m, n>> \in ByBalance(p) <=> before(m, n)
  BY DEF ByBalance
<1>2. \A m, n \in Node : <<m, n>> \in Descending(p) <=> before(n, m)
  BY <1>1, Zenon DEF Descending
<1>3. \A n \in Node : Balance(p, n) \in Int /\ n \in Int
  BY BalanceType, SlotMigrationAssumption
<1>4. \A n \in Node : ~before(n, n)
  BY <1>3
<1>5. \A m, n \in Node : m # n => before(m, n) \/ before(n, m)
  BY <1>3
<1>6. \A l, m, n \in Node : before(l, m) /\ before(m, n) => before(l, n)
  BY <1>3
<1> HIDE DEF before
<1> QED BY <1>1, <1>2, <1>4, <1>5, <1>6 DEF Orders

Transfer == [src : Node, dst : Node, slots : Seq(Slot)]

\* clusterComputeReshardTable returns as many slots as it is asked for.
LEMMA ReshardTableType ==
  ASSUME SlotsTyped, NEW p \in Node, NEW n \in Node, Balance(p, n) > 0
  PROVE  /\ ReshardTable(p, n, Balance(p, n)) \in Seq(Slot)
         /\ ReshardTable(p, n, Balance(p, n)) # <<>>
         /\ \A i \in 1 .. Len(ReshardTable(p, n, Balance(p, n))) :
              /\ ReshardTable(p, n, Balance(p, n))[i] \in Entry(p, n)
              /\ \A j \in 1 .. Len(ReshardTable(p, n, Balance(p, n))) :
                   ReshardTable(p, n, Balance(p, n))[i] = ReshardTable(p, n, Balance(p, n))[j]
                     => i = j
<1> DEFINE k == Balance(p, n)
           S == Entry(p, n)
<1>1. S \in SUBSET Slot /\ IsFiniteSet(S) /\ k \in Int /\ k <= Cardinality(S)
  BY BalanceType
<1>2. Orders(Ascending, S)
  <2> HIDE DEF S, k
  <2>1. \A x, y \in Slot : <<x, y>> \in Ascending <=> x < y
    BY DEF Ascending
  <2>2. \A x \in S : x \in Int /\ x \in Slot
    BY <1>1, SlotMigrationAssumption
  <2> QED BY <2>1, <2>2 DEF Orders
<1>3. Cardinality(S) \in Nat
  BY <1>1, FS_CardinalityType
<1> HIDE DEF k, S
<1>4. \A i \in 1 .. k : i \in 1 .. Cardinality(S)
  BY <1>1, <1>3
<1>5. \A i \in 1 .. k : Nth(S, Ascending, i) \in Slot
  BY <1>1, <1>2, <1>4, NthInSet, Zenon
<1>6. k \in Nat /\ k > 0
  BY <1>1 DEF k
<1>7. [i \in 1 .. k |-> Nth(S, Ascending, i)] \in Seq(Slot)
  BY <1>5, <1>6
<1>8. [i \in 1 .. k |-> Nth(S, Ascending, i)] # <<>>
  <2>1. 1 \in DOMAIN [i \in 1 .. k |-> Nth(S, Ascending, i)]
    BY <1>6
  <2> QED BY <2>1
<1> DEFINE r == [i \in 1 .. k |-> Nth(S, Ascending, i)]
<1>9. Len(r) = k /\ \A i \in 1 .. k : r[i] = Nth(S, Ascending, i)
  BY <1>6
<1>10. \A i \in 1 .. k : Nth(S, Ascending, i) \in S
  BY <1>1, <1>2, <1>4, NthInSet, Zenon
<1>11. \A i, j \in 1 .. k : Nth(S, Ascending, i) = Nth(S, Ascending, j) => i = j
  BY <1>1, <1>2, <1>4, NthInjective
<1>12. ReshardTable(p, n, k) = r
  BY DEF ReshardTable, S
<1> HIDE DEF r
<1>13. \A i \in 1 .. Len(r) : r[i] \in S /\ \A j \in 1 .. Len(r) : r[i] = r[j] => i = j
  BY <1>9, <1>10, <1>11
<1>14. r \in Seq(Slot) /\ r # <<>>
  BY <1>7, <1>8 DEF r
<1> QED BY <1>12, <1>13, <1>14 DEF k, S

\* The transfers ClusterRebalanceNodes plans name nodes, and each moves a slot.
LEMMA PlanType ==
  ASSUME SlotsTyped, NEW p \in Node
  PROVE  Plan(p) \in Seq(Transfer) /\ \A i \in 1 .. Len(Plan(p)) : Plan(p)[i].slots # <<>>
<1> DEFINE k == Cardinality(Givers(p))
           src(i) == Nth(Givers(p), Descending(p), i)
           dst(i) == Nth(Node, ByBalance(p), i)
           slots(i) == ReshardTable(p, src(i), Balance(p, src(i)))
<1>1. Givers(p) \in SUBSET Node /\ \A n \in Givers(p) : Balance(p, n) > 0
  BY DEF Givers
<1>2. IsFiniteSet(Givers(p)) /\ k <= Cardinality(Node)
  BY <1>1, FS_Subset, SlotMigrationAssumption
<1>3. k \in Nat /\ Cardinality(Node) \in Nat
  BY <1>2, FS_CardinalityType, SlotMigrationAssumption
<1>4. Orders(Descending(p), Givers(p))
  BY <1>1, BalanceOrders DEF Orders
<1>5. ASSUME NEW i \in 1 .. k
      PROVE  /\ src(i) \in Node /\ dst(i) \in Node
             /\ slots(i) \in Seq(Slot) /\ slots(i) # <<>>
  <2>1. src(i) \in Givers(p)
    BY <1>2, <1>4, NthInSet, Zenon
  <2>2. dst(i) \in Node
    <3>1. i \in 1 .. Cardinality(Node)
      BY <1>2, <1>3
    <3> QED BY <3>1, BalanceOrders, NthInSet, SlotMigrationAssumption, Zenon
  <2> HIDE DEF src
  <2>3. src(i) \in Node /\ Balance(p, src(i)) > 0
    BY <1>1, <2>1
  <2>4. slots(i) \in Seq(Slot) /\ slots(i) # <<>>
    BY <2>3, ReshardTableType
  <2> QED BY <2>2, <2>3, <2>4
<1>6. Plan(p) = [i \in 1 .. k |-> [src |-> src(i), dst |-> dst(i), slots |-> slots(i)]]
  BY DEF Plan
<1> HIDE DEF src, dst, slots, k
<1>7. Plan(p) \in Seq(Transfer) /\ Len(Plan(p)) = k
  BY <1>3, <1>5, <1>6 DEF Transfer
<1>8. ASSUME NEW i \in 1 .. Len(Plan(p)) PROVE Plan(p)[i].slots # <<>>
  <2>1. i \in 1 .. k
    BY <1>7
  <2>2. Plan(p)[i] = [src |-> src(i), dst |-> dst(i), slots |-> slots(i)]
    BY <1>6, <2>1
  <2> QED BY <1>5, <2>1, <2>2
<1> QED BY <1>7, <1>8

-----------------------------------------------------------------------------
(* Types *)

Busy == {"importing", "migrating", "list", "claim", "release", "inform"}

\* While the coordinator is at work there is a transfer, and none is empty.
MovesInv ==
  /\ pc \in Busy => moves # <<>>
  /\ \A i \in 1 .. Len(moves) : moves[i].slots # <<>>

\* The source, the target and the slot of the current transfer.
LEMMA CurrentType ==
  ASSUME TypeOK, MovesInv, moves # <<>>
  PROVE  /\ Source \in Node /\ Target \in Node /\ CurSlot \in Slot
         /\ Head(moves).slots \in Seq(Slot) /\ Head(moves).slots # <<>>
<1>1. moves \in Seq(Transfer)
  BY DEF TypeOK, Transfer
<1>2. Head(moves) \in Transfer /\ Head(moves) = moves[1] /\ 1 \in 1 .. Len(moves)
  BY <1>1
<1>3. Head(moves).slots \in Seq(Slot) /\ Head(moves).slots # <<>>
  BY <1>2 DEF MovesInv, Transfer
<1>4. Head(Head(moves).slots) \in Slot
  BY <1>3
<1> QED BY <1>2, <1>3, <1>4 DEF Transfer, Source, Target, CurSlot

\* SlotDone drops the slot that was moved, or the transfer with its last slot.
LEMMA SlotDoneMoves ==
  ASSUME TypeOK, MovesInv, SlotDone
  PROVE  /\ moves' \in Seq(Transfer)
         /\ \A i \in 1 .. Len(moves') : moves'[i].slots # <<>>
         /\ pc' \in Busy => moves' # <<>>
<1>1. moves \in Seq(Transfer) /\ moves # <<>>
  BY DEF TypeOK, Transfer, SlotDone, MovesInv, Busy
<1>2. Head(moves).slots \in Seq(Slot) /\ Head(moves) = moves[1] /\ 1 \in 1 .. Len(moves)
  BY <1>1, CurrentType
<1>3. CASE Len(Head(moves).slots) > 1
  <2>1. moves' = [moves EXCEPT ![1].slots = Tail(@)]
    BY <1>3 DEF SlotDone
  <2>2. Tail(moves[1].slots) \in Seq(Slot) /\ Tail(moves[1].slots) # <<>>
    <3>1. ASSUME NEW q \in Seq(Slot), Len(q) > 1
          PROVE  Tail(q) \in Seq(Slot) /\ Tail(q) # <<>>
      <4>1. q # <<>> /\ Len(q) \in Nat
        BY <3>1
      <4>2. Tail(q) \in Seq(Slot) /\ Len(Tail(q)) = Len(q) - 1
        BY <4>1, HeadTailProperties
      <4>3. Len(Tail(q)) # 0
        BY <3>1, <4>1, <4>2
      <4>4. Tail(q) # <<>>
        BY <4>3, EmptySeq, Zenon
      <4> QED BY <4>2, <4>4
    <3>2. moves[1].slots \in Seq(Slot) /\ Len(moves[1].slots) > 1
      BY <1>2, <1>3
    <3> QED BY <3>1, <3>2
  <2>3. moves[1] \in Transfer
    BY <1>1, <1>2
  <2>4. [moves[1] EXCEPT !.slots = Tail(moves[1].slots)] \in Transfer
    BY <2>2, <2>3, Zenon DEF Transfer
  <2>5. moves' = [moves EXCEPT ![1] = [moves[1] EXCEPT !.slots = Tail(moves[1].slots)]]
    BY <1>1, <1>2, <2>1, <2>3 DEF Transfer
  <2>6. moves' \in Seq(Transfer) /\ Len(moves') = Len(moves)
    BY <1>1, <1>2, <2>4, <2>5
  <2>7. moves'[1].slots = Tail(moves[1].slots)
    BY <1>1, <1>2, <2>3, <2>5 DEF Transfer
  <2>8. \A i \in 1 .. Len(moves) : i # 1 => moves'[i] = moves[i]
    BY <1>1, <2>5
  <2>9. \A i \in 1 .. Len(moves) : moves'[i].slots # <<>>
    BY <2>2, <2>7, <2>8, Zenon DEF MovesInv
  <2>10. moves' # <<>>
    BY <1>1, <2>6
  <2> QED BY <2>6, <2>9, <2>10
<1>4. CASE ~(Len(Head(moves).slots) > 1)
  <2>1. moves' = Tail(moves) /\ pc' = "connect"
    BY <1>4 DEF SlotDone
  <2>2. moves' \in Seq(Transfer) /\ Len(moves') = Len(moves) - 1
    BY <1>1, <2>1
  <2>3. \A i \in 1 .. Len(moves') : moves'[i] = moves[i + 1] /\ i + 1 \in 1 .. Len(moves)
    BY <1>1, <2>1, <2>2
  <2>4. \A i \in 1 .. Len(moves') : moves'[i].slots # <<>>
    BY <2>3 DEF MovesInv
  <2> QED BY <2>1, <2>2, <2>4 DEF Busy
<1> QED BY <1>3, <1>4

\* What SETSLOT NODE leaves behind on the node that executes it.
LEMMA SetSlotType ==
  ASSUME TypeOK, NEW n \in Node, NEW s \in Slot, NEW new \in Node, ClusterSetSlot(n, s, new)
  PROVE  /\ owned' \in [Node -> SUBSET Slot]
         /\ table' \in [Node -> [Slot -> Node \cup {NoNode}]]
         /\ importing' \in [Node -> [Slot -> Node \cup {NoNode}]]
         /\ migrating' \in [Node -> [Slot -> Node \cup {NoNode}]]
BY Zenon DEF TypeOK, ClusterSetSlot

LEMMA InitType == Init => TypeOK /\ MovesInv
<1> SUFFICES ASSUME Init PROVE TypeOK /\ MovesInv
  OBVIOUS
<1>1. owned \in [Node -> SUBSET Slot]
  BY DEF Init
<1>2. view \in [Node -> [Node -> SUBSET Slot]]
  BY <1>1 DEF Init
<1>3. table \in [Node -> [Slot -> Node \cup {NoNode}]]
  BY SlotMigrationAssumption DEF Init
<1>4. wire \in [Node -> [Node -> Seq(SUBSET Slot)]]
  BY DEF Init
<1>5. runs \in 0 .. MaxRuns /\ failures \in 0 .. MaxFailures /\ contact \in Node
  BY SlotMigrationAssumption DEF Init
<1>6. /\ importing \in [Node -> [Slot -> Node \cup {NoNode}]]
      /\ migrating \in [Node -> [Slot -> Node \cup {NoNode}]]
      /\ keys \in [Node -> SUBSET Key]
  BY DEF Init
<1> QED BY <1>1, <1>2, <1>3, <1>4, <1>5, <1>6 DEF Init, TypeOK, MovesInv, Busy

\* The steps that leave the coordinator's plan and the nodes' slots alone.
LEMMA OtherType ==
  ASSUME TypeOK, MovesInv,
         NEW p \in Node, NEW q \in Node,
         \/ SendBitmap(p, q) \/ HearBitmap(p, q)
         \/ \E s \in Slot : SetSlotStable(p, s)
         \/ \E k \in Key : CheckOwner(p, k) \/ StoreKey(p, k) \/ DeleteKey(p, k)
  PROVE  TypeOK' /\ MovesInv'
<1>1. CASE SendBitmap(p, q)
  <2>1. <<owned[p]>> \in Seq(SUBSET Slot)
    BY DEF TypeOK
  <2>2. wire' \in [Node -> [Node -> Seq(SUBSET Slot)]]
    BY <1>1, <2>1, Zenon DEF SendBitmap, TypeOK
  <2> QED BY <1>1, <2>2, Zenon
          DEF SendBitmap, TypeOK, MovesInv, nodeVars, clientVars, coordVars, Source, Target
<1>2. CASE HearBitmap(p, q)
  <2>1. wire[p][q] \in Seq(SUBSET Slot) /\ wire[p][q] # <<>>
    BY <1>2 DEF HearBitmap, TypeOK
  <2>2. Head(wire[p][q]) \in SUBSET Slot /\ Tail(wire[p][q]) \in Seq(SUBSET Slot)
    BY <2>1, HeadTailProperties
  <2> QED BY <1>2, <2>2, Zenon
          DEF HearBitmap, TypeOK, MovesInv, nodeVars, clientVars, coordVars, Source, Target
<1>3. ASSUME NEW s \in Slot, SetSlotStable(p, s) PROVE TypeOK' /\ MovesInv'
  BY <1>3, Zenon DEF SetSlotStable, TypeOK, MovesInv, busVars, clientVars, coordVars, Source, Target
<1>4. ASSUME NEW k \in Key, CheckOwner(p, k) \/ StoreKey(p, k) \/ DeleteKey(p, k)
      PROVE  TypeOK' /\ MovesInv'
  <2>1. /\ keys' \in [Node -> SUBSET Key]
        /\ pending' \in SUBSET (Node \X Key) /\ late' \in SUBSET (Node \X Key)
    <3>1. CASE CheckOwner(p, k)
      BY <3>1 DEF CheckOwner, TypeOK
    <3>2. CASE StoreKey(p, k)
      BY <3>2, Zenon DEF StoreKey, TypeOK
    <3>3. CASE DeleteKey(p, k)
      BY <3>3, Zenon DEF DeleteKey, TypeOK
    <3> QED BY <1>4, <3>1, <3>2, <3>3, Zenon
  <2>2. UNCHANGED <<nodeVars, busVars, coordVars>>
    BY <1>4 DEF CheckOwner, StoreKey, DeleteKey
  <2> QED BY <2>1, <2>2, Zenon
          DEF TypeOK, MovesInv, nodeVars, busVars, coordVars, Source, Target
<1> QED BY <1>1, <1>2, <1>3, <1>4

\* The coordinator's steps up to the look at the source's keys, and its failures.
LEMMA EarlyType ==
  ASSUME TypeOK, MovesInv,
         \/ Connect \/ MarkImporting \/ MarkMigrating \/ ListKeys \/ Abort
         \/ \E p \in Contacts : Start(p)
  PROVE  TypeOK' /\ MovesInv'
<1>1. CASE Connect
  BY <1>1, Zenon DEF Connect, TypeOK, MovesInv, Busy, nodeVars, busVars, clientVars, Source, Target
<1>2. CASE MarkImporting \/ MarkMigrating
  <2>1. Source \in Node /\ Target \in Node /\ CurSlot \in Slot
    BY <1>2, CurrentType DEF MarkImporting, MarkMigrating, MovesInv, Busy
  <2>2. CASE MarkImporting
    BY <2>1, <2>2, Zenon DEF MarkImporting, TypeOK, MovesInv, Busy, busVars, clientVars
  <2>3. CASE MarkMigrating
    BY <2>1, <2>3, Zenon DEF MarkMigrating, TypeOK, MovesInv, Busy, busVars, clientVars
  <2> QED BY <1>2, <2>2, <2>3
<1>3. CASE ListKeys
  <2>1. CurSlot \in Slot
    BY <1>3, CurrentType DEF ListKeys, MovesInv, Busy
  <2> QED BY <1>3, <2>1, Zenon
          DEF ListKeys, TypeOK, MovesInv, Busy, nodeVars, busVars, clientVars
<1>4. CASE Abort
  <2>1. torn' \in SUBSET Slot
    BY <1>4, Zenon DEF Abort, TypeOK
  <2>2. failures' \in 0 .. MaxFailures
    BY <1>4, SlotMigrationAssumption DEF Abort, TypeOK
  <2> QED BY <1>4, <2>1, <2>2, Zenon
          DEF Abort, TypeOK, MovesInv, Busy, nodeVars, busVars, clientVars
<1>5. ASSUME NEW p \in Contacts, Start(p) PROVE TypeOK' /\ MovesInv'
  <2>1. p \in Node /\ runs' \in 0 .. MaxRuns
    BY <1>5, SlotMigrationAssumption DEF TypeOK, Start
  <2>2. moves' \in Seq(Transfer) /\ \A i \in 1 .. Len(moves') : moves'[i].slots # <<>>
    BY <1>5, <2>1, PlanType DEF Start, TypeOK, SlotsTyped
  <2> QED BY <1>5, <2>1, <2>2, Zenon
          DEF Start, TypeOK, MovesInv, Busy, Transfer, nodeVars, busVars, clientVars
<1> QED BY <1>1, <1>2, <1>3, <1>4, <1>5

\* The steps that tell the nodes of the new owner.
LEMMA HandOverType ==
  ASSUME TypeOK, MovesInv, Claim \/ Release \/ SlotDone \/ \E n \in Node : Inform(n)
  PROVE  TypeOK' /\ MovesInv'
<1>1. Source \in Node /\ Target \in Node /\ CurSlot \in Slot
  BY CurrentType DEF Claim, Release, SlotDone, Inform, MovesInv, Busy
<1>2. CASE Claim
  BY <1>1, <1>2, SetSlotType, Zenon
     DEF Claim, TypeOK, MovesInv, Busy, busVars, clientVars, Source, Target
<1>3. CASE Release
  BY <1>1, <1>3, SetSlotType, Zenon
     DEF Release, TypeOK, MovesInv, Busy, busVars, clientVars, Source, Target
<1>4. ASSUME NEW n \in Node, Inform(n) PROVE TypeOK' /\ MovesInv'
  <2>1. CASE HostKnown(contact, n)
    BY <1>1, <1>4, <2>1, SetSlotType, Zenon
       DEF Inform, TypeOK, MovesInv, Busy, busVars, clientVars, Source, Target
  <2>2. CASE ~HostKnown(contact, n)
    BY <1>1, <1>4, <2>2, Zenon
       DEF Inform, TypeOK, MovesInv, Busy, nodeVars, busVars, clientVars
  <2> QED BY <2>1, <2>2
<1>5. CASE SlotDone
  BY <1>1, <1>5, SlotDoneMoves, Zenon
     DEF SlotDone, TypeOK, MovesInv, Busy, Transfer, nodeVars, busVars, clientVars
<1> QED BY <1>2, <1>3, <1>4, <1>5, Zenon

LEMMA TypeStep == TypeOK /\ MovesInv /\ [Next]_vars => TypeOK' /\ MovesInv'
<1> SUFFICES ASSUME TypeOK, MovesInv, [Next]_vars PROVE TypeOK' /\ MovesInv'
  OBVIOUS
<1>1. ASSUME UNCHANGED vars PROVE TypeOK' /\ MovesInv'
  BY <1>1, Zenon DEF vars, TypeOK, MovesInv, Source, Target
<1>2. ASSUME NEW p \in Node, NEW q \in Node, SendBitmap(p, q) \/ HearBitmap(p, q)
      PROVE  TypeOK' /\ MovesInv'
  BY <1>2, OtherType
<1>3. ASSUME NEW p \in Node,
             \/ \E k \in Key : CheckOwner(p, k) \/ StoreKey(p, k) \/ DeleteKey(p, k)
             \/ \E s \in Slot : SetSlotStable(p, s)
      PROVE  TypeOK' /\ MovesInv'
  BY <1>3, OtherType
<1>4. ASSUME CoordinatorStep \/ Abort \/ \E p \in Contacts : Start(p)
      PROVE  TypeOK' /\ MovesInv'
  BY <1>4, EarlyType, HandOverType DEF CoordinatorStep
<1> QED BY <1>1, <1>2, <1>3, <1>4, Zenon DEF Next

\* The state keeps its type.
THEOREM TypeCorrect == Spec => []TypeOK
<1> QED BY InitType, TypeStep, PTL DEF Spec

-----------------------------------------------------------------------------
(***************************************************************************)
(* Owners.  SlotServed and SettledSlots are not inductive: they need to    *)
(* know whom the coordinator has already told.  From the claim on that is  *)
(* the target, and while it informs the others every node not in rest.     *)
(***************************************************************************)

\* Node n has the target for the owner of the current slot, and no mark.
Informed(n) ==
  /\ CurSlot \in owned[n] <=> n = Target
  /\ importing[n][CurSlot] = NoNode /\ migrating[n][CurSlot] = NoNode

ToldInv ==
  /\ pc \in {"release", "inform"} => Informed(Target)
  /\ pc = "inform" => \A n \in Node \ rest : Informed(n)

\* One owner and no mark.
Settled(s) ==
  /\ \E n \in Node : {m \in Node : s \in owned[m]} = {n}
  /\ \A n \in Node : importing[n][s] = NoNode /\ migrating[n][s] = NoNode

OwnersInv ==
  /\ SlotServed
  /\ \A s \in Slot : s \notin torn /\ ~Moving(s) => Settled(s)

IInv == TypeOK /\ MovesInv /\ ToldInv /\ OwnersInv

\* OwnersInv says of a settled slot what SettledSlots says.
LEMMA OwnersMeaning == IInv => SlotServed /\ SettledSlots
<1>1. ASSUME NEW s, \E n \in Node : {m \in Node : s \in owned[m]} = {n}
      PROVE  Cardinality({m \in Node : s \in owned[m]}) = 1
  BY <1>1, FS_Singleton, Zenon
<1> QED BY <1>1, Zenon DEF IInv, OwnersInv, SettledSlots, Settled

LEMMA InitOwners == Init => ToldInv /\ OwnersInv
<1> SUFFICES ASSUME Init PROVE ToldInv /\ OwnersInv
  OBVIOUS
<1>1. \A s \in Slot, n \in Node : s \in owned[n] <=> n = FirstOwner[s]
  BY DEF Init
<1>2. ASSUME NEW s \in Slot PROVE Settled(s)
  <2>1. FirstOwner[s] \in Node
    BY SlotMigrationAssumption
  <2>2. {m \in Node : s \in owned[m]} = {FirstOwner[s]}
    BY <1>1, <2>1
  <2>3. \A n \in Node : importing[n][s] = NoNode /\ migrating[n][s] = NoNode
    BY DEF Init
  <2> QED BY <2>1, <2>2, <2>3 DEF Settled
<1>3. SlotServed
  BY <1>1, SlotMigrationAssumption, Zenon DEF SlotServed
<1>4. ToldInv
  BY DEF Init, ToldInv
<1> QED BY <1>2, <1>3, <1>4 DEF OwnersInv

\* The effect of SETSLOT NODE on the owners: only slot s of node n changes.
LEMMA SetSlotEffect ==
  ASSUME TypeOK, NEW n \in Node, NEW s \in Slot, NEW new \in Node, ClusterSetSlot(n, s, new)
  PROVE  /\ s \in owned'[n] <=> n = new
         /\ importing'[n][s] = NoNode /\ migrating'[n][s] = NoNode
         /\ \A m \in Node, t \in Slot : m # n \/ t # s =>
              /\ t \in owned'[m] <=> t \in owned[m]
              /\ importing'[m][t] = importing[m][t] /\ migrating'[m][t] = migrating[m][t]
BY Zenon DEF TypeOK, ClusterSetSlot

\* A step that leaves slot t alone on every node leaves it settled.
LEMMA SettledKept ==
  ASSUME NEW t \in Slot, Settled(t),
         \A m \in Node :
           /\ t \in owned'[m] <=> t \in owned[m]
           /\ importing'[m][t] \in {importing[m][t], NoNode}
           /\ migrating'[m][t] \in {migrating[m][t], NoNode}
  PROVE  Settled(t)'
<1>1. {m \in Node : t \in owned'[m]} = {m \in Node : t \in owned[m]}
  OBVIOUS
<1> QED BY <1>1, Zenon DEF Settled

\* Messages and clients change neither the owners nor the coordinator.
LEMMA QuietOwners ==
  ASSUME IInv, UNCHANGED <<nodeVars, coordVars>>
  PROVE  ToldInv' /\ OwnersInv'
<1>1. ToldInv'
  BY Zenon DEF IInv, ToldInv, Informed, CurSlot, Target, nodeVars, coordVars
<1>2. SlotServed'
  BY Zenon DEF IInv, OwnersInv, SlotServed, nodeVars
<1>3. \A s \in Slot : (Moving(s)' <=> Moving(s)) /\ (Settled(s)' <=> Settled(s)) /\ torn' = torn
  BY DEF Moving, Settled, CurSlot, nodeVars, coordVars
<1> QED BY <1>1, <1>2, <1>3, Zenon DEF IInv, OwnersInv

\* SETSLOT STABLE only clears marks.
LEMMA StableOwners ==
  ASSUME IInv, NEW n \in Node, NEW s \in Slot, SetSlotStable(n, s)
  PROVE  ToldInv' /\ OwnersInv'
<1>1. UNCHANGED <<owned, pc, moves, rest, torn>>
  BY DEF SetSlotStable, coordVars
<1>2. \A m \in Node, t \in Slot :
        /\ importing'[m][t] \in {importing[m][t], NoNode}
        /\ migrating'[m][t] \in {migrating[m][t], NoNode}
  BY DEF IInv, TypeOK, SetSlotStable
<1>3. SlotServed'
  BY <1>1 DEF IInv, OwnersInv, SlotServed
<1>4. ASSUME NEW t \in Slot, t \notin torn', ~Moving(t)' PROVE Settled(t)'
  <2>1. Settled(t)
    BY <1>1, <1>4 DEF IInv, OwnersInv, Moving, CurSlot
  <2> QED BY <1>1, <1>2, <2>1, SettledKept, Zenon
<1>5. ToldInv'
  <2>1. pc \in {"release", "inform"} => CurSlot \in Slot /\ Target \in Node
    BY CurrentType DEF IInv, MovesInv, Busy
  <2> QED BY <1>1, <1>2, <2>1, Zenon DEF IInv, ToldInv, Informed, CurSlot, Target
<1> QED BY <1>3, <1>4, <1>5 DEF OwnersInv

\* The steps of the coordinator that change neither the slots of a node nor, for a
\* slot that stays in its hands, anything but marks.
LEMMA EarlyOwners ==
  ASSUME IInv,
         \/ Connect \/ MarkImporting \/ MarkMigrating \/ ListKeys \/ Abort
         \/ \E p \in Contacts : Start(p)
  PROVE  ToldInv' /\ OwnersInv'
<1>1. owned' = owned /\ SlotServed'
  BY DEF IInv, OwnersInv, SlotServed, Connect, MarkImporting, MarkMigrating, ListKeys,
         Abort, Start, nodeVars
<1>2. ToldInv'
  BY Zenon DEF ToldInv, Connect, MarkImporting, MarkMigrating, ListKeys, Abort, Start
<1>3. ASSUME NEW t \in Slot, t \notin torn', ~Moving(t)' PROVE Settled(t)'
  <2>1. t \notin torn /\ ~Moving(t)
    BY <1>3 DEF Moving, CurSlot, Connect, MarkImporting, MarkMigrating, ListKeys, Abort, Start
  <2>2. Settled(t)
    BY <2>1 DEF IInv, OwnersInv
  <2>3. \A m \in Node : importing'[m][t] = importing[m][t] /\ migrating'[m][t] = migrating[m][t]
    <3>1. CASE MarkImporting \/ MarkMigrating
      <4>1. t # CurSlot
        BY <2>1, <3>1, Zenon DEF Moving, MarkImporting, MarkMigrating
      <4>2. CASE MarkImporting
        BY <4>1, <4>2, Zenon DEF IInv, TypeOK, MarkImporting
      <4>3. CASE MarkMigrating
        BY <4>1, <4>3, Zenon DEF IInv, TypeOK, MarkMigrating
      <4> QED BY <3>1, <4>2, <4>3, Zenon
    <3>2. CASE ~(MarkImporting \/ MarkMigrating)
      BY <3>2 DEF Connect, ListKeys, Abort, Start, nodeVars
    <3> QED BY <3>1, <3>2
  <2> QED BY <1>1, <2>2, <2>3, SettledKept, Zenon
<1> QED BY <1>1, <1>2, <1>3, Zenon DEF OwnersInv

\* Telling a node of the new owner, with the target already an owner or about to be
\* one: every slot stays served, and only the current one changes.
LEMMA TellOwners ==
  ASSUME IInv, pc \in {"claim", "release", "inform"}, NEW n \in Node,
         ClusterSetSlot(n, CurSlot, Target), n = Target \/ pc # "claim",
         moves' = moves, torn' = torn, pc' \in {"release", "inform"}
  PROVE  OwnersInv' /\ Informed(n)' /\ \A m \in Node : Informed(m) => Informed(m)'
<1>1. Source \in Node /\ Target \in Node /\ CurSlot \in Slot
  BY CurrentType DEF IInv, MovesInv, Busy
<1>2. CurSlot' = CurSlot /\ Target' = Target
  BY DEF CurSlot, Target
<1>3. /\ CurSlot \in owned'[n] <=> n = Target
      /\ importing'[n][CurSlot] = NoNode /\ migrating'[n][CurSlot] = NoNode
      /\ \A m \in Node, t \in Slot : m # n \/ t # CurSlot =>
           /\ t \in owned'[m] <=> t \in owned[m]
           /\ importing'[m][t] = importing[m][t] /\ migrating'[m][t] = migrating[m][t]
  <2>1. TypeOK
    BY DEF IInv
  <2> DEFINE s == CurSlot  new == Target
  <2>2. s \in Slot /\ new \in Node /\ ClusterSetSlot(n, s, new)
    BY <1>1, Zenon
  <2> HIDE DEF s, new
  <2>3. /\ s \in owned'[n] <=> n = new
        /\ importing'[n][s] = NoNode /\ migrating'[n][s] = NoNode
        /\ \A m \in Node, t \in Slot : m # n \/ t # s =>
             /\ t \in owned'[m] <=> t \in owned[m]
             /\ importing'[m][t] = importing[m][t] /\ migrating'[m][t] = migrating[m][t]
    BY <2>1, <2>2, SetSlotEffect
  <2> QED BY <2>3, Zenon DEF s, new
<1>4. Informed(n)'
  BY <1>2, <1>3, Zenon DEF Informed
<1>5. ASSUME NEW m \in Node, Informed(m) PROVE Informed(m)'
  BY <1>1, <1>2, <1>3, <1>4, <1>5, Zenon DEF Informed
<1>6. CurSlot \in owned'[Target]
  <2>1. CASE n = Target
    BY <1>3, <2>1, Zenon
  <2>2. CASE n # Target
    BY <1>1, <1>3, <2>2, Zenon DEF IInv, ToldInv, Informed
  <2> QED BY <2>1, <2>2, Zenon
<1>7. SlotServed'
  <2> SUFFICES ASSUME NEW t \in Slot PROVE \E m \in Node : t \in owned'[m]
    BY DEF SlotServed
  <2>1. CASE t = CurSlot
    BY <1>1, <1>6, <2>1, Zenon
  <2>2. CASE t # CurSlot
    BY <1>3, <2>2, Zenon DEF IInv, OwnersInv, SlotServed
  <2> QED BY <2>1, <2>2
<1>8. ASSUME NEW t \in Slot, t \notin torn', ~Moving(t)' PROVE Settled(t)'
  <2>1. t # CurSlot
    BY <1>2, <1>8 DEF Moving
  <2>2. Settled(t)
    BY <1>8, <2>1 DEF IInv, OwnersInv, Moving
  <2> QED BY <1>3, <2>1, <2>2, SettledKept
<1> QED BY <1>4, <1>5, <1>7, <1>8, Zenon DEF OwnersInv

\* The target claims, the source and then the others let go, and the move ends when
\* all have been told.
LEMMA HandOverOwners ==
  ASSUME IInv, Claim \/ Release \/ SlotDone \/ \E n \in Node : Inform(n)
  PROVE  ToldInv' /\ OwnersInv'
<1>1. Source \in Node /\ Target \in Node /\ CurSlot \in Slot
  BY CurrentType DEF IInv, Claim, Release, SlotDone, Inform, MovesInv, Busy
<1> PICK t \in Node : t = Target
  BY <1>1
<1> PICK r \in Node : r = Source
  BY <1>1
<1>2. CASE Claim
  <2>1. OwnersInv' /\ Informed(t)'
    BY <1>2, TellOwners, Zenon DEF Claim
  <2>2. Target' = t /\ pc' = "release"
    BY <1>2 DEF Claim, Target
  <2>3. Informed(Target)'
    BY <2>1, <2>2
  <2> QED BY <2>1, <2>2, <2>3, Zenon DEF ToldInv
<1>3. CASE Release
  <2>1. /\ OwnersInv' /\ Informed(r)'
        /\ \A m \in Node : Informed(m) => Informed(m)'
    BY <1>3, TellOwners DEF Release
  <2>2. Informed(t)'
    BY <1>3, <2>1, Zenon DEF IInv, ToldInv, Release
  <2>3. Target' = t /\ rest' = Node \ {r, t}
    BY <1>3 DEF Release, Target
  <2>4. \A n \in Node \ rest' : Informed(n)'
    BY <2>1, <2>2, <2>3
  <2>5. Informed(Target)'
    BY <2>2, <2>3
  <2> QED BY <2>1, <2>4, <2>5, Zenon DEF ToldInv
<1>4. ASSUME NEW n \in Node, Inform(n), HostKnown(contact, n) PROVE ToldInv' /\ OwnersInv'
  <2>1. /\ OwnersInv' /\ Informed(n)'
        /\ \A m \in Node : Informed(m) => Informed(m)'
    BY <1>1, <1>4, TellOwners, Zenon DEF Inform
  <2>2. pc = "inform" /\ pc' = pc /\ Target' = Target /\ rest' = rest \ {n}
    BY <1>4 DEF Inform, Target
  <2>3. \A m \in Node \ rest' : Informed(m)'
    BY <2>1, <2>2, Zenon DEF IInv, ToldInv
  <2>4. t \notin rest'
    BY <2>2 DEF IInv, TypeOK
  <2>5. Informed(Target)'
    BY <2>2, <2>3, <2>4
  <2> QED BY <2>1, <2>3, <2>5, Zenon DEF ToldInv
<1>5. ASSUME NEW n \in Node, Inform(n), ~HostKnown(contact, n) PROVE ToldInv' /\ OwnersInv'
  <2>1. UNCHANGED <<owned, importing, migrating>> /\ pc' = "failed" /\ torn' = torn \cup {CurSlot}
    BY <1>5, Zenon DEF Inform, nodeVars
  <2>2. ASSUME NEW s \in Slot, s \notin torn' PROVE Settled(s)'
    <3>1. Settled(s)
      BY <2>1, <2>2 DEF IInv, OwnersInv, Moving
    <3> QED BY <2>1, <3>1, SettledKept
  <2>3. SlotServed'
    BY <2>1 DEF IInv, OwnersInv, SlotServed
  <2> QED BY <2>1, <2>2, <2>3, Zenon DEF ToldInv, OwnersInv
<1>6. CASE SlotDone
  <2>1. /\ UNCHANGED <<owned, importing, migrating>> /\ torn' = torn \ {CurSlot}
        /\ pc' \in {"importing", "connect"} /\ pc = "inform" /\ rest = {}
    BY <1>6 DEF SlotDone, nodeVars
  <2>2. Settled(CurSlot)
    <3>1. \A n \in Node : Informed(n)
      BY <2>1 DEF IInv, ToldInv
    <3>2. {m \in Node : CurSlot \in owned[m]} = {Target}
      BY <1>1, <3>1, Zenon DEF Informed
    <3> QED BY <1>1, <3>1, <3>2, Zenon DEF Settled, Informed
  <2>3. ASSUME NEW s \in Slot, s \notin torn' PROVE Settled(s)'
    <3>1. Settled(s)
      BY <2>1, <2>2, <2>3, Zenon DEF IInv, OwnersInv, Moving
    <3> QED BY <2>1, <3>1, SettledKept
  <2>4. SlotServed'
    BY <2>1 DEF IInv, OwnersInv, SlotServed
  <2> QED BY <2>1, <2>3, <2>4 DEF ToldInv, OwnersInv
<1> QED BY <1>2, <1>3, <1>4, <1>5, <1>6, Zenon

LEMMA OwnersStep == IInv /\ [Next]_vars => ToldInv' /\ OwnersInv'
<1> SUFFICES ASSUME IInv, [Next]_vars PROVE ToldInv' /\ OwnersInv'
  OBVIOUS
<1>1. ASSUME UNCHANGED vars PROVE UNCHANGED <<nodeVars, coordVars>>
  BY <1>1 DEF vars, nodeVars, coordVars
<1>2. ASSUME NEW p \in Node, NEW q \in Node, SendBitmap(p, q) \/ HearBitmap(p, q)
      PROVE  UNCHANGED <<nodeVars, coordVars>>
  BY <1>2, Zenon DEF SendBitmap, HearBitmap
<1>3. ASSUME NEW n \in Node, NEW k \in Key, CheckOwner(n, k) \/ StoreKey(n, k) \/ DeleteKey(n, k)
      PROVE  UNCHANGED <<nodeVars, coordVars>>
  BY <1>3 DEF CheckOwner, StoreKey, DeleteKey
<1>4. ASSUME CoordinatorStep \/ Abort \/ \E p \in Contacts : Start(p)
      PROVE  ToldInv' /\ OwnersInv'
  BY <1>4, EarlyOwners, HandOverOwners DEF CoordinatorStep
<1>5. ASSUME NEW n \in Node, NEW s \in Slot, SetSlotStable(n, s)
      PROVE  ToldInv' /\ OwnersInv'
  BY <1>5, StableOwners
<1> QED BY <1>1, <1>2, <1>3, <1>4, <1>5, QuietOwners, Zenon DEF Next

LEMMA OwnersInvariant == Spec => []IInv
<1>1. Init => IInv
  BY InitType, InitOwners DEF IInv
<1>2. IInv /\ [Next]_vars => IInv'
  BY TypeStep, OwnersStep DEF IInv
<1> QED BY <1>1, <1>2, PTL DEF Spec

\* Wherever a rebalance breaks off (cluster.go:500-638), however often it is run again
\* and however stale its plan is, every slot has a node that serves it.
THEOREM ServedCorrect == Spec => []SlotServed
BY OwnersMeaning, OwnersInvariant, PTL

\* A slot that no coordinator is moving and no broken move has left behind has one
\* owner and no mark: a complete move cleans up whatever earlier ones left.
THEOREM SettledCorrect == Spec => []SettledSlots
BY OwnersMeaning, OwnersInvariant, PTL

-----------------------------------------------------------------------------
(***************************************************************************)
(* Keys.  A rebalance that is planned from bitmaps which are up to date,   *)
(* when no earlier one has left a slot half moved, takes every slot from   *)
(* its only owner and names none twice.  Then no node but the source and   *)
(* the target loses a slot, and the source only after it was seen empty.   *)
(***************************************************************************)

\* No slot stands at two places of the transfers m.
Distinct(m) ==
  \A i, k \in 1 .. Len(m) :
    \A j \in 1 .. Len(m[i].slots), l \in 1 .. Len(m[k].slots) :
      m[i].slots[j] = m[k].slots[l] => i = k /\ j = l

\* Nobody but m serves slot s.
OnlyAt(s, m) == \A n \in Node : s \in owned[n] => n = m

\* Every slot that is still to be handed over is served by its source only.
SourceOnly ==
  \A i \in 1 .. Len(moves) : \A j \in 1 .. Len(moves[i].slots) :
    i # 1 \/ j # 1 \/ pc \notin {"release", "inform"}
      => OnlyAt(moves[i].slots[j], moves[i].src)

KeysInv ==
  /\ KeysFollowOwner
  /\ pc \in Busy \cup {"connect"} => Distinct(moves) /\ SourceOnly
  /\ pc \in {"release", "inform"} =>
       \A n \in Node : CurSlot \in owned[n] => n = Source \/ n = Target
  /\ pc \in {"claim", "release"} => \A k \in KeysIn(Source, CurSlot) : <<Source, k>> \in late

\* What the rebalance starts from: the entries of the contacted node claim no slot for
\* a node that has lost it, and no slot was left behind by a move that broke off.
Fresh(p) == torn = {} /\ \A n \in Node : Entry(p, n) \subseteq owned[n]

OneOwner == \A s \in Slot : \A m, n \in Node : s \in owned[m] /\ s \in owned[n] => m = n

\* A plan made from such entries.
LEMMA PlanPlaces ==
  ASSUME SlotsTyped, NEW p \in Node, \A n \in Node : Entry(p, n) \subseteq owned[n], OneOwner
  PROVE  /\ Distinct(Plan(p))
         /\ \A i \in 1 .. Len(Plan(p)) : \A j \in 1 .. Len(Plan(p)[i].slots) :
              OnlyAt(Plan(p)[i].slots[j], Plan(p)[i].src)
<1> DEFINE k == Cardinality(Givers(p))
           src(i) == Nth(Givers(p), Descending(p), i)
           dst(i) == Nth(Node, ByBalance(p), i)
           slots(i) == ReshardTable(p, src(i), Balance(p, src(i)))
           m == Plan(p)
<1>1. Givers(p) \in SUBSET Node /\ \A n \in Givers(p) : Balance(p, n) > 0
  BY DEF Givers
<1>2. IsFiniteSet(Givers(p))
  BY <1>1, FS_Subset, SlotMigrationAssumption
<1>3. k \in Nat
  BY <1>2, FS_CardinalityType, Zenon
<1>4. Orders(Descending(p), Givers(p))
  BY <1>1, BalanceOrders DEF Orders
<1>5. \A i \in 1 .. k : src(i) \in Givers(p)
  BY <1>2, <1>4, NthInSet, Zenon
<1>6. \A i, h \in 1 .. k : src(i) = src(h) => i = h
  BY <1>2, <1>4, NthInjective, Zenon
<1>7. ASSUME NEW i \in 1 .. k
      PROVE  /\ src(i) \in Node
             /\ \A j \in 1 .. Len(slots(i)) :
                  /\ slots(i)[j] \in Entry(p, src(i))
                  /\ \A l \in 1 .. Len(slots(i)) : slots(i)[j] = slots(i)[l] => j = l
  <2>1. src(i) \in Node /\ Balance(p, src(i)) > 0
    BY <1>1, <1>5, Zenon
  <2> HIDE DEF src
  <2> QED BY <2>1, ReshardTableType, Zenon
<1>8. m = [i \in 1 .. k |-> [src |-> src(i), dst |-> dst(i), slots |-> slots(i)]]
  BY Zenon DEF Plan
<1> HIDE DEF src, dst, slots, k, m
<1>9. Len(m) = k
  BY <1>3, <1>8
<1>10. \A i \in 1 .. k : m[i].src = src(i) /\ m[i].slots = slots(i)
  BY <1>8, Zenon
<1>11. ASSUME NEW i \in 1 .. k, NEW j \in 1 .. Len(slots(i))
       PROVE  slots(i)[j] \in Slot /\ slots(i)[j] \in owned[src(i)]
  <2>1. src(i) \in Node /\ slots(i)[j] \in Entry(p, src(i))
    BY <1>7, Zenon
  <2>2. Entry(p, src(i)) \in SUBSET Slot
    BY <2>1, BalanceType, Zenon
  <2> QED BY <2>1, <2>2, Zenon
<1>12. ASSUME NEW i \in 1 .. k, NEW j \in 1 .. Len(slots(i)), NEW n \in Node,
              slots(i)[j] \in owned[n]
       PROVE  n = src(i)
  BY <1>7, <1>11, <1>12, Zenon DEF OneOwner
<1>13. ASSUME NEW i \in 1 .. k, NEW h \in 1 .. k,
              NEW j \in 1 .. Len(slots(i)), NEW l \in 1 .. Len(slots(h)),
              slots(i)[j] = slots(h)[l]
       PROVE  i = h /\ j = l
  <2>1. src(i) = src(h)
    BY <1>7, <1>11, <1>12, <1>13, Zenon
  <2>2. i = h
    BY <1>6, <2>1, Zenon
  <2> QED BY <1>7, <1>13, <2>2, Zenon
<1>14. Distinct(m)
  BY <1>9, <1>10, <1>13 DEF Distinct
<1>15. \A i \in 1 .. Len(m) : \A j \in 1 .. Len(m[i].slots) : OnlyAt(m[i].slots[j], m[i].src)
  BY <1>9, <1>10, <1>12, Zenon DEF OnlyAt
<1> QED BY <1>14, <1>15, Zenon DEF m

\* The slot in the coordinator's hands stands at the first place.
LEMMA CurrentPlace ==
  ASSUME TypeOK, MovesInv, moves # <<>>
  PROVE  /\ 1 \in 1 .. Len(moves) /\ 1 \in 1 .. Len(moves[1].slots)
         /\ CurSlot = moves[1].slots[1] /\ Source = moves[1].src
<1>1. moves \in Seq(Transfer) /\ Head(moves).slots \in Seq(Slot) /\ Head(moves).slots # <<>>
  BY CurrentType, Zenon DEF TypeOK, Transfer
<1>2. Head(moves) = moves[1] /\ 1 \in 1 .. Len(moves)
  BY <1>1
<1> DEFINE q == moves[1].slots
<1>3. q \in Seq(Slot) /\ q # <<>>
  BY <1>1, <1>2
<1>4. Head(moves).src = moves[1].src /\ Head(Head(moves).slots) = Head(q)
  BY <1>2
<1> HIDE DEF q
<1>5. 1 \in 1 .. Len(q) /\ Head(q) = q[1]
  BY <1>3
<1> QED BY <1>2, <1>4, <1>5, Zenon DEF q, CurSlot, Source

\* Steps that change neither the owners nor the keys nor the coordinator.
LEMMA QuietKeys ==
  ASSUME KeysInv, UNCHANGED <<owned, keys, late, pc, moves>>
  PROVE  KeysInv'
<1>1. KeysFollowOwner'
  BY Zenon DEF KeysInv, KeysFollowOwner
<1>2. CurSlot' = CurSlot /\ Source' = Source /\ Target' = Target
  BY Zenon DEF CurSlot, Source, Target
<1>3. (Distinct(moves) /\ SourceOnly) => (Distinct(moves) /\ SourceOnly)'
  BY DEF Distinct, SourceOnly, OnlyAt
<1>4. KeysIn(Source, CurSlot)' = KeysIn(Source, CurSlot)
  BY <1>2 DEF KeysIn
<1> QED BY <1>1, <1>2, <1>3, <1>4 DEF KeysInv

\* A SET is stored or a key is deleted.
LEMMA ClientKeys ==
  ASSUME IInv, KeysInv, NEW n \in Node, NEW k \in Key, StoreKey(n, k) \/ DeleteKey(n, k)
  PROVE  KeysInv'
<1>1. UNCHANGED <<owned, pc, moves>>
  BY DEF StoreKey, DeleteKey, nodeVars, coordVars
<1>2. CurSlot' = CurSlot /\ Source' = Source /\ Target' = Target
  BY <1>1 DEF CurSlot, Source, Target
<1>3. (Distinct(moves) /\ SourceOnly) => (Distinct(moves) /\ SourceOnly)'
  BY <1>1 DEF Distinct, SourceOnly, OnlyAt
<1>4. pc \in {"claim", "release"} => Source \in Node
  BY CurrentType, Zenon DEF IInv, MovesInv, Busy
<1>5. ASSUME NEW m \in Node, NEW x, x \in keys'[m]
      PROVE  \/ x \in keys[m] /\ (<<m, x>> \in late => <<m, x>> \in late')
             \/ m = n /\ x = k /\ StoreKey(n, k)
  <2>1. CASE StoreKey(n, k)
    <3>1. late \subseteq late' /\ keys' = [keys EXCEPT ![n] = @ \cup {k}]
      BY <2>1 DEF StoreKey
    <3> QED BY <1>5, <2>1, <3>1, Zenon DEF IInv, TypeOK
  <2>2. CASE DeleteKey(n, k)
    <3>1. late' = late \ {<<n, k>>} /\ keys' = [keys EXCEPT ![n] = @ \ {k}]
      BY <2>2, Zenon DEF DeleteKey
    <3>2. x \in keys[m] /\ ~(m = n /\ x = k)
      BY <1>5, <3>1, Zenon DEF IInv, TypeOK
    <3> QED BY <3>1, <3>2, Zenon
  <2> QED BY <2>1, <2>2, Zenon
<1>6. KeysFollowOwner'
  <2> SUFFICES ASSUME NEW m \in Node, NEW x \in keys'[m]
               PROVE  SlotOf[x] \in owned[m] \/ <<m, x>> \in late'
    BY <1>1, Zenon DEF KeysFollowOwner
  <2>1. CASE x \in keys[m] /\ (<<m, x>> \in late => <<m, x>> \in late')
    BY <2>1, Zenon DEF KeysInv, KeysFollowOwner
  <2>2. CASE m = n /\ x = k /\ StoreKey(n, k)
    BY <2>2, Zenon DEF StoreKey
  <2>3. \/ x \in keys[m] /\ (<<m, x>> \in late => <<m, x>> \in late')
        \/ m = n /\ x = k /\ StoreKey(n, k)
    BY <1>5, Zenon
  <2> QED BY <2>1, <2>2, <2>3
<1>7. ASSUME pc \in {"claim", "release"}, NEW x \in KeysIn(Source, CurSlot)'
      PROVE  <<Source, x>> \in late'
  <2>1. Source \in Node /\ x \in keys'[Source] /\ SlotOf[x] = CurSlot
    BY <1>2, <1>4, <1>7, Zenon DEF KeysIn
  <2>2. CASE x \in keys[Source] /\ (<<Source, x>> \in late => <<Source, x>> \in late')
    BY <1>7, <2>1, <2>2 DEF KeysInv, KeysIn
  <2>3. CASE Source = n /\ x = k /\ StoreKey(n, k)
    <3>1. HandingOver(n, SlotOf[k])
      BY <1>7, <2>1, <2>3, Zenon DEF HandingOver, Source, CurSlot
    <3> QED BY <2>3, <3>1, Zenon DEF StoreKey
  <2>4. \/ x \in keys[Source] /\ (<<Source, x>> \in late => <<Source, x>> \in late')
        \/ Source = n /\ x = k /\ StoreKey(n, k)
    BY <1>5, <2>1, Zenon
  <2> QED BY <2>2, <2>3, <2>4, Zenon
<1> QED BY <1>1, <1>2, <1>3, <1>6, <1>7 DEF KeysInv

\* The steps of a transfer before the hand-over, and a broken connection.
LEMMA EarlyKeys ==
  ASSUME KeysInv, Connect \/ MarkImporting \/ MarkMigrating \/ ListKeys \/ Abort
  PROVE  KeysInv'
<1>1. UNCHANGED <<owned, keys, late, moves>>
  BY DEF Connect, MarkImporting, MarkMigrating, ListKeys, Abort, nodeVars, clientVars
<1>2. KeysFollowOwner'
  BY <1>1, Zenon DEF KeysInv, KeysFollowOwner
<1>3. /\ pc' \in Busy \cup {"connect"} => pc \in Busy \cup {"connect"}
      /\ pc' \notin {"release", "inform"}
      /\ pc' \in Busy \cup {"connect"} => pc \notin {"release", "inform"}
      /\ pc' = "claim" => KeysIn(Source, CurSlot) = {}
  BY DEF Connect, MarkImporting, MarkMigrating, ListKeys, Abort, Busy
<1>4. CurSlot' = CurSlot /\ Source' = Source
  BY <1>1 DEF CurSlot, Source
<1>5. KeysIn(Source, CurSlot)' = KeysIn(Source, CurSlot)
  BY <1>1, <1>4 DEF KeysIn
<1>6. pc' \in Busy \cup {"connect"} => (Distinct(moves) /\ SourceOnly)'
  <2>1. pc' \in Busy \cup {"connect"} => Distinct(moves) /\ SourceOnly
    BY <1>3, Zenon DEF KeysInv
  <2>2. Distinct(moves) => Distinct(moves)'
    BY <1>1, Zenon
  <2>3. pc' \in Busy \cup {"connect"} /\ SourceOnly => SourceOnly'
    <3>1. \A s, m : OnlyAt(s, m) => OnlyAt(s, m)'
      BY <1>1 DEF OnlyAt
    <3> QED BY <1>1, <1>3, <3>1, Zenon DEF SourceOnly
  <2> QED BY <2>1, <2>2, <2>3, Zenon
<1> QED BY <1>2, <1>3, <1>5, <1>6, Zenon DEF KeysInv

\* A new run, planned from entries that are up to date.
LEMMA StartKeys ==
  ASSUME IInv, KeysInv, NEW p \in Contacts, Start(p), Fresh(p)
  PROVE  KeysInv'
<1>1. UNCHANGED <<owned, keys, late>> /\ moves' = Plan(p) /\ pc' = "connect"
      /\ pc \in {"idle", "done", "failed"}
  BY Zenon DEF Start, nodeVars, clientVars
<1>2. SlotsTyped /\ p \in Node
  BY SlotMigrationAssumption, Zenon DEF IInv, TypeOK, SlotsTyped
<1>3. OneOwner
  <2> SUFFICES ASSUME NEW s \in Slot, NEW m \in Node, NEW n \in Node,
                      s \in owned[m], s \in owned[n]
               PROVE  m = n
    BY Zenon DEF OneOwner
  <2>1. Settled(s)
    BY <1>1, Zenon DEF IInv, OwnersInv, Fresh, Moving
  <2>2. PICK o \in Node : {h \in Node : s \in owned[h]} = {o}
    BY <2>1, Zenon DEF Settled
  <2>3. m \in {h \in Node : s \in owned[h]} /\ n \in {h \in Node : s \in owned[h]}
    BY Zenon
  <2> QED BY <2>2, <2>3
<1>4. /\ Distinct(Plan(p))
      /\ \A i \in 1 .. Len(Plan(p)) : \A j \in 1 .. Len(Plan(p)[i].slots) :
           OnlyAt(Plan(p)[i].slots[j], Plan(p)[i].src)
  BY <1>2, <1>3, PlanPlaces, Zenon DEF Fresh
<1>5. Distinct(moves)'
  BY <1>1, <1>4, Zenon
<1>6. SourceOnly'
  BY <1>1, <1>4, Zenon DEF SourceOnly, OnlyAt
<1>7. KeysFollowOwner'
  BY <1>1, Zenon DEF KeysInv, KeysFollowOwner
<1> QED BY <1>1, <1>5, <1>6, <1>7, Zenon DEF KeysInv

\* A node is told of the new owner: only the current slot changes hands.
LEMMA TellKeys ==
  ASSUME IInv, KeysInv, pc \in {"claim", "release", "inform"}, NEW n \in Node,
         ClusterSetSlot(n, CurSlot, Target), moves' = moves, pc' \in {"release", "inform"}
  PROVE  /\ Distinct(moves)' /\ SourceOnly'
         /\ \A m \in Node : CurSlot \in owned'[m] => m = Source \/ m = Target
         /\ \A m \in Node, t \in Slot : t \in owned[m] /\ t \notin owned'[m] =>
              m = n /\ t = CurSlot /\ n # Target
<1>1. Source \in Node /\ Target \in Node /\ CurSlot \in Slot /\ moves # <<>>
  BY CurrentType, Zenon DEF IInv, MovesInv, Busy
<1>2. /\ CurSlot \in owned'[n] <=> n = Target
      /\ \A m \in Node, t \in Slot : m # n \/ t # CurSlot => (t \in owned'[m] <=> t \in owned[m])
  <2>1. TypeOK
    BY DEF IInv
  <2> DEFINE s == CurSlot  new == Target
  <2>2. s \in Slot /\ new \in Node /\ ClusterSetSlot(n, s, new)
    BY <1>1, Zenon
  <2> HIDE DEF s, new
  <2>3. /\ s \in owned'[n] <=> n = new
        /\ \A m \in Node, t \in Slot : m # n \/ t # s => (t \in owned'[m] <=> t \in owned[m])
    BY <2>1, <2>2, SetSlotEffect, Zenon
  <2> QED BY <2>3 DEF s, new
<1>3. Distinct(moves) /\ SourceOnly
  BY Zenon DEF KeysInv, Busy
<1>4. /\ 1 \in 1 .. Len(moves) /\ 1 \in 1 .. Len(moves[1].slots)
      /\ CurSlot = moves[1].slots[1] /\ Source = moves[1].src
  BY <1>1, CurrentPlace, Zenon DEF IInv
<1>5. \A m \in Node : CurSlot \in owned[m] => m = Source \/ m = Target
  <2>1. CASE pc = "claim"
    BY <1>3, <1>4, <2>1, Zenon DEF SourceOnly, OnlyAt
  <2>2. CASE pc # "claim"
    BY <2>2 DEF KeysInv
  <2> QED BY <2>1, <2>2, Zenon
<1>6. Distinct(moves)'
  BY <1>3, Zenon
<1>7. ASSUME NEW i \in 1 .. Len(moves), NEW j \in 1 .. Len(moves[i].slots), i # 1 \/ j # 1,
             NEW m \in Node, moves[i].slots[j] \in owned'[m]
      PROVE  m = moves[i].src
  <2>1. moves[i].slots[j] # CurSlot
    BY <1>3, <1>4, <1>7, Zenon DEF Distinct
  <2>2. moves[i].slots[j] \in Slot
    <3>1. moves \in Seq(Transfer)
      BY Zenon DEF IInv, TypeOK, Transfer
    <3>2. moves[i] \in Transfer
      BY <3>1
    <3>3. moves[i].slots \in Seq(Slot)
      BY <3>2, Zenon DEF Transfer
    <3> QED BY <3>3
  <2>3. moves[i].slots[j] \in owned[m]
    BY <1>2, <1>7, <2>1, <2>2, Zenon
  <2> QED BY <1>3, <1>7, <2>3, Zenon DEF SourceOnly, OnlyAt
<1>8. SourceOnly'
  BY <1>7, Zenon DEF SourceOnly, OnlyAt
<1>9. \A m \in Node : CurSlot \in owned'[m] => m = Source \/ m = Target
  BY <1>1, <1>2, <1>5, Zenon
<1> QED BY <1>2, <1>6, <1>8, <1>9, Zenon

\* The hand-over: the source lets go of a slot only while every key of it there is a
\* late one, and the others had none to lose.
LEMMA HandOverKeys ==
  ASSUME IInv, KeysInv, Claim \/ Release \/ \E n \in Node : Inform(n)
  PROVE  KeysInv'
<1>1. Source \in Node /\ Target \in Node /\ CurSlot \in Slot
  BY CurrentType, Zenon DEF IInv, Claim, Release, Inform, MovesInv, Busy
<1>2. UNCHANGED <<keys, late, moves>>
  BY DEF Claim, Release, Inform, clientVars
<1>3. CurSlot' = CurSlot /\ Source' = Source /\ Target' = Target
  BY <1>2 DEF CurSlot, Source, Target
<1>4. KeysIn(Source, CurSlot)' = KeysIn(Source, CurSlot)
  BY <1>2, <1>3, Zenon DEF KeysIn
<1>5. ASSUME NEW n \in Node, ClusterSetSlot(n, CurSlot, Target),
             pc \in {"claim", "release", "inform"}, pc' \in {"release", "inform"},
             pc = "claim" \/ pc' = "inform",
             n = Target \/ (n = Source /\ pc = "release") \/ CurSlot \notin owned[n]
      PROVE  KeysInv'
  <2>1. /\ Distinct(moves)' /\ SourceOnly'
        /\ \A m \in Node : CurSlot \in owned'[m] => m = Source \/ m = Target
        /\ \A m \in Node, t \in Slot : t \in owned[m] /\ t \notin owned'[m] =>
             m = n /\ t = CurSlot /\ n # Target
    BY <1>2, <1>5, TellKeys, Zenon
  <2>2. KeysFollowOwner'
    <3> SUFFICES ASSUME NEW m \in Node, NEW x \in keys[m],
                        SlotOf[x] \in owned[m], SlotOf[x] \notin owned'[m]
                 PROVE  <<m, x>> \in late
      BY <1>2, Zenon DEF KeysInv, KeysFollowOwner
    <3>1. SlotOf[x] \in Slot
      BY Zenon DEF IInv, TypeOK
    <3>2. m = n /\ SlotOf[x] = CurSlot /\ n # Target
      BY <2>1, <3>1, Zenon
    <3>3. m = Source /\ pc = "release"
      BY <1>5, <3>2, Zenon
    <3> QED BY <3>2, <3>3 DEF KeysInv, KeysIn
  <2>3. pc' \in {"claim", "release"} =>
          \A k \in KeysIn(Source, CurSlot) : <<Source, k>> \in late
    BY <1>5, Zenon DEF KeysInv
  <2> QED BY <1>2, <1>3, <1>4, <2>1, <2>2, <2>3, Zenon DEF KeysInv
<1>6. CASE Claim
  BY <1>1, <1>5, <1>6, Zenon DEF Claim
<1>7. CASE Release
  BY <1>1, <1>5, <1>7, Zenon DEF Release
<1>8. ASSUME NEW n \in Node, Inform(n), HostKnown(contact, n) PROVE KeysInv'
  <2>1. pc = "inform" /\ pc' = "inform" /\ n # Source /\ n # Target
    BY <1>8 DEF Inform, IInv, TypeOK
  <2>2. CurSlot \notin owned[n]
    BY <2>1, Zenon DEF KeysInv
  <2> QED BY <1>5, <1>8, <2>1, <2>2, Zenon DEF Inform
<1>9. ASSUME NEW n \in Node, Inform(n), ~HostKnown(contact, n) PROVE KeysInv'
  <2>1. owned' = owned /\ pc' = "failed"
    BY <1>9 DEF Inform, nodeVars
  <2>2. KeysFollowOwner'
    BY <1>2, <2>1, Zenon DEF KeysInv, KeysFollowOwner
  <2> QED BY <2>1, <2>2, Zenon DEF KeysInv, Busy
<1> QED BY <1>6, <1>7, <1>8, <1>9, Zenon

\* The places of o are those of m without the first one: a whole transfer is dropped
\* (a = 1, b = 0), or the first slot of it (a = 0, b = 1).
Shifted(o, m, a, b) ==
  \A i \in 1 .. Len(o) :
    /\ i + a \in 1 .. Len(m) /\ o[i].src = m[i + a].src
    /\ \A j \in 1 .. Len(o[i].slots) :
         LET l == IF i = 1 THEN j + b ELSE j
         IN  /\ l \in 1 .. Len(m[i + a].slots) /\ o[i].slots[j] = m[i + a].slots[l]
             /\ i + a # 1 \/ l # 1

\* Slot s is the one in place u of transfer x.
Placed(m, x, u, s) == x \in 1 .. Len(m) /\ u \in 1 .. Len(m[x].slots) /\ m[x].slots[u] = s

LEMMA DistinctAt ==
  ASSUME NEW m, Distinct(m), NEW x, NEW y, NEW u, NEW v, NEW s,
         Placed(m, x, u, s), Placed(m, y, v, s)
  PROVE  x = y /\ u = v
BY Zenon DEF Distinct, Placed

LEMMA PlacesLeft ==
  ASSUME NEW m \in Seq(Transfer), NEW o \in Seq(Transfer), Distinct(m),
         NEW a \in 0 .. 1, NEW b \in 0 .. 1, Shifted(o, m, a, b)
  PROVE  /\ Distinct(o)
         /\ \A i \in 1 .. Len(o) : \A j \in 1 .. Len(o[i].slots) :
              \E k \in 1 .. Len(m) : \E l \in 1 .. Len(m[k].slots) :
                /\ k # 1 \/ l # 1
                /\ o[i].slots[j] = m[k].slots[l] /\ o[i].src = m[k].src
<1> DEFINE at(i, j) == IF i = 1 THEN j + b ELSE j
<1>1. ASSUME NEW i \in 1 .. Len(o), NEW j \in 1 .. Len(o[i].slots)
      PROVE  /\ i + a \in 1 .. Len(m) /\ at(i, j) \in 1 .. Len(m[i + a].slots)
             /\ o[i].slots[j] = m[i + a].slots[at(i, j)] /\ o[i].src = m[i + a].src
             /\ i + a # 1 \/ at(i, j) # 1
  BY <1>1 DEF Shifted
<1>2. \A i, j, l \in Int : at(i, j) = at(i, l) => j = l
  OBVIOUS
<1>3. \A i, k \in Int : i + a = k + a => i = k
  OBVIOUS
<1> HIDE DEF at
<1>4. ASSUME NEW i \in 1 .. Len(o), NEW k \in 1 .. Len(o),
             NEW j \in 1 .. Len(o[i].slots), NEW l \in 1 .. Len(o[k].slots),
             o[i].slots[j] = o[k].slots[l]
      PROVE  i = k /\ j = l
  <2>1. Placed(m, i + a, at(i, j), o[i].slots[j])
    BY <1>1, Zenon DEF Placed
  <2>2. Placed(m, k + a, at(k, l), o[i].slots[j])
    BY <1>1, <1>4, Zenon DEF Placed
  <2>3. i + a = k + a /\ at(i, j) = at(k, l)
    <3> DEFINE x == i + a  y == k + a  u == at(i, j)  v == at(k, l)  s == o[i].slots[j]
    <3>1. Placed(m, x, u, s) /\ Placed(m, y, v, s)
      BY <2>1, <2>2, Zenon
    <3> HIDE DEF x, y, u, v, s
    <3>2. x = y /\ u = v
      BY <3>1, DistinctAt, Zenon
    <3> QED BY <3>2, Zenon DEF x, y, u, v
  <2>4. i \in Int /\ k \in Int /\ j \in Int /\ l \in Int
    OBVIOUS
  <2>5. i = k
    BY <1>3, <2>3, <2>4
  <2> QED BY <1>2, <2>3, <2>4, <2>5, Zenon
<1>5. Distinct(o)
  BY <1>4, Zenon DEF Distinct
<1> QED BY <1>1, <1>5, Zenon

LEMMA DoneKeys ==
  ASSUME IInv, KeysInv, SlotDone
  PROVE  KeysInv'
<1> DEFINE m == moves  o == moves'
<1>1. /\ UNCHANGED <<owned, keys, late>> /\ pc = "inform"
      /\ pc' \in {"importing", "connect"}
  BY Zenon DEF SlotDone, nodeVars, clientVars
<1>2. m \in Seq(Transfer) /\ m # <<>> /\ Distinct(m) /\ SourceOnly
  BY <1>1 DEF IInv, TypeOK, Transfer, MovesInv, KeysInv, Busy
<1>3. 1 \in 1 .. Len(m) /\ Head(m) = m[1] /\ Len(m) \in Nat /\ m[1] \in Transfer
  BY <1>2
<1>4. KeysFollowOwner'
  BY <1>1, Zenon DEF KeysInv, KeysFollowOwner
<1>5. o \in Seq(Transfer)
  BY SlotDoneMoves, Zenon DEF IInv
<1>6. m[1].slots \in Seq(Slot)
  BY <1>3, Zenon DEF Transfer
<1>7. /\ Len(m[1].slots) > 1 => o = [m EXCEPT ![1].slots = Tail(@)]
      /\ ~(Len(m[1].slots) > 1) => o = Tail(m)
  BY <1>3, Zenon DEF SlotDone
<1>8. \A i \in 1 .. Len(m) : \A j \in 1 .. Len(m[i].slots) :
        i # 1 \/ j # 1 => OnlyAt(m[i].slots[j], m[i].src)
  BY <1>2, Zenon DEF SourceOnly
<1>9. ASSUME Distinct(o),
             \A i \in 1 .. Len(o) : \A j \in 1 .. Len(o[i].slots) :
               \E k \in 1 .. Len(m) : \E l \in 1 .. Len(m[k].slots) :
                 /\ k # 1 \/ l # 1
                 /\ o[i].slots[j] = m[k].slots[l] /\ o[i].src = m[k].src
      PROVE  KeysInv'
  <2>1. Distinct(moves)'
    BY <1>9, Zenon DEF Distinct
  <2>2. ASSUME NEW i \in 1 .. Len(o), NEW j \in 1 .. Len(o[i].slots), NEW n \in Node,
               o[i].slots[j] \in owned[n]
        PROVE  n = o[i].src
    <3> HIDE DEF m, o
    <3>1. PICK k \in 1 .. Len(m) :
            \E l \in 1 .. Len(m[k].slots) :
              /\ k # 1 \/ l # 1
              /\ o[i].slots[j] = m[k].slots[l] /\ o[i].src = m[k].src
      BY <1>9, Zenon
    <3>2. PICK l \in 1 .. Len(m[k].slots) :
            /\ k # 1 \/ l # 1
            /\ o[i].slots[j] = m[k].slots[l] /\ o[i].src = m[k].src
      BY <3>1, Zenon
    <3>3. OnlyAt(m[k].slots[l], m[k].src)
      BY <1>8, <3>2, Zenon
    <3> QED BY <2>2, <3>2, <3>3, Zenon DEF OnlyAt
  <2>3. SourceOnly'
    BY <1>1, <2>2 DEF SourceOnly, OnlyAt
  <2> QED BY <1>1, <1>4, <2>1, <2>3, Zenon DEF KeysInv
<1> HIDE DEF m, o
<1>10. CASE Len(m[1].slots) > 1
  <2> DEFINE q == m[1].slots
  <2>1. o = [m EXCEPT ![1].slots = Tail(@)]
    BY <1>7, <1>10, Zenon
  <2>2. q \in Seq(Slot) /\ Len(q) > 1
    BY <1>6, <1>10
  <2>3. /\ Len(o) = Len(m)
        /\ o[1].slots = Tail(q) /\ o[1].src = m[1].src
        /\ \A i \in 1 .. Len(m) : i # 1 => o[i] = m[i]
    BY <1>2, <1>3, <2>1 DEF Transfer
  <2>4. m[1].slots = q
    OBVIOUS
  <2> HIDE DEF q
  <2>5. /\ Len(q) \in Nat /\ Len(Tail(q)) = Len(q) - 1
        /\ \A j \in 1 .. Len(Tail(q)) : Tail(q)[j] = q[j + 1] /\ j + 1 \in 1 .. Len(q) /\ j + 1 # 1
    BY <2>2
  <2>6. ASSUME NEW i \in 1 .. Len(o)
        PROVE  /\ i + 0 \in 1 .. Len(m) /\ o[i].src = m[i + 0].src
               /\ \A j \in 1 .. Len(o[i].slots) :
                    LET l == IF i = 1 THEN j + 1 ELSE j
                    IN  /\ l \in 1 .. Len(m[i + 0].slots) /\ o[i].slots[j] = m[i + 0].slots[l]
                        /\ i + 0 # 1 \/ l # 1
    <3>0. i + 0 = i
      OBVIOUS
    <3>1. CASE i = 1
      BY <1>3, <2>3, <2>4, <2>5, <3>0, <3>1, Zenon
    <3>2. CASE i # 1
      BY <2>3, <2>6, <3>0, <3>2, Zenon
    <3> QED BY <3>1, <3>2
  <2>7. Shifted(o, m, 0, 1)
    BY <2>6 DEF Shifted
  <2>8. 0 \in 0 .. 1 /\ 1 \in 0 .. 1
    OBVIOUS
  <2> QED BY <1>2, <1>5, <1>9, <2>7, <2>8, PlacesLeft, Zenon
<1>11. CASE ~(Len(m[1].slots) > 1)
  <2>1. o = Tail(m)
    BY <1>7, <1>11, Zenon
  <2>2. ASSUME NEW i \in 1 .. Len(o)
        PROVE  /\ i + 1 \in 1 .. Len(m) /\ o[i].src = m[i + 1].src
               /\ \A j \in 1 .. Len(o[i].slots) :
                    LET l == IF i = 1 THEN j + 0 ELSE j
                    IN  /\ l \in 1 .. Len(m[i + 1].slots) /\ o[i].slots[j] = m[i + 1].slots[l]
                        /\ i + 1 # 1 \/ l # 1
    <3>1. o[i] = m[i + 1] /\ i + 1 \in 1 .. Len(m) /\ i + 1 # 1
      BY <1>2, <2>1
    <3>2. \A j \in 1 .. Len(o[i].slots) : j + 0 = j
      OBVIOUS
    <3> QED BY <3>1, <3>2, Zenon
  <2>3. Shifted(o, m, 1, 0)
    BY <2>2, Zenon DEF Shifted
  <2>4. 0 \in 0 .. 1 /\ 1 \in 0 .. 1
    OBVIOUS
  <2> QED BY <1>2, <1>5, <1>9, <2>3, <2>4, PlacesLeft, Zenon
<1> QED BY <1>10, <1>11

LEMMA KeysStep ==
  IInv /\ KeysInv /\ [Next]_vars /\ [\A p \in Contacts : Start(p) => Fresh(p)]_vars => KeysInv'
<1> SUFFICES ASSUME IInv, KeysInv, [Next]_vars,
                    [\A p \in Contacts : Start(p) => Fresh(p)]_vars
             PROVE  KeysInv'
  BY Zenon
<1>1. CASE UNCHANGED vars
  BY <1>1, QuietKeys, Zenon DEF vars
<1>2. ASSUME NEW p \in Node, NEW q \in Node, SendBitmap(p, q) \/ HearBitmap(p, q) PROVE KeysInv'
  BY <1>2, QuietKeys, Zenon DEF SendBitmap, HearBitmap, nodeVars, clientVars, coordVars
<1>3. ASSUME NEW n \in Node, NEW k \in Key, CheckOwner(n, k) PROVE KeysInv'
  BY <1>3, QuietKeys, Zenon DEF CheckOwner, nodeVars, coordVars
<1>4. ASSUME NEW n \in Node, NEW s \in Slot, SetSlotStable(n, s) PROVE KeysInv'
  BY <1>4, QuietKeys, Zenon DEF SetSlotStable, clientVars, coordVars
<1>5. ASSUME NEW p \in Contacts, Start(p), ~UNCHANGED vars PROVE KeysInv'
  BY <1>5, StartKeys, Zenon
<1>6. ASSUME CoordinatorStep \/ Abort PROVE KeysInv'
  BY <1>6, EarlyKeys, HandOverKeys, DoneKeys, Zenon DEF CoordinatorStep
<1> QED BY <1>1, <1>2, <1>3, <1>4, <1>5, <1>6, ClientKeys, Zenon DEF Next

LEMMA InitKeys == Init => KeysInv
BY Zenon DEF Init, KeysInv, KeysFollowOwner, Busy

\* As long as every rebalance (cluster.go:500-638) is planned from entries that are up to
\* date and finds no slot half moved, any number of them, broken off anywhere, leaves no
\* key on a node that does not serve its slot, late SETs excepted.
THEOREM FreshRunsKeepKeys ==
  Spec /\ [][\A p \in Contacts : Start(p) => Fresh(p)]_vars => []KeysFollowOwner
<1>1. KeysInv => KeysFollowOwner
  BY Zenon DEF KeysInv
<1> QED BY <1>1, InitKeys, KeysStep, OwnersInvariant, PTL DEF Spec

\* Until the first rebalance the bitmaps that were heard are those of Init.
FirstInv ==
  runs = 0 =>
    /\ pc = "idle" /\ torn = {}
    /\ \A p, q \in Node : view[p][q] \subseteq owned[q]
    /\ \A p, q \in Node : \A i \in 1 .. Len(wire[p][q]) : wire[p][q][i] \subseteq owned[p]

LEMMA FirstStep == TypeOK /\ FirstInv /\ [Next]_vars => FirstInv'
<1> SUFFICES ASSUME TypeOK, FirstInv, [Next]_vars, runs' = 0 PROVE FirstInv'
  BY Zenon DEF FirstInv
<1>1. runs \in Nat
  BY SlotMigrationAssumption DEF TypeOK
<1>2. CASE UNCHANGED <<runs, pc, torn, owned, view, wire>>
  BY <1>2, Zenon DEF FirstInv
<1>3. ASSUME NEW p \in Node, NEW q \in Node, SendBitmap(p, q) PROVE FirstInv'
  <2>1. wire' = [wire EXCEPT ![p][q] = <<owned[p]>>] /\ UNCHANGED <<runs, pc, torn, owned, view>>
    BY <1>3, Zenon DEF SendBitmap, nodeVars, coordVars
  <2>2. \A a, b \in Node : wire'[a][b] = wire[a][b] \/ (a = p /\ wire'[a][b] = <<owned[p]>>)
    BY <2>1, Zenon DEF TypeOK
  <2>3. \A i \in 1 .. Len(<<owned[p]>>) : <<owned[p]>>[i] = owned[p]
    OBVIOUS
  <2>4. \A a, b \in Node : \A i \in 1 .. Len(wire'[a][b]) : wire'[a][b][i] \subseteq owned[a]
    <3> SUFFICES ASSUME NEW a \in Node, NEW b \in Node, NEW i \in 1 .. Len(wire'[a][b])
                 PROVE  wire'[a][b][i] \subseteq owned[a]
      BY Zenon
    <3>1. CASE wire'[a][b] = wire[a][b]
      BY <2>1, <3>1, Zenon DEF FirstInv
    <3>2. CASE a = p /\ wire'[a][b] = <<owned[p]>>
      BY <2>3, <3>2, Zenon
    <3> QED BY <2>2, <3>1, <3>2, Zenon
  <2> QED BY <2>1, <2>4, Zenon DEF FirstInv
<1>4. ASSUME NEW p \in Node, NEW q \in Node, HearBitmap(p, q) PROVE FirstInv'
  <2> DEFINE w == wire[p][q]
  <2>1. /\ view' = [view EXCEPT ![q][p] = Head(w)] /\ wire' = [wire EXCEPT ![p][q] = Tail(w)]
        /\ UNCHANGED <<runs, pc, torn, owned>> /\ w # <<>>
    BY <1>4, Zenon DEF HearBitmap, nodeVars, coordVars
  <2>2. w \in Seq(SUBSET Slot)
    BY DEF TypeOK
  <2>3. \A a, b \in Node : /\ view'[a][b] = view[a][b] \/ (b = p /\ view'[a][b] = Head(w))
                           /\ wire'[a][b] = wire[a][b] \/ (a = p /\ wire'[a][b] = Tail(w))
    BY <2>1, Zenon DEF TypeOK
  <2>4. runs = 0 /\ \A i \in 1 .. Len(w) : w[i] \subseteq owned[p]
    BY <2>1, Zenon DEF FirstInv
  <2> HIDE DEF w
  <2>5. /\ 1 \in 1 .. Len(w) /\ Head(w) = w[1]
        /\ \A i \in 1 .. Len(Tail(w)) : i + 1 \in 1 .. Len(w) /\ Tail(w)[i] = w[i + 1]
    BY <2>1, <2>2
  <2>6. Head(w) \subseteq owned[p] /\ \A i \in 1 .. Len(Tail(w)) : Tail(w)[i] \subseteq owned[p]
    <3>1. w[1] \subseteq owned[p]
      BY <2>4, <2>5, Zenon
    <3>2. ASSUME NEW i \in 1 .. Len(Tail(w)) PROVE Tail(w)[i] \subseteq owned[p]
      <4>1. i + 1 \in 1 .. Len(w) /\ Tail(w)[i] = w[i + 1]
        BY <2>5, Zenon
      <4>2. w[i + 1] \subseteq owned[p]
        BY <2>4, <4>1, Zenon
      <4> QED BY <4>1, <4>2, Zenon
    <3> QED BY <2>5, <3>1, <3>2, Zenon
  <2>7. \A a, b \in Node : view'[a][b] \subseteq owned[b]
    BY <2>3, <2>4, <2>6 DEF FirstInv
  <2>8. \A a, b \in Node : \A i \in 1 .. Len(wire'[a][b]) : wire'[a][b][i] \subseteq owned[a]
    <3> SUFFICES ASSUME NEW a \in Node, NEW b \in Node, NEW i \in 1 .. Len(wire'[a][b])
                 PROVE  wire'[a][b][i] \subseteq owned[a]
      OBVIOUS
    <3>1. CASE wire'[a][b] = wire[a][b]
      BY <2>4, <3>1, Zenon DEF FirstInv
    <3>2. CASE a = p /\ wire'[a][b] = Tail(w)
      BY <2>6, <3>2, Zenon
    <3> QED BY <2>3, <3>1, <3>2, Zenon
  <2> QED BY <2>1, <2>4, <2>7, <2>8, Zenon DEF FirstInv
<1>5. ASSUME NEW p \in Contacts, Start(p) PROVE FALSE
  BY <1>1, <1>5 DEF Start
<1>6. ASSUME CoordinatorStep \/ Abort PROVE FALSE
  <2>1. runs' = runs /\ pc # "idle"
    BY <1>6, Zenon DEF CoordinatorStep, Connect, MarkImporting, MarkMigrating, ListKeys, Claim,
                Release, Inform, SlotDone, Abort
  <2> QED BY <2>1, Zenon DEF FirstInv
<1>7. ASSUME NEW n \in Node, NEW k \in Key, CheckOwner(n, k) \/ StoreKey(n, k) \/ DeleteKey(n, k)
      PROVE  UNCHANGED <<runs, pc, torn, owned, view, wire>>
  BY <1>7, Zenon DEF CheckOwner, StoreKey, DeleteKey, nodeVars, busVars, coordVars
<1>8. ASSUME NEW n \in Node, NEW s \in Slot, SetSlotStable(n, s)
      PROVE  UNCHANGED <<runs, pc, torn, owned, view, wire>>
  BY <1>8, Zenon DEF SetSlotStable, busVars, coordVars
<1>9. ASSUME UNCHANGED vars PROVE UNCHANGED <<runs, pc, torn, owned, view, wire>>
  BY <1>9 DEF vars
<1> QED BY <1>2, <1>3, <1>4, <1>5, <1>6, <1>7, <1>8, <1>9, Zenon DEF Next

\* The first rebalance of a cluster is planned from such entries, whatever messages are
\* on their way: for a single run no key is left behind.
THEOREM FirstRunKeepsKeys == ASSUME MaxRuns <= 1 PROVE Spec => []KeysFollowOwner
<1>1. Init => FirstInv
  <2> SUFFICES ASSUME Init PROVE FirstInv
    BY Zenon
  <2>1. \A p, q \in Node : view[p][q] \subseteq owned[q]
    BY Zenon DEF Init
  <2>2. \A p, q \in Node : wire[p][q] = <<>>
    BY DEF Init
  <2>3. Len(<<>>) = 0 /\ 1 .. 0 = {}
    BY EmptySeq
  <2> QED BY <2>1, <2>2, <2>3, Zenon DEF Init, FirstInv
<1>2. IInv /\ FirstInv /\ [Next]_vars => FirstInv'
  BY FirstStep, Zenon DEF IInv
<1>3. IInv /\ FirstInv => (\A p \in Contacts : Start(p) => Fresh(p))
  <2> SUFFICES ASSUME IInv, FirstInv, NEW p \in Contacts, Start(p) PROVE Fresh(p)
    BY Zenon
  <2>1. runs = 0
    BY SlotMigrationAssumption DEF IInv, TypeOK, Start
  <2>2. p \in Node
    BY SlotMigrationAssumption, Zenon
  <2> QED BY <2>1, <2>2, Zenon DEF FirstInv, Fresh, Entry
<1>4. KeysInv => KeysFollowOwner
  BY Zenon DEF KeysInv
<1>5. IInv /\ FirstInv /\ KeysInv /\ [Next]_vars => KeysInv'
  BY <1>3, KeysStep
<1> QED BY <1>1, <1>2, <1>4, <1>5, InitKeys, OwnersInvariant, PTL DEF Spec
=============================================================================
