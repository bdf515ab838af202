---------------------------- MODULE SlotMigration ----------------------------
(***************************************************************************)
(* Moving hash slots between the nodes of a running cluster: ember-cli's   *)
(* --rebalance-nodes is the coordinator (ClusterRebalanceNodes and         *)
(* clusterMoveSlots), the nodes answer its SETSLOT, GETKEYSINSLOT and      *)
(* MIGRATE commands, exchange their slot bitmaps over the cluster bus and  *)
(* serve clients meanwhile.                                                *)
(*                                                                         *)
(* Nodes are numbers, in the order of their names.  The bus is the star    *)
(* that --create-cluster builds around the first node: the others have a   *)
(* link to Hub only and know each other from gossip, which carries neither *)
(* slots nor a host.  A command and its reply are one step; a connection   *)
(* may break between any two steps of the coordinator.                     *)
(***************************************************************************)
EXTENDS Integers, Sequences, FiniteSets

CONSTANTS Node,        \* nodes
          Hub,         \* the node the others are linked to
          Slot,        \* hash slots
          Key,         \* keys
          SlotOf,      \* SlotForKey
          FirstOwner,  \* who was given a slot by CLUSTER ADDSLOTSRANGE
          Contacts,    \* nodes whose address ember-cli is given
          MaxRuns,     \* bound: runs of the coordinator
          MaxFailures, \* bound: broken connections
          MaxPending   \* bound: SETs between their check and their store

ASSUME SlotMigrationAssumption ==
  /\ Node \subseteq Nat \ {0} /\ IsFiniteSet(Node) /\ Hub \in Node
  /\ Slot \subseteq Nat /\ IsFiniteSet(Slot)
  /\ SlotOf \in [Key -> Slot]
  /\ FirstOwner \in [Slot -> Node]
  /\ Contacts \subseteq Node
  /\ MaxRuns \in Nat /\ MaxFailures \in Nat /\ MaxPending \in Nat

NoNode == 0

VARIABLES owned,      \* per node: Self.OwnedSlots
          view,       \* per node: OwnedSlots in its entry of another node
          table,      \* per node: Slots
          importing,  \* per node: Importing
          migrating,  \* per node: Migrating
          keys,       \* per node: the keys in its slot shards
          wire,       \* slot bitmaps on their way from one node to another
          pending,    \* <<n, k>>: a SET of k passed the owner check of n
          pc,         \* coordinator: the command it sends next
          contact,    \* coordinator: the node whose CLUSTER NODES it read
          moves,      \* coordinator: transfers left, the current one first
          rest,       \* coordinator: nodes not yet told of the new owner
          runs, failures,
          torn,       \* history: slots whose move was given up halfway
          late        \* history: <<n, k>> stored after n's slot was listed as empty

nodeVars == <<owned, table, importing, migrating>>
busVars == <<view, wire>>
clientVars == <<keys, pending, late>>
coordVars == <<pc, contact, moves, rest, runs, failures, torn>>
vars == <<owned, view, table, importing, migrating, keys, wire, pending, pc,
          contact, moves, rest, runs, failures, torn, late>>

Linked(p, q) == p # q /\ Hub \in {p, q}

Init ==
  /\ owned = [n \in Node |-> {s \in Slot : FirstOwner[s] = n}]
  /\ view = [p \in Node |-> [q \in Node |-> IF Linked(p, q) THEN owned[q] ELSE {}]]
  /\ table = [n \in Node |-> [s \in Slot |-> IF FirstOwner[s] = n THEN n ELSE NoNode]]
  /\ importing = [n \in Node |-> [s \in Slot |-> NoNode]]
  /\ migrating = [n \in Node |-> [s \in Slot |-> NoNode]]
  /\ keys = [n \in Node |-> {}]
  /\ wire = [p \in Node |-> [q \in Node |-> <<>>]]
  /\ pending = {}
  /\ pc = "idle" /\ contact = Hub /\ moves = <<>> /\ rest = {}
  /\ runs = 0 /\ failures = 0
  /\ torn = {} /\ late = {}

-----------------------------------------------------------------------------
\* The entry n has of q: its own one is Self.
Entry(n, q) == IF n = q THEN owned[n] ELSE view[n][q]

\* GetSlotOwner(slot) on node n: Self first, then any entry of the map that has
\* the slot; empty where the code returns nil and the client gets CLUSTERDOWN.
GetSlotOwner(n, s) ==
  IF s \in owned[n] THEN {n} ELSE {q \in Node \ {n} : s \in view[n][q]}

\* A PING or a PONG carries the sender's bitmap as it is when the message is built.
SendBitmap(p, q) ==
  /\ Linked(p, q)
  /\ wire[p][q] = <<>>
  /\ wire' = [wire EXCEPT ![p][q] = <<owned[p]>>]
  /\ UNCHANGED <<nodeVars, view, clientVars, coordVars>>

\* Mutant: the receiver adds the bitmap to what it has.
MutHearBitmap(p, q) ==
  /\ wire[p][q] # <<>>
  /\ view' = [view EXCEPT ![q][p] = @ \cup Head(wire[p][q])]
  /\ wire' = [wire EXCEPT ![p][q] = Tail(@)]
  /\ UNCHANGED <<nodeVars, clientVars, coordVars>>

\* clusterProcessMsg: the receiver replaces the sender's bitmap.
HearBitmap(p, q) ==
  /\ wire[p][q] # <<>>
  /\ view' = [view EXCEPT ![q][p] = Head(wire[p][q])]
  /\ wire' = [wire EXCEPT ![p][q] = Tail(@)]
  /\ UNCHANGED <<nodeVars, clientVars, coordVars>>
-----------------------------------------------------------------------------
\* SET: the owner check, which never looks at Importing and Migrating ...
CheckOwner(n, k) ==
  /\ Cardinality(pending) < MaxPending
  /\ GetSlotOwner(n, SlotOf[k]) = {n}
  /\ pending' = pending \cup {<<n, k>>}
  /\ UNCHANGED <<nodeVars, busVars, keys, late, coordVars>>

KeysIn(n, s) == {k \in keys[n] : SlotOf[k] = s}

\* The coordinator has seen slot s of node n empty and still hands it over.
HandingOver(n, s) ==
  /\ pc \in {"claim", "release"}
  /\ n = Head(moves).src /\ s = Head(Head(moves).slots)

\* ... and the store, which does not look again.
StoreKey(n, k) ==
  /\ <<n, k>> \in pending
  /\ pending' = pending \ {<<n, k>>}
  /\ keys' = [keys EXCEPT ![n] = @ \cup {k}]
  /\ late' = IF SlotOf[k] \notin owned[n] \/ HandingOver(n, SlotOf[k])
               THEN late \cup {<<n, k>>} ELSE late
  /\ UNCHANGED <<nodeVars, busVars, coordVars>>

\* DEL removes the key from whatever node it is sent to.
DeleteKey(n, k) ==
  /\ k \in keys[n]
  /\ keys' = [keys EXCEPT ![n] = @ \ {k}]
  /\ late' = late \ {<<n, k>>}
  /\ UNCHANGED <<nodeVars, busVars, pending, coordVars>>
-----------------------------------------------------------------------------
\* ClusterRebalanceNodes: how far a node is above its share of the slots, judged by
\* the entries of the contacted node; the first nodes by name take the remainder.
Rank(n) == Cardinality({m \in Node : m < n})
Share(n) ==
  LET base == Cardinality(Slot) \div Cardinality(Node)
      remainder == Cardinality(Slot) % Cardinality(Node)
  IN IF Rank(n) < remainder THEN base + 1 ELSE base
Balance(p, n) == Cardinality(Entry(p, n)) - Share(n)

\* The i-th element of the set S in the order R.
Nth(S, R, i) == CHOOSE x \in S : Cardinality({y \in S : <<y, x>> \in R}) = i - 1

\* Sorted by name, then by balance; the sort keeps the order of ties for fewer than
\* thirteen nodes.
ByBalance(p) ==
  {e \in Node \X Node : \/ Balance(p, e[1]) < Balance(p, e[2])
                        \/ Balance(p, e[1]) = Balance(p, e[2]) /\ e[1] < e[2]}

\* clusterComputeReshardTable: the first numslots slots of the source, in order.
Ascending == {e \in Slot \X Slot : e[1] < e[2]}
ReshardTable(p, src, numslots) == [i \in 1 .. numslots |-> Nth(Entry(p, src), Ascending, i)]

\* The emptiest node is paired with the fullest, and so on inwards; a pair moves what
\* its fuller node has too much.
Descending(p) == {e \in Node \X Node : <<e[2], e[1]>> \in ByBalance(p)}
Givers(p) ==
  {n \in Node : /\ Balance(p, n) > 0
                /\ Cardinality({m \in Node : <<m, n>> \in Descending(p)})
                     < Cardinality(Node) \div 2}
Plan(p) ==
  [i \in 1 .. Cardinality(Givers(p)) |->
     LET src == Nth(Givers(p), Descending(p), i)
     IN  [src |-> src, dst |-> Nth(Node, ByBalance(p), i),
          slots |-> ReshardTable(p, src, Balance(p, src))]]

\* The host of q is in p's entry of q only if they have a link.
HostKnown(p, q) == p = q \/ Linked(p, q)

Source == Head(moves).src
Target == Head(moves).dst
CurSlot == Head(Head(moves).slots)

\* The slot in the coordinator's hands.
Moving(s) ==
  pc \in {"importing", "migrating", "list", "claim", "release", "inform"} /\ s = CurSlot

Start(p) ==
  /\ pc \in {"idle", "done", "failed"}
  /\ runs < MaxRuns
  /\ runs' = runs + 1
  /\ contact' = p
  /\ moves' = Plan(p)
  /\ pc' = "connect"
  /\ UNCHANGED <<nodeVars, busVars, clientVars, rest, failures, torn>>

\* Top of clusterMoveSlots; no transfer left is the end of the rebalance.
Connect ==
  /\ pc = "connect"
  /\ pc' = IF moves = <<>> THEN "done"
           ELSE IF HostKnown(contact, Source) /\ HostKnown(contact, Target)
             THEN "importing" ELSE "failed"
  /\ UNCHANGED <<nodeVars, busVars, clientVars, contact, moves, rest, runs, failures, torn>>

\* SETSLOT slot IMPORTING source, on the target.
MarkImporting ==
  /\ pc = "importing"
  /\ importing' = [importing EXCEPT ![Target][CurSlot] = Source]
  /\ pc' = "migrating"
  /\ UNCHANGED <<owned, table, migrating, busVars, clientVars,
                 contact, moves, rest, runs, failures, torn>>

\* SETSLOT slot MIGRATING target, on the source.
MarkMigrating ==
  /\ pc = "migrating"
  /\ migrating' = [migrating EXCEPT ![Source][CurSlot] = Target]
  /\ pc' = "list"
  /\ UNCHANGED <<owned, table, importing, busVars, clientVars,
                 contact, moves, rest, runs, failures, torn>>

\* handleMigrate answers OK only to six arguments, the last one the word KEYS; the
\* coordinator puts the keys behind it.
MigrateArgs(ks) == 6 + Cardinality(ks)
handleMigrate(ks) == IF MigrateArgs(ks) # 6 THEN "error" ELSE "OK"

\* Mutant: the reply to MIGRATE is not looked at.
MutListKeys ==
  /\ pc = "list"
  /\ pc' = "claim"
  /\ UNCHANGED <<nodeVars, busVars, clientVars, contact, moves, rest, runs, failures, torn>>

\* GETKEYSINSLOT on the source until it lists no key, MIGRATE for those it lists.
ListKeys ==
  /\ pc = "list"
  /\ LET ks == KeysIn(Source, CurSlot) IN
       \/ ks = {} /\ pc' = "claim" /\ UNCHANGED torn
       \/ ks # {} /\ handleMigrate(ks) # "OK" /\ pc' = "failed" /\ torn' = torn \cup {CurSlot}
  /\ UNCHANGED <<nodeVars, busVars, clientVars, contact, moves, rest, runs, failures>>

\* Mutant: a node that gives the slot away keeps its MIGRATING mark.
MutClusterSetSlot(n, s, new) ==
  /\ table' = [table EXCEPT ![n][s] = new]
  /\ owned' = [owned EXCEPT ![n] = IF n = new THEN @ \cup {s} ELSE @ \ {s}]
  /\ importing' = [importing EXCEPT ![n][s] = NoNode]
  /\ UNCHANGED migrating

\* SETSLOT slot NODE owner, as node n executes it.
ClusterSetSlot(n, s, new) ==
  /\ table' = [table EXCEPT ![n][s] = new]
  /\ owned' = [owned EXCEPT ![n] = IF n = new THEN @ \cup {s} ELSE @ \ {s}]
  /\ importing' = [importing EXCEPT ![n][s] = NoNode]
  /\ migrating' = [migrating EXCEPT ![n][s] = NoNode]

\* Mutant: the source is told first.
MutClaim ==
  /\ pc = "claim"
  /\ ClusterSetSlot(Source, CurSlot, Target)
  /\ pc' = "release"
  /\ UNCHANGED <<busVars, clientVars, contact, moves, rest, runs, failures, torn>>

\* The target is told first ...
Claim ==
  /\ pc = "claim"
  /\ ClusterSetSlot(Target, CurSlot, Target)
  /\ pc' = "release"
  /\ UNCHANGED <<busVars, clientVars, contact, moves, rest, runs, failures, torn>>

\* ... then the source ...
Release ==
  /\ pc = "release"
  /\ ClusterSetSlot(Source, CurSlot, Target)
  /\ rest' = Node \ {Source, Target}
  /\ pc' = "inform"
  /\ UNCHANGED <<busVars, clientVars, contact, moves, runs, failures, torn>>

\* ... then every other node of the map, each over a connection of its own.
Inform(n) ==
  /\ pc = "inform"
  /\ n \in rest
  /\ IF HostKnown(contact, n)
       THEN /\ ClusterSetSlot(n, CurSlot, Target)
            /\ rest' = rest \ {n}
            /\ UNCHANGED <<pc, torn>>
       ELSE /\ pc' = "failed"
            /\ torn' = torn \cup {CurSlot}
            /\ UNCHANGED <<nodeVars, rest>>
  /\ UNCHANGED <<busVars, clientVars, contact, moves, runs, failures>>

\* The next slot of the transfer, or the next transfer.
SlotDone ==
  /\ pc = "inform"
  /\ rest = {}
  /\ torn' = torn \ {CurSlot}
  /\ IF Len(Head(moves).slots) > 1
       THEN /\ moves' = [moves EXCEPT ![1].slots = Tail(@)]
            /\ pc' = "importing"
       ELSE /\ moves' = Tail(moves)
            /\ pc' = "connect"
  /\ UNCHANGED <<nodeVars, busVars, clientVars, contact, rest, runs, failures>>

\* A connection breaks, before or after the command it carried was executed: the
\* coordinator returns the error and undoes nothing.
Abort ==
  /\ pc \notin {"idle", "done", "failed"}
  /\ failures < MaxFailures
  /\ failures' = failures + 1
  /\ pc' = "failed"
  /\ torn' = torn \cup {s \in Slot : Moving(s)}
  /\ UNCHANGED <<nodeVars, busVars, clientVars, contact, moves, rest, runs>>

\* SETSLOT slot STABLE, sent by an operator to clean up.
SetSlotStable(n, s) ==
  /\ importing[n][s] # NoNode \/ migrating[n][s] # NoNode
  /\ importing' = [importing EXCEPT ![n][s] = NoNode]
  /\ migrating' = [migrating EXCEPT ![n][s] = NoNode]
  /\ UNCHANGED <<owned, table, busVars, clientVars, coordVars>>
-----------------------------------------------------------------------------
CoordinatorStep ==
  \/ Connect \/ MarkImporting \/ MarkMigrating \/ ListKeys \/ Claim \/ Release
  \/ (\E n \in Node : Inform(n)) \/ SlotDone

Next ==
  \/ \E p, q \in Node : SendBitmap(p, q) \/ HearBitmap(p, q)
  \/ \E n \in Node, k \in Key : CheckOwner(n, k) \/ StoreKey(n, k) \/ DeleteKey(n, k)
  \/ \E p \in Contacts : Start(p)
  \/ CoordinatorStep
  \/ Abort
  \/ \E n \in Node, s \in Slot : SetSlotStable(n, s)

Spec == Init /\ [][Next]_vars

\* A rebalance that was started goes on, and the two ends of every link keep
\* exchanging PING and PONG: each end's cron pings again and again.
Fairness ==
  /\ WF_vars(CoordinatorStep)
  /\ \A p, q \in Node : WF_vars(SendBitmap(p, q)) /\ WF_vars(HearBitmap(p, q))

FairSpec == Spec /\ Fairness
-----------------------------------------------------------------------------
(* Properties *)

\* Type invariant; the nodes left to tell are neither the source nor the target.
TypeOK ==
  /\ owned \in [Node -> SUBSET Slot]
  /\ view \in [Node -> [Node -> SUBSET Slot]]
  /\ table \in [Node -> [Slot -> Node \cup {NoNode}]]
  /\ importing \in [Node -> [Slot -> Node \cup {NoNode}]]
  /\ migrating \in [Node -> [Slot -> Node \cup {NoNode}]]
  /\ keys \in [Node -> SUBSET Key]
  /\ wire \in [Node -> [Node -> Seq(SUBSET Slot)]]
  /\ pending \subseteq Node \X Key
  /\ pc \in {"idle", "connect", "importing", "migrating", "list", "claim",
             "release", "inform", "done", "failed"}
  /\ contact \in Node
  /\ moves \in Seq([src : Node, dst : Node, slots : Seq(Slot)])
  /\ rest \subseteq Node /\ (pc = "inform" => rest \cap {Source, Target} = {})
  /\ runs \in 0..MaxRuns /\ failures \in 0..MaxFailures
  /\ torn \subseteq Slot
  /\ late \subseteq Node \X Key

\* No slot is ever without a node that serves it, wherever a rebalance breaks off and
\* however stale the plan of the next one is: the target claims before anyone releases.
SlotServed == \A s \in Slot : \E n \in Node : s \in owned[n]

\* A slot that is neither in the coordinator's hands nor left behind by a move that
\* broke off has one owner and no IMPORTING or MIGRATING mark anywhere.  A later move
\* of a slot that broke off, once complete, has settled it too; a slot that no later
\* plan moves stays as it was left.
SettledSlots ==
  \A s \in Slot :
    s \notin torn /\ ~Moving(s) =>
      /\ Cardinality({n \in Node : s \in owned[n]}) = 1
      /\ \A n \in Node : importing[n][s] = NoNode /\ migrating[n][s] = NoNode

\* A rebalance planned from bitmaps that are up to date leaves no key behind on a node
\* that no longer serves its slot, except for a SET that passed its owner check and
\* was stored after the coordinator had seen the slot empty.
KeysFollowOwner ==
  \A n \in Node : \A k \in keys[n] : SlotOf[k] \in owned[n] \/ <<n, k>> \in late

\* Once rebalancing is over, every node that has a bus link with another one ends up
\* with its true bitmap, and the node in the middle routes every slot to an owner.
BitmapsConverge ==
  <>[](/\ \A p, q \in Node : Linked(p, q) => view[p][q] = owned[q]
       /\ \A s \in Slot : GetSlotOwner(Hub, s) # {}
                          /\ \A q \in GetSlotOwner(Hub, s) : s \in owned[q])
=============================================================================
