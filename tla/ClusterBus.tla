------------------------------ MODULE ClusterBus ------------------------------
(***************************************************************************)
(* The cluster bus: CLUSTER MEET opens a link from one node to another,    *)
(* PING and PONG with gossip fill the Nodes map of each, and a cron        *)
(* goroutine per node pings over the links the node has opened.            *)
(*                                                                         *)
(* A link is <<p, q, k>>, the k-th that p dials to q.  A node's map leads  *)
(* from names to ClusterNode objects; an object is Self, the one a link    *)
(* holds (link.node), or one that gossip or a handshake without a link has *)
(* made.  Only Self and a link's object ever get slots, the latter from    *)
(* the messages that come over the link.                                   *)
(***************************************************************************)
EXTENDS Integers, Sequences, FiniteSets, FiniteSetsExt, Functions

CONSTANTS Node,       \* nodes
          CLUSTER_SLOTS, \* number of hash slots, 16384 in the code
          Meets,      \* links that a CLUSTER MEET may ask for
          Unreachable,\* links whose dial may fail
          Crashes,    \* nodes that may die
          SendCap,    \* capacity of a link's send channel, 256 in the code
          MaxGossip,  \* bound: nodes one message gossips about, 3 or more in the code
          MaxTraffic  \* bound: a cron ticks while less is on its way to live nodes

ASSUME ClusterBusAssumption ==
  /\ Node \subseteq Nat \ {0}
  /\ CLUSTER_SLOTS \in Nat \ {0}
  /\ \A l \in Meets : l \in Node \X Node \X Nat /\ l[1] # l[2]
  /\ Unreachable \subseteq Meets
  /\ Crashes \subseteq Node
  /\ SendCap \in Nat \ {0}
  /\ MaxGossip \in Nat /\ MaxTraffic \in Nat \ {0}

Peer(l, n) == IF l[1] = n THEN l[2] ELSE l[1]
Ends(l) == {l[1], l[2]}
Slot == 0 .. CLUSTER_SLOTS - 1

\* Names: a node's UUID, the "temp_" name a handshake starts with, and what is left
\* of that name in the 40 bytes a message has for it.
Id(n) == <<"id", <<n, n, 0>>>>
Temp(l) == <<"temp", l>>
Cut(l) == <<"cut", l>>
Name == {Id(n) : n \in Node} \cup {Temp(l) : l \in Meets} \cup {Cut(l) : l \in Meets}
NoName == <<"", <<0, 0, 0>>>>

OnWire(x) == IF x[1] = "temp" THEN Cut(x[2]) ELSE x

\* CLUSTER_MEET_NODE and CLUSTER_HANDSHAKE_NODE come with a temporary name, and with
\* what gossip makes of it.
InHandshake(x) == x[1] # "id"

\* References to objects.
Self == <<0, 0, 0>>
Loose == <<0, 0, 1>>     \* made without a link: no slots, nothing to ping over
Ref == Meets \cup {Self, Loose}

VARIABLES alive,      \* nodes that run
          nodes,      \* per node: Nodes, from known names to objects
          owned,      \* per node: OwnedSlots of Self
          object,     \* per link and end: the name of link.node
          bitmap,     \* per link and end: OwnedSlots of link.node
          link,       \* per link: "none", "dialling", "failed" or "open"
          wire,       \* per link and end: messages on their way to that end
          reading,    \* per link and end: type of the message its read loop handles
          learnt      \* per link and end: names the read loop found to be unknown

busVars == <<alive, nodes, owned, object, bitmap, link, wire, reading, learnt>>

PerEnd(v) == [l \in Meets |-> [n \in Ends(l) |-> v]]

BusInit ==
  /\ alive = Node
  /\ nodes = [n \in Node |-> [x \in {Id(n)} |-> Self]]
  /\ owned = [n \in Node |-> {}]
  /\ object = PerEnd(NoName)
  /\ bitmap = PerEnd({})
  /\ link = [l \in Meets |-> "none"]
  /\ wire = PerEnd(<<>>)
  /\ reading = PerEnd("none")
  /\ learnt = PerEnd({})

\* SetNode and DeleteNode on a map.
SetNode(map, x, ref) == [y \in DOMAIN map \cup {x} |-> IF y = x THEN ref ELSE map[y]]
DeleteNode(map, x) == Restrict(map, DOMAIN map \ {x})

-----------------------------------------------------------------------------
\* clusterSendPing of node n over link l, without the send: it gossips about some
\* nodes it draws at random from its map, neither Self nor the link's object.
Gossip(map, l) ==
  {g \in SUBSET {OnWire(x) : x \in {y \in DOMAIN map : map[y] \notin {Self, l}}} :
     Cardinality(g) <= MaxGossip}
\* Mutant: a message carries all the slots its sender knows of.
MutMessage(type, n, g) ==
  [type |-> type, sender |-> n, gossip |-> g,
   slots |-> owned[n] \cup UNION {bitmap[l][n] : l \in {k \in Meets : n \in Ends(k)}}]

Message(type, n, g) == [type |-> type, sender |-> n, slots |-> owned[n], gossip |-> g]

\* The channel and the connection of a link to one of its ends are one queue.  Only
\* one goroutine sends into it: to the end that was dialled the dialler's cron with
\* its PINGs, to the dialler the other end's read loop with its PONGs.  So a message
\* that found the channel full is last in the queue, and its sender is blocked as long
\* as the queue exceeds the capacity.
Send(l, n, m) == wire' = [wire EXCEPT ![l][n] = Append(@, m)]

Blocked(l, n) == Len(wire[l][n]) > SendCap
-----------------------------------------------------------------------------
\* CLUSTER ADDSLOTSRANGE of slots the range check has accepted; nothing asks who else
\* has them.
AddSlotsRange(n, first, last) ==
  /\ owned' = [owned EXCEPT ![n] = @ \cup (first .. last)]
  /\ UNCHANGED <<alive, nodes, object, bitmap, link, wire, reading, learnt>>

\* CLUSTER MEET: the node under its temporary name is in the map before the dial ...
ClusterStartHandshake(l) ==
  /\ l[1] \in alive
  /\ link[l] = "none"
  /\ link' = [link EXCEPT ![l] = "dialling"]
  /\ nodes' = [nodes EXCEPT ![l[1]] = SetNode(@, Temp(l), l)]
  /\ object' = [object EXCEPT ![l][l[1]] = Temp(l)]
  /\ UNCHANGED <<alive, owned, bitmap, wire, reading, learnt>>

\* ... and stays there when the dial fails ...
DialFails(l) ==
  /\ link[l] = "dialling" /\ l[1] \in alive
  /\ l \in Unreachable \/ l[2] \notin alive
  /\ link' = [link EXCEPT ![l] = "failed"]
  /\ UNCHANGED <<alive, nodes, owned, object, bitmap, wire, reading, learnt>>

\* ... while a dial that succeeds opens the link and sends the first PING.
DialOk(l) ==
  /\ link[l] = "dialling" /\ Ends(l) \subseteq alive
  /\ link' = [link EXCEPT ![l] = "open"]
  /\ \E g \in Gossip(nodes[l[1]], l) : Send(l, l[2], Message("ping", l[1], g))
  /\ UNCHANGED <<alive, nodes, owned, object, bitmap, reading, learnt>>
-----------------------------------------------------------------------------
\* Mutant: the entry of the handshake is not deleted.
MutAfterSender(n, l, m) == SetNode(nodes[n], Id(m.sender), l)

\* Mutant: the object is not entered under its new name.
MutForgetSender(n, l, m) ==
  IF object[l][n][1] = "temp" THEN DeleteNode(nodes[n], object[l][n])
  ELSE SetNode(nodes[n], Id(m.sender), l)

\* The map of node n after its read loop on link l has handled the sender.
\* A link's first message names its object: the dialler's handshake entry gives way to
\* the real one, the other end makes an object.  Either is (re)entered in the map.
AfterSender(n, l, m) ==
  LET old == object[l][n]
      map == IF old[1] = "temp" THEN DeleteNode(nodes[n], old) ELSE nodes[n]
  IN SetNode(map, Id(m.sender), l)

\* Mutant: gossip makes a new object for a known name too.
MutProcessSender(l, n) ==
  /\ n \in alive
  /\ wire[l][n] # <<>> /\ reading[l][n] = "none"
  /\ n = l[2] => ~Blocked(l, l[1])
  /\ LET m == Head(wire[l][n])
     IN /\ nodes' = [nodes EXCEPT ![n] = AfterSender(n, l, m)]
        /\ object' = [object EXCEPT ![l][n] = Id(m.sender)]
        /\ bitmap' = [bitmap EXCEPT ![l][n] = m.slots]
        /\ learnt' = [learnt EXCEPT ![l][n] = m.gossip \ {Id(n)}]
        /\ reading' = [reading EXCEPT ![l][n] = m.type]
  /\ wire' = [wire EXCEPT ![l][n] = Tail(@)]
  /\ UNCHANGED <<alive, owned, link>>

\* clusterProcessMsg, up to the look-ups of clusterProcessGossip: Self is passed
\* over, a known name keeps its object, an unknown one will get one.  A PONG that
\* names no unknown node needs nothing more.
ProcessSender(l, n) ==
  /\ n \in alive
  /\ wire[l][n] # <<>> /\ reading[l][n] = "none"
  /\ n = l[2] => ~Blocked(l, l[1])
  /\ LET m == Head(wire[l][n])
         map == AfterSender(n, l, m)
         new == (m.gossip \ {Id(n)}) \ DOMAIN map
     IN /\ nodes' = [nodes EXCEPT ![n] = map]
        /\ object' = [object EXCEPT ![l][n] = Id(m.sender)]
        /\ bitmap' = [bitmap EXCEPT ![l][n] = m.slots]
        /\ learnt' = [learnt EXCEPT ![l][n] = new]
        /\ reading' = IF m.type = "pong" /\ new = {} THEN reading
                      ELSE [reading EXCEPT ![l][n] = m.type]
  /\ wire' = [wire EXCEPT ![l][n] = Tail(@)]
  /\ UNCHANGED <<alive, owned, link>>

\* The rest of it: the new objects enter the map, whatever is there by now, and a
\* PING is answered.
ProcessGossip(l, n) ==
  /\ n \in alive
  /\ reading[l][n] # "none"
  /\ nodes' = [nodes EXCEPT ![n] =
       [x \in DOMAIN @ \cup learnt[l][n] |-> IF x \in learnt[l][n] THEN Loose ELSE @[x]]]
  /\ IF reading[l][n] = "ping"
       THEN \E g \in Gossip(nodes'[n], l) : Send(l, Peer(l, n), Message("pong", n, g))
       ELSE UNCHANGED wire
  /\ reading' = [reading EXCEPT ![l][n] = "none"]
  /\ learnt' = [learnt EXCEPT ![l][n] = {}]
  /\ UNCHANGED <<alive, owned, object, bitmap, link>>
-----------------------------------------------------------------------------
\* Mutant: a node always draws the first of the nodes it has dialled.
MutPingable(n, l) ==
  /\ l[1] = n /\ link[l] = "open"
  /\ l \in Range(nodes[n])
  /\ ~InHandshake(object[l][n])
  /\ \A k \in Meets : k[1] = n => l[2] <= k[2]

\* ClusterCron pings over a link the node has opened, if the map still leads to the
\* link's object and its handshake is over.
Pingable(n, l) ==
  /\ l[1] = n /\ link[l] = "open"
  /\ l \in Range(nodes[n])
  /\ ~InHandshake(object[l][n])

Traffic ==
  Cardinality({t \in Meets \X alive \X (1 .. MaxTraffic) :
                 t[2] \in Ends(t[1]) /\ t[3] <= Len(wire[t[1]][t[2]])})

\* The tick of a second, unless the goroutine is blocked on one of the node's links.
ClusterCron(n, l) ==
  /\ n \in alive
  /\ \A k \in Meets : k[1] = n => ~Blocked(k, k[2])
  /\ Pingable(n, l)
  /\ Traffic < MaxTraffic
  /\ \E g \in Gossip(nodes[n], l) : Send(l, l[2], Message("ping", n, g))
  /\ UNCHANGED <<alive, nodes, owned, object, bitmap, link, reading, learnt>>

\* A node dies: nobody reads what is sent to it any more.
Crash(n) ==
  /\ n \in Crashes \cap alive
  /\ alive' = alive \ {n}
  /\ UNCHANGED <<nodes, owned, object, bitmap, link, wire, reading, learnt>>
-----------------------------------------------------------------------------
\* The bus by itself: everything but the commands of a client.
BusStep ==
  \/ \E n \in Node : Crash(n)
  \/ \E l \in Meets : DialFails(l) \/ DialOk(l)
  \/ \E l \in Meets : \E n \in Ends(l) :
       ProcessSender(l, n) \/ ProcessGossip(l, n)
  \/ \E l \in Meets : ClusterCron(l[1], l)
-----------------------------------------------------------------------------
(* Properties *)

\* The bus is well formed: no queue holds more than a send channel and the sender
\* that waits for it; an entry of a map is filed under the name its object bears, and
\* the object of a link bears the name of the node at the other end.  A slot is never
\* attributed to the wrong node, and no object is counted twice by CLUSTER NODES.
EntriesConsistent ==
  /\ alive \subseteq Node
  /\ \A n \in Node : DOMAIN nodes[n] \subseteq Name /\ Range(nodes[n]) \subseteq Ref
  /\ \A l \in Meets : \A n \in Ends(l) :
       /\ object[l][n] \in Name \cup {NoName}
       /\ Len(wire[l][n]) <= SendCap + 1
       /\ learnt[l][n] \subseteq Name
  /\ link \in [Meets -> {"none", "dialling", "failed", "open"}]
  /\ \A n \in Node : \A x \in DOMAIN nodes[n] :
       nodes[n][x] \in Meets =>
         LET l == nodes[n][x] IN
           /\ n \in Ends(l)
           /\ object[l][n] = x
           /\ ~InHandshake(x) => x = Id(Peer(l, n))

\* The slots of q are known at p: a client of p is redirected, and not told that the
\* hash slot is not served.
Routes(p, q) ==
  p = q \/ (Id(q) \in DOMAIN nodes[p] /\ nodes[p][Id(q)] # Loose)

\* Both ends of a link that was opened come to know each other's slots and go on
\* knowing them, and the temporary name is gone.
HandshakeCompletes ==
  <>[](\A l \in Meets :
         link[l] = "open" => /\ Routes(l[1], l[2]) /\ Routes(l[2], l[1])
                             /\ Temp(l) \notin DOMAIN nodes[l[1]])

\* A node that knows the slots of another one never loses them again.
RoutesKept == [][\A p, q \in Node : Routes(p, q) => Routes(p, q)']_busVars

\* Two live nodes that were linked never fall silent: a cron goroutine may draw one of
\* their links, or a message is under way on a link that its dialler will put back
\* into its map.  Nobody else would ever repair the map.
StaysPingable ==
  \A l \in Meets :
    link[l] = "open" /\ Ends(l) \subseteq alive =>
      \E k \in Meets :
        /\ Ends(k) = Ends(l)
        /\ \/ Pingable(k[1], k)
           \/ \E n \in Ends(k) : wire[k][n] # <<>> \/ reading[k][n] = "ping"

\* Between two live nodes that were linked a PING goes out again and again.
PingsGoOn ==
  \A l \in Meets :
    []<>(link[l] = "open" /\ Ends(l) \subseteq alive =>
           \E k \in Meets : Ends(k) = Ends(l) /\ wire[k][k[2]] # <<>>)
===============================================================================
