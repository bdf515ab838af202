--------------------------- MODULE ClusterCliProofs ---------------------------
(***************************************************************************)
(* Proofs about the cluster bus, its pings and the CLI that builds a       *)
(* cluster, for any nodes, links, jobs of the CLI, failed dials and        *)
(* crashes.                                                                *)
(***************************************************************************)
EXTENDS ClusterCli, TLAPS

\* The time, in seconds, that each prover is given for a leaf.
USE SMTT(20), ZenonT(20)
-----------------------------------------------------------------------------
(* Sequences *)

LEMMA SeqLen ==
  ASSUME NEW X, NEW q \in Seq(X)
  PROVE  Len(q) \in Nat /\ DOMAIN q = 1 .. Len(q) /\ q \in [1 .. Len(q) -> X]
OBVIOUS

LEMMA SeqElement ==
  ASSUME NEW X, NEW q \in Seq(X), NEW i \in 1 .. Len(q)
  PROVE  q[i] \in X
OBVIOUS

LEMMA SeqEmpty ==
  ASSUME NEW X
  PROVE  <<>> \in Seq(X) /\ Len(<<>>) = 0 /\ \A q \in Seq(X) : q # <<>> => Len(q) \in Nat \ {0}
OBVIOUS

LEMMA SeqAppend ==
  ASSUME NEW X, NEW q \in Seq(X), NEW x \in X
  PROVE  /\ Append(q, x) \in Seq(X) /\ Append(q, x) # <<>> /\ Len(Append(q, x)) = Len(q) + 1
         /\ \A i \in 1 .. Len(q) : Append(q, x)[i] = q[i]
         /\ Append(q, x)[Len(q) + 1] = x
OBVIOUS

LEMMA SeqTail ==
  ASSUME NEW X, NEW q \in Seq(X), q # <<>>
  PROVE  /\ Head(q) \in X /\ Tail(q) \in Seq(X) /\ Len(Tail(q)) = Len(q) - 1
         /\ \A i \in 1 .. Len(Tail(q)) : Tail(q)[i] = q[i + 1]
OBVIOUS
-----------------------------------------------------------------------------
(* Names *)

\* The three kinds of names are told apart, and what a message carries of a name is a
\* UUID only if the name is one.
LEMMA NameFacts ==
  /\ \A n \in Node : Id(n) \in Name
  /\ \A n : ~InHandshake(Id(n)) /\ Id(n)[1] # "temp" /\ Id(n) # NoName
  /\ \A m, n : Id(m) = Id(n) => m = n
  /\ \A l \in Meets : Temp(l) \in Name /\ Cut(l) \in Name
  /\ \A l : InHandshake(Temp(l)) /\ Temp(l)[1] = "temp" /\ Temp(l) # NoName
  /\ \A l, n : Temp(l) # Id(n) /\ Cut(l) # Id(n) /\ Temp(l) # Cut(l)
  /\ NoName[1] # "temp" /\ NoName \notin Name
<1>1. /\ \A n : ~InHandshake(Id(n)) /\ Id(n)[1] # "temp" /\ Id(n) # NoName
      /\ \A m, n : Id(m) = Id(n) => m = n
  BY DEF Id, InHandshake, NoName
<1>2. /\ \A l : InHandshake(Temp(l)) /\ Temp(l)[1] = "temp" /\ Temp(l) # NoName
      /\ \A l, n : Temp(l) # Id(n) /\ Cut(l) # Id(n) /\ Temp(l) # Cut(l)
  BY DEF Temp, Cut, Id, InHandshake, NoName
<1>3. NoName[1] # "temp" /\ NoName \notin Name
  BY DEF NoName, Name, Id, Temp, Cut
<1>4. (\A n \in Node : Id(n) \in Name) /\ (\A l \in Meets : Temp(l) \in Name /\ Cut(l) \in Name)
  BY DEF Name
<1> QED BY <1>1, <1>2, <1>3, <1>4

LEMMA WireNames ==
  ASSUME NEW x \in Name
  PROVE  OnWire(x) \in Name /\ \A n : OnWire(x) = Id(n) => x = Id(n)
<1>1. CASE \E n \in Node : x = Id(n)
  BY <1>1 DEF OnWire, Id, Name
<1>2. CASE \E l \in Meets : x = Temp(l)
  BY <1>2 DEF OnWire, Temp, Name, Cut, Id
<1>3. CASE \E l \in Meets : x = Cut(l)
  BY <1>3 DEF OnWire, Name, Cut, Id
<1> QED BY <1>1, <1>2, <1>3 DEF Name

\* The ends of a link are two nodes, and no link is Self or Loose.
LEMMA LinkFacts ==
  /\ \A l \in Meets : /\ l[1] \in Node /\ l[2] \in Node /\ l[1] # l[2]
                      /\ Ends(l) = {l[1], l[2]}
                      /\ Peer(l, l[1]) = l[2] /\ Peer(l, l[2]) = l[1]
  /\ Self \notin Meets /\ Loose \notin Meets /\ Self # Loose
<1>1. \A l \in Meets : l[1] \in Node /\ l[2] \in Node /\ l[1] # l[2]
  BY ClusterBusAssumption
<1>2. 0 \notin Node
  BY ClusterBusAssumption
<1> QED BY <1>1, <1>2 DEF Ends, Peer, Self, Loose

\* What a message gossips about.
LEMMA GossipNames ==
  ASSUME NEW map, DOMAIN map \subseteq Name, NEW l, NEW g \in Gossip(map, l)
  PROVE  /\ g \subseteq Name
         /\ \A n : Id(n) \in g => Id(n) \in DOMAIN map /\ map[Id(n)] # Self
<1>1. \A x \in g : \E y \in DOMAIN map : x = OnWire(y) /\ map[y] # Self
  BY DEF Gossip
<1> QED BY <1>1, WireNames

-----------------------------------------------------------------------------
\* A value per link and end.
Shape(f) == DOMAIN f = Meets /\ \A l \in Meets : DOMAIN f[l] = Ends(l)

\* g is f but for the value v at end n of link l.
Updated(f, g, l, n, v) ==
  /\ Shape(g) /\ g[l][n] = v
  /\ \A k \in Meets : \A m \in Ends(k) : k # l \/ m # n => g[k][m] = f[k][m]

LEMMA EndUpdate ==
  ASSUME NEW f, NEW g, NEW l \in Meets, NEW n \in Ends(l), NEW v,
         Shape(f), g = [f EXCEPT ![l][n] = v]
  PROVE  Updated(f, g, l, n, v)
<1>1. \A k \in Meets : g[k] = IF k = l THEN [f[l] EXCEPT ![n] = v] ELSE f[k]
  BY DEF Shape
<1>2. DOMAIN g = Meets
  BY DEF Shape
<1>3. DOMAIN [f[l] EXCEPT ![n] = v] = Ends(l) /\ [f[l] EXCEPT ![n] = v][n] = v
  BY DEF Shape
<1>4. \A m \in Ends(l) : m # n => [f[l] EXCEPT ![n] = v][m] = f[l][m]
  BY DEF Shape
<1>5. Shape(g) /\ g[l][n] = v
  BY <1>1, <1>2, <1>3 DEF Shape
<1>6. \A k \in Meets : \A m \in Ends(k) : k # l \/ m # n => g[k][m] = f[k][m]
  BY <1>1, <1>4
<1> QED BY <1>5, <1>6 DEF Updated

LEMMA PerEndShape ==
  ASSUME NEW v PROVE Shape(PerEnd(v)) /\ \A l \in Meets : \A n \in Ends(l) : PerEnd(v)[l][n] = v
BY DEF Shape, PerEnd

-----------------------------------------------------------------------------
(***************************************************************************)
(* The invariant of the bus.  EntriesConsistent needs to know what is on   *)
(* its way: a link carries PINGs one way and PONGs the other, each with    *)
(* the name of its sender; a read loop that owes a PONG has found room for *)
(* it; and nothing is on a link that is not open.                          *)
(***************************************************************************)

LinkStates == {"none", "dialling", "failed", "open"}

\* The messages that node n gets over link l.
MessagesTo(l, n) ==
  [type : {IF n = l[2] THEN "ping" ELSE "pong"}, sender : {Peer(l, n)},
   slots : SUBSET Int, gossip : SUBSET Name]

BusType ==
  /\ alive \subseteq Node
  /\ owned \in [Node -> SUBSET Int]
  /\ DOMAIN nodes = Node
  /\ link \in [Meets -> LinkStates]
  /\ Shape(object) /\ Shape(bitmap) /\ Shape(wire) /\ Shape(reading) /\ Shape(learnt)

EndInv(l, n) ==
  /\ object[l][n] \in {NoName, Temp(l), Id(Peer(l, n))}
  /\ wire[l][n] \in Seq(MessagesTo(l, n)) /\ Len(wire[l][n]) <= SendCap + 1
  /\ reading[l][n] \in {"none", "ping", "pong"}
  /\ learnt[l][n] \subseteq Name
  /\ link[l] # "open" => wire[l][n] = <<>> /\ reading[l][n] = "none"
  /\ link[l] = "none" => object[l][n] = NoName

LoopInv(l) ==
  /\ reading[l][l[1]] # "ping"
  /\ reading[l][l[2]] # "none" => Len(wire[l][l[1]]) <= SendCap

MapInv(n) ==
  /\ DOMAIN nodes[n] \subseteq Name
  /\ \A x \in DOMAIN nodes[n] :
       /\ nodes[n][x] \in Ref
       /\ nodes[n][x] \in Meets => n \in Ends(nodes[n][x]) /\ object[nodes[n][x]][n] = x

BusInv ==
  /\ BusType
  /\ \A l \in Meets : LoopInv(l) /\ \A n \in Ends(l) : EndInv(l, n)
  /\ \A n \in Node : MapInv(n)

\* The invariant says what EntriesConsistent says.
LEMMA BusMeaning == BusInv => EntriesConsistent
<1> SUFFICES ASSUME BusInv PROVE EntriesConsistent
  OBVIOUS
<1>1. alive \subseteq Node /\ link \in [Meets -> {"none", "dialling", "failed", "open"}]
  BY DEF BusInv, BusType, LinkStates
<1>2. \A n \in Node : DOMAIN nodes[n] \subseteq Name /\ Range(nodes[n]) \subseteq Ref
  BY DEF BusInv, MapInv, Range
<1>3. ASSUME NEW l \in Meets, NEW n \in Ends(l)
      PROVE  /\ object[l][n] \in Name \cup {NoName}
             /\ Len(wire[l][n]) <= SendCap + 1
             /\ learnt[l][n] \subseteq Name
  <2>1. EndInv(l, n)
    BY DEF BusInv
  <2>2. Peer(l, n) \in Node
    BY LinkFacts DEF Peer
  <2>3. Id(Peer(l, n)) \in Name /\ Temp(l) \in Name
    BY <2>2, NameFacts
  <2> QED BY <2>1, <2>3 DEF EndInv
<1>4. ASSUME NEW n \in Node, NEW x \in DOMAIN nodes[n], nodes[n][x] \in Meets
      PROVE  LET l == nodes[n][x] IN
               n \in Ends(l) /\ object[l][n] = x /\ (~InHandshake(x) => x = Id(Peer(l, n)))
  <2> DEFINE l == nodes[n][x]
  <2>1. n \in Ends(l) /\ object[l][n] = x /\ x \in Name
    BY <1>4 DEF BusInv, MapInv
  <2>2. object[l][n] \in {NoName, Temp(l), Id(Peer(l, n))}
    BY <1>4, <2>1 DEF BusInv, EndInv
  <2> HIDE DEF l
  <2>3. ~InHandshake(x) => x = Id(Peer(l, n))
    BY <2>1, <2>2, NameFacts
  <2> QED BY <2>1, <2>3 DEF l
<1> QED BY <1>1, <1>2, <1>3, <1>4 DEF EntriesConsistent

LEMMA BusInitInv == BusInit => BusInv
<1> SUFFICES ASSUME BusInit PROVE BusInv
  OBVIOUS
<1>1. BusType
  <2>1. Shape(object) /\ Shape(bitmap) /\ Shape(wire) /\ Shape(reading) /\ Shape(learnt)
    BY PerEndShape DEF BusInit
  <2> QED BY <2>1 DEF BusInit, BusType, LinkStates
<1>2. ASSUME NEW l \in Meets, NEW n \in Ends(l) PROVE EndInv(l, n)
  <2>1. /\ object[l][n] = NoName /\ wire[l][n] = <<>> /\ reading[l][n] = "none"
        /\ learnt[l][n] = {}
    BY PerEndShape DEF BusInit
  <2>2. <<>> \in Seq(MessagesTo(l, n)) /\ Len(<<>>) = 0 /\ SendCap \in Nat
    BY SeqEmpty, ClusterBusAssumption
  <2> QED BY <2>1, <2>2 DEF EndInv
<1>3. ASSUME NEW l \in Meets PROVE LoopInv(l)
  <2>1. reading[l][l[1]] = "none" /\ reading[l][l[2]] = "none"
    BY PerEndShape, LinkFacts DEF BusInit
  <2> QED BY <2>1 DEF LoopInv
<1>4. ASSUME NEW n \in Node PROVE MapInv(n)
  <2>1. nodes[n] = [x \in {Id(n)} |-> Self]
    BY DEF BusInit
  <2>2. DOMAIN nodes[n] = {Id(n)} /\ nodes[n][Id(n)] = Self
    BY <2>1
  <2> QED BY <2>2, NameFacts, LinkFacts DEF MapInv, Ref
<1> QED BY <1>1, <1>2, <1>3, <1>4 DEF BusInv

-----------------------------------------------------------------------------
(* The steps of the bus *)

\* Steps that change neither links nor maps: ADDSLOTSRANGE and a crash.
LEMMA AsideInv ==
  ASSUME BusInv, alive' \subseteq Node, owned' \in [Node -> SUBSET Int],
         UNCHANGED <<nodes, object, bitmap, link, wire, reading, learnt>>
  PROVE  BusInv'
<1>1. BusType'
  BY DEF BusInv, BusType, Shape
<1>2. ASSUME NEW l \in Meets PROVE LoopInv(l)' /\ \A n \in Ends(l) : EndInv(l, n)'
  BY Zenon DEF BusInv, LoopInv, EndInv
<1>3. ASSUME NEW n \in Node PROVE MapInv(n)'
  BY DEF BusInv, MapInv
<1> QED BY <1>1, <1>2, <1>3, Zenon DEF BusInv

\* CLUSTER MEET: a link that was not used has no object yet.
LEMMA HandshakeInv ==
  ASSUME BusInv, NEW l \in Meets, ClusterStartHandshake(l)
  PROVE  BusInv'
<1> DEFINE p == l[1]
<1>0. p \in Node /\ p \in Ends(l) /\ Temp(l) \in Name /\ l \in Ref
  BY LinkFacts, NameFacts DEF Ref
<1>1. /\ link[l] = "none" /\ link' = [link EXCEPT ![l] = "dialling"]
      /\ nodes' = [nodes EXCEPT ![p] = SetNode(nodes[p], Temp(l), l)]
      /\ object' = [object EXCEPT ![l][p] = Temp(l)]
      /\ UNCHANGED <<alive, owned, bitmap, wire, reading, learnt>>
  BY DEF ClusterStartHandshake
<1>2. /\ Shape(object') /\ object'[l][p] = Temp(l)
      /\ \A k \in Meets : \A m \in Ends(k) : k # l \/ m # p => object'[k][m] = object[k][m]
  <2>1. Shape(object) /\ object' = [object EXCEPT ![l][p] = Temp(l)]
    BY <1>1 DEF BusInv, BusType
  <2>2. Updated(object, object', l, p, Temp(l))
    BY <1>0, <2>1, EndUpdate, Zenon
  <2> QED BY <2>2 DEF Updated
<1>3. /\ link' \in [Meets -> LinkStates] /\ link'[l] = "dialling"
      /\ \A k \in Meets : k # l => link'[k] = link[k]
  BY <1>1 DEF BusInv, BusType, LinkStates
<1>4. /\ DOMAIN nodes' = Node
      /\ nodes'[p] = SetNode(nodes[p], Temp(l), l)
      /\ \A n \in Node : n # p => nodes'[n] = nodes[n]
  BY <1>0, <1>1 DEF BusInv, BusType
<1> HIDE DEF p
<1>5. BusType'
  BY <1>1, <1>2, <1>3, <1>4, Zenon DEF BusInv, BusType, Shape
<1>6. ASSUME NEW k \in Meets, NEW m \in Ends(k) PROVE EndInv(k, m)'
  <2>1. EndInv(k, m)
    BY DEF BusInv
  <2>2. object'[k][m] \in {NoName, Temp(k), Id(Peer(k, m))}
    BY <1>2, <2>1 DEF EndInv
  <2>3. link'[k] # "open" => link[k] # "open"
    BY <1>1, <1>3, Zenon
  <2>4. link'[k] = "none" => object'[k][m] = NoName
    BY <1>2, <1>3, <2>1 DEF EndInv
  <2> QED BY <1>1, <2>1, <2>2, <2>3, <2>4 DEF EndInv
<1>7. ASSUME NEW k \in Meets PROVE LoopInv(k)'
  BY <1>1 DEF BusInv, LoopInv
<1>8. ASSUME NEW n \in Node PROVE MapInv(n)'
  <2>1. MapInv(n)
    BY DEF BusInv
  <2>2. ASSUME NEW x \in DOMAIN nodes[n], nodes[n][x] \in Meets
        PROVE  n \in Ends(nodes[n][x]) /\ object'[nodes[n][x]][n] = x
    <3>1. n \in Ends(nodes[n][x]) /\ object[nodes[n][x]][n] = x /\ x \in Name
      BY <2>1, <2>2, Zenon DEF MapInv
    <3>2. ~(nodes[n][x] = l /\ n = p)
      BY <1>0, <1>1, <3>1, NameFacts DEF BusInv, EndInv
    <3> QED BY <1>2, <2>2, <3>1, <3>2
  <2>3. CASE n # p
    BY <1>4, <2>1, <2>2, <2>3, Zenon DEF MapInv
  <2>4. CASE n = p
    <3>1. DOMAIN nodes'[n] = DOMAIN nodes[n] \cup {Temp(l)}
      BY <1>4, <2>4 DEF SetNode
    <3>2. nodes'[n][Temp(l)] = l /\ \A x \in DOMAIN nodes[n] : x # Temp(l) => nodes'[n][x] = nodes[n][x]
      BY <1>4, <2>4 DEF SetNode
    <3> QED BY <1>0, <1>2, <2>1, <2>2, <2>4, <3>1, <3>2 DEF MapInv
  <2> QED BY <2>3, <2>4
<1> QED BY <1>5, <1>6, <1>7, <1>8 DEF BusInv

LEMMA DialFailsInv ==
  ASSUME BusInv, NEW l \in Meets, DialFails(l)
  PROVE  BusInv'
<1>1. /\ link' \in [Meets -> LinkStates] /\ link[l] = "dialling" /\ link'[l] = "failed"
      /\ \A k \in Meets : k # l => link'[k] = link[k]
      /\ UNCHANGED <<alive, nodes, owned, object, bitmap, wire, reading, learnt>>
  BY DEF BusInv, BusType, LinkStates, DialFails
<1>2. BusType'
  BY <1>1 DEF BusInv, BusType, Shape
<1>3. ASSUME NEW k \in Meets PROVE LoopInv(k)' /\ \A n \in Ends(k) : EndInv(k, n)'
  <2>1. LoopInv(k) /\ \A n \in Ends(k) : EndInv(k, n)
    BY DEF BusInv
  <2>2. LoopInv(k)'
    BY <1>1, <2>1 DEF LoopInv
  <2>3. /\ link'[k] # "open" => link[k] # "open"
        /\ link'[k] = "none" => link[k] = "none"
    BY <1>1, Zenon
  <2>4. ASSUME NEW n \in Ends(k) PROVE EndInv(k, n)'
    BY <1>1, <2>1, <2>3, Zenon DEF EndInv
  <2> QED BY <2>2, <2>4
<1>4. ASSUME NEW n \in Node PROVE MapInv(n)'
  BY <1>1 DEF BusInv, MapInv
<1> QED BY <1>2, <1>3, <1>4 DEF BusInv

\* A message as node n makes it for the other end of one of its links.
LEMMA MessageType ==
  ASSUME BusInv, NEW l \in Meets, NEW n \in Ends(l),
         NEW g \in SUBSET Name, NEW type, type = IF n = l[1] THEN "ping" ELSE "pong"
  PROVE  Message(type, n, g) \in MessagesTo(l, Peer(l, n))
<1>1. n \in Node /\ Peer(l, Peer(l, n)) = n /\ (Peer(l, n) = l[2] <=> n = l[1])
  BY LinkFacts DEF Peer
<1>2. owned[n] \subseteq Int
  BY <1>1 DEF BusInv, BusType
<1> QED BY <1>1, <1>2 DEF Message, MessagesTo

LEMMA SendEffect ==
  ASSUME BusInv, NEW l \in Meets, NEW n \in Ends(l), NEW m \in MessagesTo(l, n),
         Len(wire[l][n]) <= SendCap, Send(l, n, m)
  PROVE  /\ Shape(wire') /\ wire'[l][n] \in Seq(MessagesTo(l, n))
         /\ Len(wire'[l][n]) <= SendCap + 1
         /\ wire'[l][n] = Append(wire[l][n], m)
         /\ \A k \in Meets : \A j \in Ends(k) : k # l \/ j # n => wire'[k][j] = wire[k][j]
<1> DEFINE q == Append(wire[l][n], m)
<1>1. wire[l][n] \in Seq(MessagesTo(l, n)) /\ SendCap \in Nat
  BY ClusterBusAssumption DEF BusInv, EndInv
<1>2. q \in Seq(MessagesTo(l, n)) /\ Len(q) = Len(wire[l][n]) + 1 /\ Len(wire[l][n]) \in Nat
  BY <1>1, SeqAppend, SeqLen
<1>3. wire' = [wire EXCEPT ![l][n] = q]
  BY DEF Send
<1> HIDE DEF q
<1>4. /\ Shape(wire') /\ wire'[l][n] = q
      /\ \A k \in Meets : \A j \in Ends(k) : k # l \/ j # n => wire'[k][j] = wire[k][j]
  <2>1. Shape(wire)
    BY DEF BusInv, BusType
  <2>2. Updated(wire, wire', l, n, q)
    BY <1>3, <2>1, EndUpdate, Zenon
  <2> QED BY <2>2 DEF Updated
<1>5. Len(q) <= SendCap + 1
  BY <1>1, <1>2
<1> QED BY <1>2, <1>4, <1>5 DEF q

\* A PING over a link that is or becomes open, when its sender is not blocked.
LEMMA PingInv ==
  ASSUME BusInv, NEW l \in Meets, NEW g \in Gossip(nodes[l[1]], l),
         Send(l, l[2], Message("ping", l[1], g)), Len(wire[l][l[2]]) <= SendCap,
         link' = [link EXCEPT ![l] = "open"], link[l] # "none",
         UNCHANGED <<alive, nodes, owned, object, bitmap, reading, learnt>>
  PROVE  BusInv'
<1> DEFINE p == l[1]  q == l[2]  msg == Message("ping", p, g)
<1>0. p \in Node /\ q \in Node /\ p \in Ends(l) /\ q \in Ends(l) /\ p # q /\ Peer(l, p) = q
  BY LinkFacts, Zenon
<1>1. g \subseteq Name
  BY <1>0, GossipNames DEF BusInv, MapInv
<1>2. msg \in MessagesTo(l, q)
  BY <1>0, <1>1, MessageType, Zenon
<1>3. /\ Shape(wire') /\ wire'[l][q] \in Seq(MessagesTo(l, q))
      /\ Len(wire'[l][q]) <= SendCap + 1
      /\ \A k \in Meets : \A j \in Ends(k) : k # l \/ j # q => wire'[k][j] = wire[k][j]
  BY <1>0, <1>2, SendEffect
<1>4. /\ link' \in [Meets -> LinkStates] /\ link'[l] = "open"
      /\ \A k \in Meets : k # l => link'[k] = link[k]
  BY Zenon DEF BusInv, BusType, LinkStates
<1> HIDE DEF p, q, msg
<1>5. BusType'
  BY <1>3, <1>4, Zenon DEF BusInv, BusType, Shape
<1>6. ASSUME NEW k \in Meets, NEW m \in Ends(k) PROVE EndInv(k, m)'
  <2>1. EndInv(k, m)
    BY Zenon DEF BusInv
  <2>2. CASE k = l /\ m = q
    BY <1>3, <1>4, <2>1, <2>2, Zenon DEF EndInv
  <2>3. CASE ~(k = l /\ m = q)
    <3>1. wire'[k][m] = wire[k][m]
      BY <1>3, <2>3
    <3>2. (link'[k] # "open" => link[k] # "open") /\ (link'[k] = "none" => link[k] = "none")
      BY <1>4
    <3> QED BY <2>1, <3>1, <3>2 DEF EndInv
  <2> QED BY <2>2, <2>3, Zenon
<1>7. ASSUME NEW k \in Meets PROVE LoopInv(k)'
  <2>1. LoopInv(k) /\ k[1] \in Ends(k) /\ k[1] # k[2]
    BY LinkFacts DEF BusInv
  <2>2. wire'[k][k[1]] = wire[k][k[1]]
    BY <1>3, <2>1, Zenon DEF q
  <2> QED BY <2>1, <2>2 DEF LoopInv
<1>8. ASSUME NEW n \in Node PROVE MapInv(n)'
  BY DEF BusInv, MapInv
<1> QED BY <1>5, <1>6, <1>7, <1>8 DEF BusInv

LEMMA DialOkInv ==
  ASSUME BusInv, NEW l \in Meets, DialOk(l)
  PROVE  BusInv'
<1>1. PICK g \in Gossip(nodes[l[1]], l) : Send(l, l[2], Message("ping", l[1], g))
  BY Zenon DEF DialOk
<1>2. wire[l][l[2]] = <<>>
  BY LinkFacts DEF DialOk, BusInv, EndInv
<1>3. Len(wire[l][l[2]]) <= SendCap
  BY <1>2, SeqEmpty, ClusterBusAssumption
<1> QED BY <1>1, <1>3, PingInv, Zenon DEF DialOk

LEMMA CronInv ==
  ASSUME BusInv, NEW l \in Meets, ClusterCron(l[1], l)
  PROVE  BusInv'
<1>1. PICK g \in Gossip(nodes[l[1]], l) : Send(l, l[2], Message("ping", l[1], g))
  BY Zenon DEF ClusterCron
<1>2. ~(Len(wire[l][l[2]]) > SendCap) /\ link[l] = "open" /\ link' = link
  BY DEF ClusterCron, Blocked, Pingable
<1>3. Len(wire[l][l[2]]) <= SendCap
  <2>1. wire[l][l[2]] \in Seq(MessagesTo(l, l[2]))
    BY LinkFacts DEF BusInv, EndInv
  <2> QED BY <1>2, <2>1, SeqLen, ClusterBusAssumption
<1>4. link' = [link EXCEPT ![l] = "open"]
  BY <1>2 DEF BusInv, BusType
<1> QED BY <1>1, <1>2, <1>3, <1>4, PingInv, Zenon DEF ClusterCron

\* A read loop takes a message: the entry of the handshake is replaced by that of the
\* sender, the node at the other end.
LEMMA SenderInv ==
  ASSUME BusInv, NEW l \in Meets, NEW n \in Ends(l), ProcessSender(l, n)
  PROVE  BusInv'
<1> DEFINE m == Head(wire[l][n])
           old == object[l][n]
           x == Id(m.sender)
           map == AfterSender(n, l, m)
           new == (m.gossip \ {Id(n)}) \ DOMAIN map
<1>0. n \in Node /\ Peer(l, n) \in Node
  BY LinkFacts, Zenon DEF Peer
<1>1. EndInv(l, n) /\ MapInv(n) /\ LoopInv(l) /\ wire[l][n] # <<>> /\ n \in alive
  BY <1>0 DEF BusInv, ProcessSender
<1>2. link[l] = "open"
  BY <1>1, Zenon DEF EndInv
<1>3. /\ m \in MessagesTo(l, n) /\ Tail(wire[l][n]) \in Seq(MessagesTo(l, n))
      /\ Len(Tail(wire[l][n])) = Len(wire[l][n]) - 1 /\ Len(wire[l][n]) \in Nat
  BY <1>1, SeqTail, SeqLen, Zenon DEF EndInv
<1>4. /\ m.sender = Peer(l, n) /\ m.gossip \subseteq Name
      /\ m.type = IF n = l[2] THEN "ping" ELSE "pong"
  BY <1>3, Zenon DEF MessagesTo
<1>5. /\ nodes' = [nodes EXCEPT ![n] = map]
      /\ object' = [object EXCEPT ![l][n] = x]
      /\ bitmap' = [bitmap EXCEPT ![l][n] = m.slots]
      /\ learnt' = [learnt EXCEPT ![l][n] = new]
      /\ reading' = IF m.type = "pong" /\ new = {} THEN reading
                    ELSE [reading EXCEPT ![l][n] = m.type]
      /\ wire' = [wire EXCEPT ![l][n] = Tail(wire[l][n])]
      /\ UNCHANGED <<alive, owned, link>>
      /\ reading[l][n] = "none"
      /\ n = l[2] => ~(Len(wire[l][l[1]]) > SendCap)
  BY Zenon DEF ProcessSender, Blocked
<1>6. /\ DOMAIN map = (IF old[1] = "temp" THEN DOMAIN nodes[n] \ {old} ELSE DOMAIN nodes[n]) \cup {x}
      /\ map[x] = l
      /\ \A y \in DOMAIN map : y # x => map[y] = nodes[n][y]
  BY Zenon DEF AfterSender, SetNode, DeleteNode, Restrict
<1>7. x = Id(Peer(l, n)) /\ x \in Name /\ new \subseteq Name /\ l \in Ref
  BY <1>0, <1>4, NameFacts DEF Ref
<1> HIDE DEF m, map, new, x
<1>8. /\ Shape(object') /\ object'[l][n] = x
      /\ \A k \in Meets : \A j \in Ends(k) : k # l \/ j # n => object'[k][j] = object[k][j]
  <2>1. Shape(object)
    BY DEF BusInv, BusType
  <2>2. Updated(object, object', l, n, x)
    BY <1>5, <2>1, EndUpdate, Zenon
  <2> QED BY <2>2 DEF Updated
<1>9. Shape(bitmap')
  <2>1. Shape(bitmap)
    BY DEF BusInv, BusType
  <2>2. Updated(bitmap, bitmap', l, n, m.slots)
    BY <1>5, <2>1, EndUpdate, Zenon
  <2> QED BY <2>2 DEF Updated
<1>10. /\ Shape(learnt') /\ learnt'[l][n] = new
       /\ \A k \in Meets : \A j \in Ends(k) : k # l \/ j # n => learnt'[k][j] = learnt[k][j]
  <2>1. Shape(learnt)
    BY DEF BusInv, BusType
  <2>2. Updated(learnt, learnt', l, n, new)
    BY <1>5, <2>1, EndUpdate, Zenon
  <2> QED BY <2>2 DEF Updated
<1>11. /\ Shape(wire') /\ wire'[l][n] = Tail(wire[l][n])
       /\ \A k \in Meets : \A j \in Ends(k) : k # l \/ j # n => wire'[k][j] = wire[k][j]
  <2>1. Shape(wire)
    BY DEF BusInv, BusType
  <2>2. Updated(wire, wire', l, n, Tail(wire[l][n]))
    BY <1>5, <2>1, EndUpdate, Zenon
  <2> QED BY <2>2 DEF Updated
<1>12. /\ Shape(reading') /\ reading'[l][n] \in {"none", m.type}
       /\ \A k \in Meets : \A j \in Ends(k) : k # l \/ j # n => reading'[k][j] = reading[k][j]
  <2>1. Shape(reading)
    BY Zenon DEF BusInv, BusType
  <2>2. CASE reading' = reading
    BY <1>5, <2>1, <2>2
  <2>3. CASE reading' = [reading EXCEPT ![l][n] = m.type]
    <3>1. Updated(reading, reading', l, n, m.type)
      BY <2>1, <2>3, EndUpdate, Zenon
    <3> QED BY <3>1 DEF Updated
  <2> QED BY <1>5, <2>2, <2>3
<1>13. DOMAIN nodes' = Node /\ nodes'[n] = map /\ \A i \in Node : i # n => nodes'[i] = nodes[i]
  BY <1>0, <1>5, Zenon DEF BusInv, BusType
<1>14. BusType'
  BY <1>5, <1>8, <1>9, <1>10, <1>11, <1>12, <1>13 DEF BusInv, BusType
<1>15. ASSUME NEW k \in Meets, NEW j \in Ends(k) PROVE EndInv(k, j)'
  <2>1. EndInv(k, j)
    BY Zenon DEF BusInv
  <2>2. CASE k # l \/ j # n
    <3>1. /\ object'[k][j] = object[k][j] /\ learnt'[k][j] = learnt[k][j]
          /\ wire'[k][j] = wire[k][j] /\ reading'[k][j] = reading[k][j] /\ link'[k] = link[k]
      BY <1>5, <1>8, <1>10, <1>11, <1>12, <2>2
    <3> QED BY <2>1, <3>1, Zenon DEF EndInv
  <2>3. CASE k = l /\ j = n
    <3>1. object'[l][n] = Id(Peer(l, n)) /\ learnt'[l][n] \subseteq Name /\ link'[l] = "open"
      BY <1>2, <1>5, <1>7, <1>8, <1>10
    <3>2. wire'[l][n] \in Seq(MessagesTo(l, n))
      BY <1>3, <1>11
    <3>3. Len(wire'[l][n]) <= SendCap + 1
      <4>1. Len(wire[l][n]) <= SendCap + 1
        BY <1>1 DEF EndInv
      <4>2. SendCap \in Nat
        BY ClusterBusAssumption
      <4> QED BY <1>3, <1>11, <4>1, <4>2
    <3>4. reading'[l][n] \in {"none", "ping", "pong"}
      BY <1>4, <1>12
    <3> QED BY <2>3, <3>1, <3>2, <3>3, <3>4, Zenon DEF EndInv
  <2> QED BY <2>2, <2>3
<1>16. ASSUME NEW k \in Meets PROVE LoopInv(k)'
  <2>1. LoopInv(k) /\ k[1] \in Ends(k) /\ k[2] \in Ends(k) /\ k[1] # k[2]
    BY LinkFacts, Zenon DEF BusInv
  <2>2. CASE k # l
    BY <1>11, <1>12, <2>1, <2>2, Zenon DEF LoopInv
  <2>3. CASE k = l /\ n = l[1]
    <3>1. reading'[l][l[1]] # "ping" /\ reading'[l][l[2]] = reading[l][l[2]]
      BY <1>4, <1>12, <2>1, <2>3
    <3>2. Len(wire[l][l[1]]) <= SendCap => Len(wire'[l][l[1]]) <= SendCap
      <4>1. wire'[l][l[1]] = Tail(wire[l][l[1]])
        BY <1>11, <2>3
      <4>2. SendCap \in Nat
        BY ClusterBusAssumption, Zenon
      <4> QED BY <1>3, <2>3, <4>1, <4>2
    <3> QED BY <2>1, <2>3, <3>1, <3>2, Zenon DEF LoopInv
  <2>4. CASE k = l /\ n = l[2]
    <3>1. reading'[l][l[1]] = reading[l][l[1]] /\ wire'[l][l[1]] = wire[l][l[1]]
      BY <1>11, <1>12, <2>1, <2>4, Zenon
    <3>2. Len(wire[l][l[1]]) <= SendCap
      <4>1. wire[l][l[1]] \in Seq(MessagesTo(l, l[1]))
        BY <2>1, <2>4 DEF BusInv, EndInv
      <4>2. Len(wire[l][l[1]]) \in Nat
        BY <4>1, SeqLen
      <4> QED BY <1>5, <2>4, <4>2, ClusterBusAssumption
    <3> QED BY <2>1, <2>4, <3>1, <3>2, Zenon DEF LoopInv
  <2> QED BY <2>2, <2>3, <2>4, LinkFacts
<1>17. ASSUME NEW i \in Node PROVE MapInv(i)'
  <2>1. MapInv(i)
    BY DEF BusInv
  <2>2. CASE i # n
    <3>1. nodes'[i] = nodes[i]
      BY <1>13, <2>2
    <3>2. \A k \in Meets : i \in Ends(k) => object'[k][i] = object[k][i]
      BY <1>8, <2>2
    <3> QED BY <2>1, <3>1, <3>2 DEF MapInv
  <2>3. CASE i = n
    <3>1. DOMAIN map \subseteq Name
      BY <1>1, <1>6, <1>7 DEF MapInv
    <3>2. ASSUME NEW y \in DOMAIN map
          PROVE  /\ map[y] \in Ref
                 /\ map[y] \in Meets => n \in Ends(map[y]) /\ object'[map[y]][n] = y
      <4>1. CASE y = x
        BY <1>6, <1>7, <1>8, <4>1, Zenon
      <4>2. CASE y # x
        <5>1. y \in DOMAIN nodes[n] /\ map[y] = nodes[n][y] /\ y \in Name /\ ~(old[1] = "temp" /\ y = old)
          BY <1>1, <1>6, <3>2, <4>2, Zenon DEF MapInv
        <5>2. /\ map[y] \in Ref
              /\ map[y] \in Meets => n \in Ends(map[y]) /\ object[map[y]][n] = y
          BY <1>1, <5>1 DEF MapInv
        <5>3. map[y] # l
          BY <1>1, <1>7, <4>2, <5>1, <5>2, NameFacts, Zenon DEF EndInv
        <5> QED BY <1>8, <5>2, <5>3, Zenon
      <4> QED BY <4>1, <4>2, Zenon
    <3> QED BY <1>13, <2>3, <3>1, <3>2, Zenon DEF MapInv
  <2> QED BY <2>2, <2>3
<1> QED BY <1>14, <1>15, <1>16, <1>17 DEF BusInv

\* The new objects enter the map, over names that lead to no link's object or no longer
\* do, and a PING is answered: its read loop has found room before it took the PING.
LEMMA GossipInv ==
  ASSUME BusInv, NEW l \in Meets, NEW n \in Ends(l), ProcessGossip(l, n)
  PROVE  BusInv'
<1> DEFINE new == learnt[l][n]
           map == [x \in DOMAIN nodes[n] \cup new |-> IF x \in new THEN Loose ELSE nodes[n][x]]
<1>0. n \in Node /\ Peer(l, n) \in Ends(l) /\ Loose \in Ref /\ Loose \notin Meets
  BY LinkFacts DEF Peer, Ref
<1>1. EndInv(l, n) /\ MapInv(n) /\ LoopInv(l) /\ reading[l][n] # "none" /\ n \in alive
  BY <1>0 DEF BusInv, ProcessGossip
<1>2. link[l] = "open" /\ new \subseteq Name
  BY <1>1, Zenon DEF EndInv
<1>3. /\ nodes' = [nodes EXCEPT ![n] = map]
      /\ reading' = [reading EXCEPT ![l][n] = "none"]
      /\ learnt' = [learnt EXCEPT ![l][n] = {}]
      /\ UNCHANGED <<alive, owned, object, bitmap, link>>
  BY DEF ProcessGossip
<1>4. /\ DOMAIN map = DOMAIN nodes[n] \cup new
      /\ \A x \in DOMAIN map : map[x] = IF x \in new THEN Loose ELSE nodes[n][x]
  OBVIOUS
<1> HIDE DEF new, map
<1>5. DOMAIN nodes' = Node /\ nodes'[n] = map /\ \A i \in Node : i # n => nodes'[i] = nodes[i]
  BY <1>0, <1>3, Zenon DEF BusInv, BusType
<1>6. DOMAIN map \subseteq Name
  BY <1>1, <1>2, <1>4 DEF MapInv
<1>7. /\ Shape(reading') /\ reading'[l][n] = "none"
      /\ \A k \in Meets : \A j \in Ends(k) : k # l \/ j # n => reading'[k][j] = reading[k][j]
  <2>1. Shape(reading)
    BY DEF BusInv, BusType
  <2>2. Updated(reading, reading', l, n, "none")
    BY <1>3, <2>1, EndUpdate, Zenon
  <2> QED BY <2>2 DEF Updated
<1>8. /\ Shape(learnt') /\ learnt'[l][n] = {}
      /\ \A k \in Meets : \A j \in Ends(k) : k # l \/ j # n => learnt'[k][j] = learnt[k][j]
  <2>1. Shape(learnt)
    BY DEF BusInv, BusType
  <2>2. Updated(learnt, learnt', l, n, {})
    BY <1>3, <2>1, EndUpdate, Zenon
  <2> QED BY <2>2 DEF Updated
<1>9. \/ UNCHANGED wire
      \/ /\ n = l[2] /\ Shape(wire')
         /\ wire'[l][l[1]] \in Seq(MessagesTo(l, l[1])) /\ Len(wire'[l][l[1]]) <= SendCap + 1
         /\ \A k \in Meets : \A j \in Ends(k) : k # l \/ j # l[1] => wire'[k][j] = wire[k][j]
  <2>1. CASE reading[l][n] # "ping"
    BY <2>1, Zenon DEF ProcessGossip
  <2>2. CASE reading[l][n] = "ping"
    <3>1. PICK g \in Gossip(nodes'[n], l) : Send(l, Peer(l, n), Message("pong", n, g))
      BY <2>2, Zenon DEF ProcessGossip
    <3>2. g \subseteq Name
      BY <1>5, <1>6, <3>1, GossipNames, Zenon
    <3>3. n = l[2] /\ n # l[1] /\ Peer(l, n) = l[1]
      BY <1>1, <2>2, LinkFacts, Zenon DEF LoopInv
    <3>4. Message("pong", n, g) \in MessagesTo(l, l[1])
      BY <3>2, <3>3, MessageType, Zenon
    <3>5. Len(wire[l][l[1]]) <= SendCap /\ l[1] \in Ends(l)
      BY <1>1, <3>3, LinkFacts DEF LoopInv
    <3> DEFINE msg == Message("pong", n, g)
    <3>6. Send(l, l[1], msg) /\ msg \in MessagesTo(l, l[1])
      BY <3>1, <3>3, <3>4, Zenon
    <3> HIDE DEF msg
    <3> QED BY <3>3, <3>5, <3>6, SendEffect
  <2> QED BY <2>1, <2>2
<1>10. BusType'
  BY <1>3, <1>5, <1>7, <1>8, <1>9 DEF BusInv, BusType, Shape
<1>11. ASSUME NEW k \in Meets, NEW j \in Ends(k) PROVE EndInv(k, j)'
  <2>1. EndInv(k, j)
    BY DEF BusInv
  <2>2. learnt'[k][j] \subseteq Name
    BY <1>8, <2>1 DEF EndInv
  <2>3. reading'[k][j] \in {"none", reading[k][j]}
    BY <1>7, Zenon
  <2>4. wire'[k][j] = wire[k][j] \/ (k = l /\ j = l[1] /\ ~UNCHANGED wire)
    BY <1>9, Zenon
  <2>5. /\ wire'[k][j] \in Seq(MessagesTo(k, j)) /\ Len(wire'[k][j]) <= SendCap + 1
        /\ link[k] # "open" => wire'[k][j] = <<>>
    BY <1>2, <1>9, <2>1, <2>4 DEF EndInv
  <2> QED BY <1>3, <2>1, <2>2, <2>3, <2>5, Zenon DEF EndInv
<1>12. ASSUME NEW k \in Meets PROVE LoopInv(k)'
  <2>1. LoopInv(k) /\ k[1] \in Ends(k) /\ k[2] \in Ends(k) /\ k[1] # k[2]
    BY LinkFacts DEF BusInv
  <2>2. CASE k # l
    <3>1. wire'[k][k[1]] = wire[k][k[1]]
      BY <1>9, <2>1, <2>2
    <3> QED BY <1>7, <2>1, <2>2, <3>1 DEF LoopInv
  <2>3. CASE k = l /\ n = l[2]
    BY <1>7, <2>1, <2>3 DEF LoopInv
  <2>4. CASE k = l /\ n = l[1]
    <3>1. UNCHANGED wire
      BY <1>9, <2>1, <2>4
    <3> QED BY <1>7, <2>1, <2>4, <3>1 DEF LoopInv
  <2> QED BY <2>2, <2>3, <2>4, LinkFacts
<1>13. ASSUME NEW i \in Node PROVE MapInv(i)'
  <2>1. MapInv(i)
    BY DEF BusInv
  <2>2. CASE i # n
    BY <1>3, <1>5, <2>1, <2>2, Zenon DEF MapInv
  <2>3. CASE i = n
    BY <1>0, <1>3, <1>4, <1>5, <1>6, <2>1, <2>3 DEF MapInv
  <2> QED BY <2>2, <2>3
<1> QED BY <1>10, <1>11, <1>12, <1>13 DEF BusInv

LEMMA BusStepInv == BusInv /\ BusStep => BusInv'
<1> SUFFICES ASSUME BusInv, BusStep PROVE BusInv'
  BY Zenon
<1>1. ASSUME NEW n \in Node, Crash(n) PROVE BusInv'
  BY <1>1, AsideInv DEF Crash, BusInv, BusType
<1>2. ASSUME NEW l \in Meets, DialFails(l) \/ DialOk(l) PROVE BusInv'
  BY <1>2, DialFailsInv, DialOkInv
<1>3. ASSUME NEW l \in Meets, NEW n \in Ends(l), ProcessSender(l, n) \/ ProcessGossip(l, n)
      PROVE  BusInv'
  BY <1>3, SenderInv, GossipInv
<1>4. ASSUME NEW l \in Meets, ClusterCron(l[1], l) PROVE BusInv'
  BY <1>4, CronInv
<1> QED BY <1>1, <1>2, <1>3, <1>4 DEF BusStep

-----------------------------------------------------------------------------
(* The CLI *)

\* Where the CLI is in a job: it does not leave the list of nodes, and never gets to a
\* link when a job is refused.
CliInv ==
  /\ first \in Int
  /\ job \in 0 .. Len(Jobs)
  /\ cpc # "idle" => job > 0 /\ (Creating => Len(List) >= 3)
  /\ cpc \in {"dial", "slots"} => pos \in 1 .. Len(List)
  /\ cpc = "wait" => pos \in 2 .. Len(List)

\* A job's nodes.
LEMMA ListType ==
  ASSUME CliInv, job > 0
  PROVE  /\ List \in Seq(Node) /\ Len(List) \in Nat /\ Len(List) >= 2
         /\ \A i \in 1 .. Len(List) : List[i] \in Node
         /\ Bootstrap \in Node /\ Jobs[job].cmd \in {"create", "add"}
<1>1. job \in 1 .. Len(Jobs)
  BY ClusterCliAssumption, SeqLen DEF CliInv
<1>2. Jobs[job] \in [cmd : {"create", "add"}, nodes : Seq(Node)]
  BY <1>1, ClusterCliAssumption, SeqElement, Zenon
<1>3. List \in Seq(Node) /\ Len(List) \in Nat /\ Jobs[job].cmd \in {"create", "add"}
  BY <1>2, SeqLen DEF List
<1>4. Len(List) >= 2
  BY <1>1, ClusterCliAssumption, ClusterBusAssumption DEF List
<1>5. \A i \in 1 .. Len(List) : List[i] \in Node
  BY <1>3, SeqElement
<1> QED BY <1>3, <1>4, <1>5 DEF Bootstrap

\* The links of a job that was not refused.
LEMMA JobLinks ==
  ASSUME CliInv, cpc # "idle", NEW i \in 2 .. Len(List)
  PROVE  <<Bootstrap, List[i], job>> \in Meets
<1>1. job > 0 /\ job \in 1 .. Len(Jobs)
  BY ClusterCliAssumption, SeqLen DEF CliInv
<1>2. Jobs[job].cmd = "add" \/ Len(Jobs[job].nodes) >= 3
  BY <1>1, ListType DEF CliInv, Creating, List
<1> QED BY <1>1, <1>2, ClusterCliAssumption DEF Bootstrap, List

\* The rounded border is a whole number.
LEMMA LastType ==
  ASSUME NEW i \in Int, NEW count \in Nat, count > 0, NEW from \in Int
  PROVE  Last(i, count, from) \in Int
<1> DEFINE rounded == Round(i * CLUSTER_SLOTS - count, count)
           last == IF rounded > CLUSTER_SLOTS \/ i = count THEN CLUSTER_SLOTS - 1 ELSE rounded
<1>1. CLUSTER_SLOTS \in Nat /\ i * CLUSTER_SLOTS - count \in Int
  BY ClusterBusAssumption
<1>2. \A a \in Int : \A b \in Nat : b > 0 => (2 * a + b) \div (2 * b) \in Int
  OBVIOUS
<1>3. rounded \in Int
  BY <1>1, <1>2 DEF Round
<1> HIDE DEF rounded
<1>4. last \in Int
  BY <1>1, <1>3
<1> HIDE DEF last
<1>5. Max({from, last}) \in {from, last}
  <2>1. \E y \in {from, last} : \A z \in {from, last} : y >= z
    BY <1>4
  <2> QED BY <2>1 DEF Max
<1> QED BY <1>4, <1>5 DEF Last, last, rounded

\* One step of the CLI, or a connection of it that breaks.
LEMMA CliStepInv ==
  ASSUME BusInv, CliInv, Cli \/ Break
  PROVE  BusInv' /\ CliInv'
<1>0. Len(Jobs) \in Nat /\ CLUSTER_SLOTS \in Nat
  BY ClusterCliAssumption, ClusterBusAssumption, SeqLen, Zenon
<1>1. ASSUME UNCHANGED busVars PROVE BusInv'
  BY <1>1, AsideInv DEF busVars, BusInv, BusType
<1>2. ASSUME NEW r, End(r) PROVE CliInv'
  BY <1>2 DEF End, CliInv, List, Creating
<1>3. ASSUME cpc # "idle", NEW i \in 2 .. Len(List), Meet(i)
      PROVE  BusInv' /\ CliInv'
  <2>1. BusInv'
    BY <1>3, JobLinks, HandshakeInv DEF Meet
  <2>2. CliInv'
    BY <1>3 DEF Meet, CliInv, List, Creating
  <2> QED BY <2>1, <2>2
<1>4. CASE StartJob
  <2>1. UNCHANGED busVars /\ job' = job + 1 /\ job' \in 1 .. Len(Jobs)
    BY <1>0, <1>4 DEF StartJob, CliInv
  <2>2. Len(Jobs[job'].nodes) >= 2 /\ Len(Jobs[job'].nodes) \in Nat
    BY <1>0, <2>1, ClusterCliAssumption
  <2>3. job' \in 0 .. Len(Jobs) /\ job' > 0 /\ first' \in Int
    BY <1>0, <1>4, <2>1 DEF StartJob, CliInv
  <2>4. \/ cpc' = "idle"
        \/ /\ cpc' = "dial" /\ pos' = 1
           /\ Jobs[job'].cmd = "add" \/ Len(Jobs[job'].nodes) >= 3
    BY <1>4, <2>1 DEF StartJob
  <2>5. 1 \in 1 .. Len(Jobs[job'].nodes)
    BY <2>2
  <2>6. CliInv'
    BY <2>3, <2>4, <2>5 DEF CliInv, List, Creating
  <2> QED BY <1>1, <2>1, <2>6
<1>5. CASE DialNode
  <2>1. job > 0 /\ cpc = "dial" /\ UNCHANGED busVars
    BY <1>5 DEF DialNode, CliInv
  <2>2. Len(List) \in Nat /\ Len(List) >= 2
    BY <2>1, ListType
  <2>3. CASE \E r : End(r)
    BY <1>1, <1>2, <2>1, <2>3
  <2>4. CASE ~\E r : End(r)
    <3>1. UNCHANGED <<job, first>>
      BY <1>5, <2>4 DEF DialNode
    <3>2. /\ cpc' \in {"dial", "slots", "meet"}
          /\ cpc' \in {"dial", "slots"} => pos' \in 1 .. Len(List)
      BY <1>5, <2>2, <2>4 DEF DialNode, CliInv
    <3> QED BY <1>1, <2>1, <3>1, <3>2 DEF CliInv, List, Creating
  <2> QED BY <2>3, <2>4
<1>6. CASE DealSlots
  <2>1. job > 0 /\ cpc = "slots" /\ UNCHANGED job /\ pos \in 1 .. Len(List)
    BY <1>6 DEF DealSlots, CliInv
  <2>2. Len(List) \in Nat /\ Len(List) >= 2 /\ List[pos] \in Node
    BY <2>1, ListType
  <2>3. Last(pos, Len(List), first) \in Int
    BY <2>1, <2>2, LastType DEF CliInv
  <2>4. CliInv'
    <3>1. first' \in Int
      BY <1>6, <2>3 DEF DealSlots
    <3>2. /\ cpc' \in {"slots", "meet"}
          /\ cpc' = "slots" => pos' \in 1 .. Len(List)
      BY <1>6, <2>1, <2>2 DEF DealSlots
    <3> QED BY <2>1, <3>1, <3>2 DEF CliInv, List, Creating
  <2>5. CASE UNCHANGED busVars
    BY <1>1, <2>4, <2>5
  <2>6. CASE AddSlotsRange(List[pos], first, Last(pos, Len(List), first))
    <3>1. first .. Last(pos, Len(List), first) \subseteq Int
      BY <2>3 DEF CliInv
    <3>2. owned' \in [Node -> SUBSET Int] /\ alive' \subseteq Node
      BY <2>2, <2>6, <3>1 DEF AddSlotsRange, BusInv, BusType
    <3>3. BusInv'
      BY <2>6, <3>2, AsideInv DEF AddSlotsRange
    <3> QED BY <2>4, <3>3
  <2> QED BY <1>6, <2>5, <2>6 DEF DealSlots
<1>7. CASE FirstMeet
  <2>1. job > 0 /\ cpc # "idle"
    BY <1>7 DEF FirstMeet, CliInv
  <2>2. 2 \in 2 .. Len(List)
    BY <2>1, ListType
  <2> QED BY <1>1, <1>2, <1>3, <1>7, <2>1, <2>2 DEF FirstMeet
<1>8. CASE MeetReply
  <2>1. job > 0 /\ cpc # "idle" /\ pos \in 2 .. Len(List)
    BY <1>8 DEF MeetReply, CliInv
  <2>2. pos < Len(List) => pos + 1 \in 2 .. Len(List)
    BY <2>1, ListType
  <2> QED BY <1>1, <1>2, <1>3, <1>8, <2>1, <2>2 DEF MeetReply
<1>9. CASE Break
  BY <1>1, <1>9 DEF Break, CliInv, List, Creating
<1> QED BY <1>4, <1>5, <1>6, <1>7, <1>8, <1>9 DEF Cli

LEMMA InitAll == Init => BusInv /\ CliInv
<1> SUFFICES ASSUME Init PROVE BusInv /\ CliInv
  OBVIOUS
<1>1. Len(Jobs) \in Nat
  BY ClusterCliAssumption, SeqLen
<1> QED BY <1>1, BusInitInv DEF Init, CliInv

LEMMA StepAll == BusInv /\ CliInv /\ [Next]_vars => BusInv' /\ CliInv'
<1> SUFFICES ASSUME BusInv, CliInv, [Next]_vars PROVE BusInv' /\ CliInv'
  OBVIOUS
<1>1. CASE Cli \/ Break
  BY <1>1, CliStepInv
<1>2. CASE BusStep /\ UNCHANGED cliVars
  <2>1. CliInv'
    BY <1>2 DEF cliVars, CliInv, List, Creating
  <2> QED BY <1>2, <2>1, BusStepInv
<1>3. CASE UNCHANGED vars
  <2>1. CliInv'
    BY <1>3, Zenon DEF vars, cliVars, CliInv, List, Creating
  <2>2. BusInv'
    BY <1>3, AsideInv DEF vars, busVars, BusInv, BusType
  <2> QED BY <2>1, <2>2
<1> QED BY <1>1, <1>2, <1>3 DEF Next

LEMMA InvAll == Spec => [](BusInv /\ CliInv)
BY InitAll, StepAll, PTL DEF Spec

\* Whatever the links between the nodes, the calls of the CLI, the dials that fail and
\* the nodes that die, the maps of all nodes fit their objects and no queue exceeds
\* its channel (gossip.go, link.go).
THEOREM EntriesCorrect == Spec => []EntriesConsistent
BY InvAll, BusMeaning, PTL

-----------------------------------------------------------------------------
(***************************************************************************)
(* Routes in a star, the shape --create-cluster builds: all links have one *)
(* node, the hub h, in common.  Gossip overwrites an entry only if its     *)
(* name was unknown when the message was looked through.  In a star every  *)
(* UUID that is anywhere on its way has gone through the hub and is in its *)
(* map, so the hub never learns one from gossip; and nobody tells a node   *)
(* about itself or about the hub.                                          *)
(***************************************************************************)

IsHub(h) == h \in Node /\ \A l \in Meets : h \in Ends(l)

\* The gossip g of a message to node n, when the hub knows the names in known.
Told(known, h, n, g) ==
  \A r \in Node : Id(r) \in g => Id(r) \in known /\ (n # h => r # h)

SelfInv(n) ==
  /\ Id(n) \in DOMAIN nodes[n] /\ nodes[n][Id(n)] = Self
  /\ \A x \in DOMAIN nodes[n] : nodes[n][x] = Self => x = Id(n)

HeardInv(h, n) ==
  \A r \in Node : Id(r) \in DOMAIN nodes[n] => r = n \/ Id(r) \in DOMAIN nodes[h]

LearntInv(h, l, n) ==
  \A r \in Node : Id(r) \in learnt[l][n] =>
    n # h /\ r # h /\ r # n /\ Id(r) \in DOMAIN nodes[h]

StarInv(h) ==
  /\ \A n \in Node : SelfInv(n) /\ HeardInv(h, n)
  /\ \A l \in Meets : \A n \in Ends(l) :
       /\ LearntInv(h, l, n)
       /\ \A i \in 1 .. Len(wire[l][n]) : Told(DOMAIN nodes[h], h, n, wire[l][n][i].gossip)

\* The hub keeps the UUIDs it knows.
HubKeeps(h) == \A r \in Node : Id(r) \in DOMAIN nodes[h] => Id(r) \in DOMAIN nodes'[h]

LEMMA StarInit ==
  ASSUME NEW h, IsHub(h), BusInit
  PROVE  StarInv(h)
<1>1. ASSUME NEW n \in Node PROVE SelfInv(n) /\ HeardInv(h, n)
  <2>1. nodes[n] = [x \in {Id(n)} |-> Self]
    BY DEF BusInit
  <2>2. DOMAIN nodes[n] = {Id(n)} /\ nodes[n][Id(n)] = Self
    BY <2>1
  <2> QED BY <2>2, NameFacts, Zenon DEF SelfInv, HeardInv
<1>2. ASSUME NEW l \in Meets, NEW n \in Ends(l)
      PROVE  wire[l][n] = <<>> /\ learnt[l][n] = {}
  BY PerEndShape, Zenon DEF BusInit
<1>3. 1 .. Len(<<>>) = {}
  BY SeqEmpty
<1> QED BY <1>1, <1>2, <1>3, Zenon DEF StarInv, LearntInv

\* What a node gossips about is known to the hub.
LEMMA ToldGossip ==
  ASSUME NEW h, IsHub(h), NEW l \in Meets, NEW n \in Ends(l), NEW known,
         NEW map, DOMAIN map \subseteq Name, map[Id(n)] = Self,
         \A r \in Node : Id(r) \in DOMAIN map => r = n \/ Id(r) \in known,
         NEW g \in Gossip(map, l)
  PROVE  Told(known, h, Peer(l, n), g)
<1>1. \A r \in Node : Id(r) \in g => Id(r) \in DOMAIN map /\ r # n
  BY GossipNames
<1>2. Peer(l, n) # h => n = h
  BY LinkFacts DEF IsHub, Peer
<1> QED BY <1>1, <1>2 DEF Told

\* A message stays told when the hub keeps what it knows.
LEMMA ToldKept ==
  ASSUME NEW h, HubKeeps(h), NEW n, NEW g, Told(DOMAIN nodes[h], h, n, g)
  PROVE  Told(DOMAIN nodes'[h], h, n, g)
BY DEF Told, HubKeeps

\* The elements of a queue after a message was put in ...
PutIn(S, q, m, r) == q \in Seq(S) /\ m \in S /\ r = Append(q, m)
Among(r, q, m) == \A i \in 1 .. Len(r) : r[i] = m \/ \E j \in 1 .. Len(q) : r[i] = q[j]

LEMMA Enqueued ==
  ASSUME NEW S, NEW q, NEW m, NEW r, PutIn(S, q, m, r)
  PROVE  Among(r, q, m)
<1>1. q \in Seq(S) /\ m \in S /\ r = Append(q, m) /\ Len(q) \in Nat
  BY SeqLen DEF PutIn
<1> QED BY <1>1, SeqAppend DEF Among

\* ... or taken out.
LEMMA Dequeued ==
  ASSUME NEW S, NEW q \in Seq(S), q # <<>>
  PROVE  /\ \E j \in 1 .. Len(q) : Head(q) = q[j]
         /\ \A i \in 1 .. Len(Tail(q)) : \E j \in 1 .. Len(q) : Tail(q)[i] = q[j]
<1>0. Len(q) \in Nat
  BY SeqLen
<1>1. Len(q) > 0 /\ Head(q) = q[1]
  BY <1>0, SeqEmpty
<1>2. \A i \in 1 .. Len(Tail(q)) : i + 1 \in 1 .. Len(q) /\ Tail(q)[i] = q[i + 1]
  BY <1>0, SeqTail
<1> QED BY <1>0, <1>1, <1>2

-----------------------------------------------------------------------------
\* Steps that leave maps, queues and read loops alone.
LEMMA StarAside ==
  ASSUME NEW h, StarInv(h), UNCHANGED <<nodes, wire, learnt>>
  PROVE  StarInv(h)'
<1>1. ASSUME NEW n \in Node PROVE SelfInv(n)' /\ HeardInv(h, n)'
  BY Zenon DEF StarInv, SelfInv, HeardInv
<1>2. ASSUME NEW l \in Meets, NEW n \in Ends(l)
      PROVE  /\ LearntInv(h, l, n)'
             /\ \A i \in 1 .. Len(wire'[l][n]) :
                  Told(DOMAIN nodes'[h], h, n, wire'[l][n][i].gossip)
  <2>1. LearntInv(h, l, n)'
    BY Zenon DEF StarInv, LearntInv
  <2>2. \A i \in 1 .. Len(wire[l][n]) : Told(DOMAIN nodes[h], h, n, wire[l][n][i].gossip)
    BY DEF StarInv
  <2> QED BY <2>1, <2>2, Zenon
<1> QED BY <1>1, <1>2, Zenon DEF StarInv

LEMMA StarHandshake ==
  ASSUME BusInv, NEW h, IsHub(h), StarInv(h), NEW l \in Meets, ClusterStartHandshake(l)
  PROVE  StarInv(h)'
<1>1. /\ nodes' = [nodes EXCEPT ![l[1]] = SetNode(nodes[l[1]], Temp(l), l)]
      /\ UNCHANGED <<wire, learnt>> /\ l[1] \in Node /\ DOMAIN nodes = Node /\ h \in Node
  BY LinkFacts, Zenon DEF ClusterStartHandshake, BusInv, BusType, IsHub
<1>2. ASSUME NEW n \in Node
      PROVE  /\ \A r \in Node : Id(r) \in DOMAIN nodes'[n] <=> Id(r) \in DOMAIN nodes[n]
             /\ \A r \in Node : Id(r) \in DOMAIN nodes[n] => nodes'[n][Id(r)] = nodes[n][Id(r)]
             /\ \A x \in DOMAIN nodes'[n] : nodes'[n][x] = Self =>
                  x \in DOMAIN nodes[n] /\ nodes[n][x] = Self
  BY <1>1, NameFacts, LinkFacts DEF SetNode
<1>3. ASSUME NEW n \in Node PROVE SelfInv(n)' /\ HeardInv(h, n)'
  <2>1. SelfInv(n) /\ HeardInv(h, n)
    BY Zenon DEF StarInv
  <2>2. SelfInv(n)'
    BY <1>2, <2>1, Zenon DEF SelfInv
  <2>3. HeardInv(h, n)'
    BY <1>1, <1>2, <2>1 DEF HeardInv
  <2> QED BY <2>2, <2>3, Zenon
<1>4. ASSUME NEW k \in Meets, NEW n \in Ends(k)
      PROVE  /\ LearntInv(h, k, n)'
             /\ \A i \in 1 .. Len(wire'[k][n]) :
                  Told(DOMAIN nodes'[h], h, n, wire'[k][n][i].gossip)
  <2>1. HubKeeps(h) /\ wire' = wire /\ learnt' = learnt
    BY <1>1, <1>2 DEF HubKeeps
  <2>2. /\ LearntInv(h, k, n)
        /\ \A i \in 1 .. Len(wire[k][n]) : Told(DOMAIN nodes[h], h, n, wire[k][n][i].gossip)
    BY Zenon DEF StarInv
  <2>3. LearntInv(h, k, n)'
    BY <2>1, <2>2 DEF LearntInv, HubKeeps
  <2>4. \A i \in 1 .. Len(wire[k][n]) : Told(DOMAIN nodes'[h], h, n, wire[k][n][i].gossip)
    BY <2>1, <2>2, ToldKept, Zenon
  <2> QED BY <2>1, <2>3, <2>4, Zenon
<1> QED BY <1>3, <1>4, Zenon DEF StarInv

\* A PING, also the first one on a link.
LEMMA StarPing ==
  ASSUME BusInv, NEW h, IsHub(h), StarInv(h), NEW l \in Meets,
         NEW g \in Gossip(nodes[l[1]], l), Len(wire[l][l[2]]) <= SendCap,
         Send(l, l[2], Message("ping", l[1], g)), UNCHANGED <<nodes, learnt>>
  PROVE  StarInv(h)'
<1> DEFINE p == l[1]  q == l[2]  msg == Message("ping", p, g)
<1>0. p \in Node /\ q \in Ends(l) /\ p \in Ends(l) /\ Peer(l, p) = q
  BY LinkFacts, Zenon
<1>1. MapInv(p) /\ SelfInv(p) /\ HeardInv(h, p) /\ HubKeeps(h)
  BY <1>0, Zenon DEF BusInv, StarInv, HubKeeps
<1>2. g \subseteq Name /\ Told(DOMAIN nodes[h], h, q, g)
  <2>1. /\ DOMAIN nodes[p] \subseteq Name /\ nodes[p][Id(p)] = Self
        /\ \A r \in Node : Id(r) \in DOMAIN nodes[p] => r = p \/ Id(r) \in DOMAIN nodes[h]
    BY <1>1, Zenon DEF MapInv, SelfInv, HeardInv
  <2>2. g \subseteq Name
    BY <1>0, <2>1, GossipNames, Zenon
  <2>3. Told(DOMAIN nodes[h], h, Peer(l, p), g)
    BY <1>0, <2>1, ToldGossip, Zenon
  <2> QED BY <1>0, <2>2, <2>3, Zenon
<1>3. msg \in MessagesTo(l, q) /\ msg.gossip = g
  BY <1>0, <1>2, MessageType, Zenon DEF Message
<1>4. Send(l, q, msg)
  OBVIOUS
<1> HIDE DEF p, q, msg
<1>5. /\ wire'[l][q] = Append(wire[l][q], msg)
      /\ \A k \in Meets : \A j \in Ends(k) : k # l \/ j # q => wire'[k][j] = wire[k][j]
  BY <1>0, <1>3, <1>4, SendEffect, Zenon DEF q
<1>6. wire[l][q] \in Seq(MessagesTo(l, q))
  BY <1>0, Zenon DEF BusInv, EndInv
<1>7. ASSUME NEW k \in Meets, NEW n \in Ends(k)
      PROVE  /\ LearntInv(h, k, n)'
             /\ \A i \in 1 .. Len(wire'[k][n]) :
                  Told(DOMAIN nodes'[h], h, n, wire'[k][n][i].gossip)
  <2>1. LearntInv(h, k, n)'
    BY Zenon DEF StarInv, LearntInv
  <2>2. CASE k = l /\ n = q
    <3>1. \A i \in 1 .. Len(wire'[l][q]) :
            wire'[l][q][i] = msg \/ \E j \in 1 .. Len(wire[l][q]) : wire'[l][q][i] = wire[l][q][j]
      <4> DEFINE S == MessagesTo(l, q)  old == wire[l][q]  new == wire'[l][q]
      <4>1. PutIn(S, old, msg, new)
        BY <1>3, <1>5, <1>6, Zenon DEF PutIn
      <4> HIDE DEF S, old, new
      <4>2. Among(new, old, msg)
        BY <4>1, Enqueued, Zenon
      <4> QED BY <4>2, Zenon DEF Among, old, new
    <3>2. \A j \in 1 .. Len(wire[l][q]) : Told(DOMAIN nodes[h], h, q, wire[l][q][j].gossip)
      BY <1>0, Zenon DEF StarInv
    <3>3. \A i \in 1 .. Len(wire'[l][q]) : Told(DOMAIN nodes[h], h, q, wire'[l][q][i].gossip)
      BY <1>2, <1>3, <3>1, <3>2, Zenon
    <3> QED BY <2>1, <2>2, <3>3, Zenon
  <2>3. CASE ~(k = l /\ n = q)
    BY <1>5, <2>1, <2>3, Zenon DEF StarInv
  <2> QED BY <2>2, <2>3
<1>8. ASSUME NEW n \in Node PROVE SelfInv(n)' /\ HeardInv(h, n)'
  BY Zenon DEF StarInv, SelfInv, HeardInv
<1> QED BY <1>7, <1>8, Zenon DEF StarInv

\* A read loop takes a message.  The hub knows every UUID in it.
LEMMA StarSender ==
  ASSUME BusInv, NEW h, IsHub(h), StarInv(h), NEW l \in Meets, NEW n \in Ends(l),
         ProcessSender(l, n)
  PROVE  StarInv(h)'
<1> DEFINE m == Head(wire[l][n])
           old == object[l][n]
           x == Id(m.sender)
           map == AfterSender(n, l, m)
           new == (m.gossip \ {Id(n)}) \ DOMAIN map
<1>0. /\ n \in Node /\ h \in Node /\ Peer(l, n) \in Node /\ Peer(l, n) # n
      /\ n # h => Peer(l, n) = h
  BY LinkFacts, Zenon DEF Peer, IsHub
<1>1. wire[l][n] \in Seq(MessagesTo(l, n)) /\ wire[l][n] # <<>>
  BY DEF BusInv, EndInv, ProcessSender
<1>2. m \in MessagesTo(l, n)
  BY <1>1, SeqTail
<1>3. x = Id(Peer(l, n))
  BY <1>2, Zenon DEF MessagesTo
<1>4. /\ nodes' = [nodes EXCEPT ![n] = map]
      /\ learnt' = [learnt EXCEPT ![l][n] = new]
      /\ wire' = [wire EXCEPT ![l][n] = Tail(wire[l][n])]
  BY DEF ProcessSender
<1>5. /\ DOMAIN map = (IF old[1] = "temp" THEN DOMAIN nodes[n] \ {old} ELSE DOMAIN nodes[n]) \cup {x}
      /\ map[x] = l
      /\ \A y \in DOMAIN map : y # x => map[y] = nodes[n][y]
  BY Zenon DEF AfterSender, SetNode, DeleteNode, Restrict
<1>6. Told(DOMAIN nodes[h], h, n, m.gossip)
  <2>1. PICK j \in 1 .. Len(wire[l][n]) : m = wire[l][n][j]
    BY <1>1, Dequeued, Zenon DEF m
  <2> QED BY <2>1, Zenon DEF StarInv
<1>7. new = (m.gossip \ {Id(n)}) \ DOMAIN map
  BY Zenon
<1> HIDE DEF m, map, new, x, old
<1>8. nodes'[n] = map /\ \A i \in Node : i # n => nodes'[i] = nodes[i]
  BY <1>0, <1>4 DEF BusInv, BusType
<1>9. \A r \in Node : /\ Id(r) \in DOMAIN nodes[n] => Id(r) \in DOMAIN map
                      /\ Id(r) \in DOMAIN map => Id(r) \in DOMAIN nodes[n] \/ r = Peer(l, n)
  BY <1>3, <1>5, NameFacts, Zenon
<1>10. HubKeeps(h)
  BY <1>0, <1>8, <1>9, Zenon DEF HubKeeps
<1>11. ASSUME NEW i \in Node PROVE SelfInv(i)' /\ HeardInv(h, i)'
  <2>1. SelfInv(i) /\ HeardInv(h, i) /\ SelfInv(h)
    BY <1>0 DEF StarInv
  <2>2. CASE i # n
    BY <1>8, <1>10, <2>1, <2>2, Zenon DEF SelfInv, HeardInv, HubKeeps
  <2>3. CASE i = n
    <3>1. Id(n) \in DOMAIN map /\ map[Id(n)] = Self
      BY <1>0, <1>3, <1>5, <1>9, <2>1, <2>3, NameFacts, Zenon DEF SelfInv
    <3>2. \A y \in DOMAIN map : map[y] = Self => y = Id(n)
      BY <1>5, <2>1, <2>3, LinkFacts, Zenon DEF SelfInv
    <3>3. Id(h) \in DOMAIN nodes'[h]
      BY <1>0, <1>10, <2>1 DEF SelfInv, HubKeeps
    <3>4. ASSUME NEW r \in Node, Id(r) \in DOMAIN map PROVE r = n \/ Id(r) \in DOMAIN nodes'[h]
      <4>1. CASE n = h
        BY <1>8, <3>4, <4>1, Zenon
      <4>2. CASE n # h
        BY <1>0, <1>9, <1>10, <2>1, <2>3, <3>3, <3>4, <4>2, Zenon DEF HeardInv, HubKeeps
      <4> QED BY <4>1, <4>2, Zenon
    <3> QED BY <1>8, <2>3, <3>1, <3>2, <3>4 DEF SelfInv, HeardInv
  <2> QED BY <2>2, <2>3, Zenon
<1>12. /\ wire'[l][n] = Tail(wire[l][n])
       /\ \A k \in Meets : \A j \in Ends(k) : k # l \/ j # n => wire'[k][j] = wire[k][j]
  <2>1. Shape(wire)
    BY DEF BusInv, BusType
  <2>2. Updated(wire, wire', l, n, Tail(wire[l][n]))
    BY <1>4, <2>1, EndUpdate, Zenon
  <2> QED BY <2>2 DEF Updated
<1>13. /\ learnt'[l][n] = new
       /\ \A k \in Meets : \A j \in Ends(k) : k # l \/ j # n => learnt'[k][j] = learnt[k][j]
  <2>1. Shape(learnt)
    BY DEF BusInv, BusType
  <2>2. Updated(learnt, learnt', l, n, new)
    BY <1>4, <2>1, EndUpdate, Zenon
  <2> QED BY <2>2 DEF Updated
<1>14. ASSUME NEW k \in Meets, NEW j \in Ends(k) PROVE LearntInv(h, k, j)'
  <2>1. CASE k # l \/ j # n
    BY <1>10, <1>13, <2>1, Zenon DEF StarInv, LearntInv, HubKeeps
  <2>2. CASE k = l /\ j = n
    <3> SUFFICES ASSUME NEW r \in Node, Id(r) \in new
                 PROVE  n # h /\ r # h /\ r # n /\ Id(r) \in DOMAIN nodes'[h]
      BY <1>13, <2>2, Zenon DEF LearntInv
    <3>1. Id(r) \in m.gossip /\ r # n /\ Id(r) \notin DOMAIN map
      BY <1>7, Zenon
    <3>2. Id(r) \in DOMAIN nodes[h] /\ (n # h => r # h)
      BY <1>6, <3>1, Zenon DEF Told
    <3>3. n # h
      BY <1>9, <3>1, <3>2
    <3> QED BY <1>10, <3>1, <3>2, <3>3, Zenon DEF HubKeeps
  <2> QED BY <2>1, <2>2
<1>15. ASSUME NEW k \in Meets, NEW j \in Ends(k), NEW i \in 1 .. Len(wire'[k][j])
       PROVE  Told(DOMAIN nodes'[h], h, j, wire'[k][j][i].gossip)
  <2>1. PICK a \in 1 .. Len(wire[k][j]) : wire'[k][j][i] = wire[k][j][a]
    <3>1. CASE k # l \/ j # n
      BY <1>12, <1>15, <3>1
    <3>2. CASE k = l /\ j = n
      <4>1. \A b \in 1 .. Len(Tail(wire[l][n])) :
              \E a \in 1 .. Len(wire[l][n]) : Tail(wire[l][n])[b] = wire[l][n][a]
        BY <1>1, Dequeued
      <4> QED BY <1>12, <1>15, <3>2, <4>1, Zenon
    <3> QED BY <3>1, <3>2, Zenon
  <2>2. Told(DOMAIN nodes[h], h, j, wire[k][j][a].gossip)
    BY DEF StarInv
  <2> QED BY <1>10, <2>1, <2>2, ToldKept, Zenon
<1> QED BY <1>11, <1>14, <1>15, Zenon DEF StarInv

\* The rest of a message: new entries, and the answer.
LEMMA StarGossip ==
  ASSUME BusInv, BusInv', NEW h, IsHub(h), StarInv(h), NEW l \in Meets, NEW n \in Ends(l),
         ProcessGossip(l, n)
  PROVE  StarInv(h)'
<1> DEFINE new == learnt[l][n]
           map == [x \in DOMAIN nodes[n] \cup new |-> IF x \in new THEN Loose ELSE nodes[n][x]]
<1>0. n \in Node /\ h \in Node /\ Self # Loose
  BY LinkFacts DEF IsHub
<1>1. SelfInv(n) /\ HeardInv(h, n) /\ LearntInv(h, l, n)
  BY <1>0, Zenon DEF StarInv
<1>2. nodes' = [nodes EXCEPT ![n] = map] /\ learnt' = [learnt EXCEPT ![l][n] = {}]
  BY DEF ProcessGossip
<1>3. /\ DOMAIN map = DOMAIN nodes[n] \cup new
      /\ \A x \in DOMAIN map : map[x] = IF x \in new THEN Loose ELSE nodes[n][x]
      /\ new = learnt[l][n]
  BY Zenon
<1> HIDE DEF new, map
<1>4. nodes'[n] = map /\ \A i \in Node : i # n => nodes'[i] = nodes[i]
  BY <1>0, <1>2, Zenon DEF BusInv, BusType
<1>5. HubKeeps(h)
  BY <1>0, <1>3, <1>4 DEF HubKeeps
<1>6. Id(n) \in DOMAIN map /\ map[Id(n)] = Self
  <2>1. Id(n) \notin new
    BY <1>0, <1>1, <1>3, Zenon DEF LearntInv
  <2> QED BY <1>1, <1>3, <2>1, Zenon DEF SelfInv
<1>7. \A r \in Node : Id(r) \in DOMAIN map => r = n \/ Id(r) \in DOMAIN nodes'[h]
  BY <1>1, <1>3, <1>5, Zenon DEF HeardInv, LearntInv, HubKeeps
<1>8. ASSUME NEW i \in Node PROVE SelfInv(i)' /\ HeardInv(h, i)'
  <2>1. SelfInv(i) /\ HeardInv(h, i)
    BY DEF StarInv
  <2>2. CASE i # n
    BY <1>4, <1>5, <2>1, <2>2, Zenon DEF SelfInv, HeardInv, HubKeeps
  <2>3. CASE i = n
    <3>1. \A y \in DOMAIN map : map[y] = Self => y = Id(n)
      BY <1>0, <1>1, <1>3, Zenon DEF SelfInv
    <3> QED BY <1>4, <1>6, <1>7, <2>3, <3>1 DEF SelfInv, HeardInv
  <2> QED BY <2>2, <2>3, Zenon
<1>9. ASSUME NEW k \in Meets, NEW j \in Ends(k) PROVE LearntInv(h, k, j)'
  <2>1. Shape(learnt)
    BY Zenon DEF BusInv, BusType
  <2>2. Updated(learnt, learnt', l, n, {})
    BY <1>2, <2>1, EndUpdate, Zenon
  <2>3. learnt'[k][j] \subseteq learnt[k][j]
    BY <2>2, Zenon DEF Updated
  <2> QED BY <1>5, <2>3, Zenon DEF StarInv, LearntInv, HubKeeps
<1>10. ASSUME NEW k \in Meets, NEW j \in Ends(k), NEW i \in 1 .. Len(wire'[k][j]),
              NEW a \in 1 .. Len(wire[k][j]), wire'[k][j][i] = wire[k][j][a]
       PROVE  Told(DOMAIN nodes'[h], h, j, wire'[k][j][i].gossip)
  <2>1. Told(DOMAIN nodes[h], h, j, wire[k][j][a].gossip)
    BY Zenon DEF StarInv
  <2> QED BY <1>5, <1>10, <2>1, ToldKept, Zenon
<1>11. ASSUME NEW k \in Meets, NEW j \in Ends(k), NEW i \in 1 .. Len(wire'[k][j])
       PROVE  Told(DOMAIN nodes'[h], h, j, wire'[k][j][i].gossip)
  <2>1. CASE UNCHANGED wire
    BY <1>10, <1>11, <2>1, Zenon
  <2>2. CASE reading[l][n] = "ping"
    <3>1. PICK g \in Gossip(map, l) : Send(l, Peer(l, n), Message("pong", n, g))
      BY <1>4, <2>2, Zenon DEF ProcessGossip
    <3>2. DOMAIN map \subseteq Name
      BY <1>0, <1>4, Zenon DEF BusInv, MapInv
    <3>3. g \subseteq Name /\ Told(DOMAIN nodes'[h], h, Peer(l, n), g)
      BY <1>6, <1>7, <3>2, GossipNames, ToldGossip, Zenon
    <3>4. LoopInv(l) /\ reading[l][n] # "none"
      BY <2>2, Zenon DEF BusInv
    <3>5. n = l[2] /\ n # l[1] /\ Peer(l, n) = l[1] /\ l[1] \in Ends(l)
      BY <2>2, <3>4, LinkFacts, Zenon DEF LoopInv
    <3>6. Len(wire[l][l[1]]) <= SendCap
      BY <3>4, <3>5 DEF LoopInv
    <3> DEFINE msg == Message("pong", n, g)
    <3>7. msg \in MessagesTo(l, l[1]) /\ Send(l, l[1], msg) /\ msg.gossip = g
      BY <3>1, <3>3, <3>5, MessageType, Zenon DEF Message
    <3> HIDE DEF msg
    <3>8. /\ wire'[l][l[1]] = Append(wire[l][l[1]], msg)
          /\ \A b \in Meets : \A c \in Ends(b) : b # l \/ c # l[1] => wire'[b][c] = wire[b][c]
      BY <3>5, <3>6, <3>7, SendEffect, Zenon
    <3>9. CASE k # l \/ j # l[1]
      BY <1>10, <1>11, <3>8, <3>9, Zenon
    <3>10. CASE k = l /\ j = l[1]
      <4>1. wire[l][l[1]] \in Seq(MessagesTo(l, l[1]))
        BY <3>5, Zenon DEF BusInv, EndInv
      <4>2. \A b \in 1 .. Len(wire'[l][l[1]]) :
              \/ wire'[l][l[1]][b] = msg
              \/ \E a \in 1 .. Len(wire[l][l[1]]) : wire'[l][l[1]][b] = wire[l][l[1]][a]
        <5>1. msg \in MessagesTo(l, l[1])
          BY <3>7, Zenon
        <5>2. wire'[l][l[1]] = Append(wire[l][l[1]], msg)
          BY <3>8, Zenon
        <5> DEFINE old == wire[l][l[1]]  now == wire'[l][l[1]]  S == MessagesTo(l, l[1])
        <5>3. PutIn(S, old, msg, now)
          BY <4>1, <5>1, <5>2 DEF PutIn
        <5> HIDE DEF old, now, S
        <5>4. Among(now, old, msg)
          BY <5>3, Enqueued
        <5> QED BY <5>4, Zenon DEF Among, old, now
      <4>3. CASE wire'[k][j][i] = msg
        BY <3>3, <3>5, <3>7, <3>10, <4>3, Zenon
      <4>4. CASE wire'[k][j][i] # msg
        <5>1. \E a \in 1 .. Len(wire[k][j]) : wire'[k][j][i] = wire[k][j][a]
          BY <1>11, <3>10, <4>2, <4>4
        <5> QED BY <1>10, <5>1, Zenon
      <4> QED BY <4>3, <4>4
    <3> QED BY <3>9, <3>10, Zenon
  <2> QED BY <2>1, <2>2 DEF ProcessGossip
<1> QED BY <1>8, <1>9, <1>11, Zenon DEF StarInv

-----------------------------------------------------------------------------
LEMMA StarBusStep ==
  ASSUME BusInv, NEW h, IsHub(h), StarInv(h), BusStep
  PROVE  StarInv(h)'
<1>0. BusInv'
  BY BusStepInv
<1>1. ASSUME NEW n \in Node, Crash(n) PROVE StarInv(h)'
  BY <1>1, StarAside DEF Crash
<1>2. ASSUME NEW l \in Meets, DialFails(l) PROVE StarInv(h)'
  BY <1>2, StarAside DEF DialFails
<1>3. ASSUME NEW l \in Meets, DialOk(l) PROVE StarInv(h)'
  <2>1. PICK g \in Gossip(nodes[l[1]], l) : Send(l, l[2], Message("ping", l[1], g))
    BY <1>3, Zenon DEF DialOk
  <2>2. wire[l][l[2]] = <<>>
    BY <1>3, LinkFacts, Zenon DEF DialOk, BusInv, EndInv
  <2>3. Len(wire[l][l[2]]) <= SendCap
    BY <2>2, SeqEmpty, ClusterBusAssumption
  <2> QED BY <1>3, <2>1, <2>3, StarPing, Zenon DEF DialOk
<1>4. ASSUME NEW l \in Meets, ClusterCron(l[1], l) PROVE StarInv(h)'
  <2>1. PICK g \in Gossip(nodes[l[1]], l) : Send(l, l[2], Message("ping", l[1], g))
    BY <1>4, Zenon DEF ClusterCron
  <2>2. ~(Len(wire[l][l[2]]) > SendCap)
    BY <1>4, Zenon DEF ClusterCron, Blocked
  <2>3. EndInv(l, l[2])
    BY LinkFacts, Zenon DEF BusInv
  <2>4. wire[l][l[2]] \in Seq(MessagesTo(l, l[2]))
    BY <2>3, Zenon DEF EndInv
  <2>5. Len(wire[l][l[2]]) \in Nat /\ SendCap \in Nat
    BY <2>4, SeqLen, ClusterBusAssumption, Zenon
  <2>6. Len(wire[l][l[2]]) <= SendCap
    BY <2>2, <2>5
  <2> QED BY <1>4, <2>1, <2>6, StarPing, Zenon DEF ClusterCron
<1>5. ASSUME NEW l \in Meets, NEW n \in Ends(l), ProcessSender(l, n) PROVE StarInv(h)'
  BY <1>5, StarSender
<1>6. ASSUME NEW l \in Meets, NEW n \in Ends(l), ProcessGossip(l, n) PROVE StarInv(h)'
  BY <1>0, <1>6, StarGossip, Zenon
<1> QED BY <1>1, <1>2, <1>3, <1>4, <1>5, <1>6 DEF BusStep

\* But for the slots of a node the CLI changes the bus only by a CLUSTER MEET.
LEMMA CliMaps ==
  ASSUME CliInv, Cli \/ Break
  PROVE  \/ UNCHANGED <<alive, nodes, object, bitmap, link, wire, reading, learnt>>
         \/ \E l \in Meets : ClusterStartHandshake(l)
<1>1. CASE FirstMeet
  <2>1. job > 0 /\ cpc # "idle"
    BY <1>1 DEF FirstMeet, CliInv
  <2>2. 2 \in 2 .. Len(List)
    BY <2>1, ListType
  <2> QED BY <1>1, <2>1, <2>2, JobLinks DEF FirstMeet, Meet, busVars
<1>2. CASE MeetReply
  <2>1. job > 0 /\ cpc # "idle" /\ pos \in 2 .. Len(List)
    BY <1>2 DEF MeetReply, CliInv
  <2>2. pos < Len(List) => pos + 1 \in 2 .. Len(List)
    BY <2>1, ListType
  <2> QED BY <1>2, <2>1, <2>2, JobLinks DEF MeetReply, Meet, busVars
<1>3. CASE StartJob \/ DialNode \/ Break
  BY <1>3, Zenon DEF StartJob, DialNode, Break, busVars
<1>4. CASE DealSlots
  BY <1>4 DEF DealSlots, AddSlotsRange, busVars
<1> QED BY <1>1, <1>2, <1>3, <1>4, Zenon DEF Cli

LEMMA StarStep ==
  ASSUME BusInv, CliInv, NEW h, IsHub(h), StarInv(h), [Next]_vars
  PROVE  StarInv(h)'
<1>1. CASE Cli \/ Break
  BY <1>1, CliMaps, StarAside, StarHandshake
<1>2. CASE BusStep
  BY <1>2, StarBusStep
<1>3. CASE UNCHANGED vars
  BY <1>3, StarAside DEF vars, busVars
<1> QED BY <1>1, <1>2, <1>3 DEF Next

\* A route is not lost in a step.
LEMMA RouteStep ==
  ASSUME BusInv, CliInv, NEW h, IsHub(h), StarInv(h), [Next]_vars,
         NEW p \in Node, NEW q \in Node, Routes(p, q)
  PROVE  Routes(p, q)'
<1>1. CASE nodes' = nodes
  BY <1>1 DEF Routes
<1>2. CASE p = q
  BY <1>2, Zenon DEF Routes
<1>3. ASSUME NEW l \in Meets, ClusterStartHandshake(l) PROVE Routes(p, q)'
  <2>1. nodes' = [nodes EXCEPT ![l[1]] = SetNode(nodes[l[1]], Temp(l), l)] /\ DOMAIN nodes = Node
    BY <1>3, Zenon DEF ClusterStartHandshake, BusInv, BusType
  <2> QED BY <1>2, <2>1, NameFacts, LinkFacts, Zenon DEF SetNode, Routes
<1>4. ASSUME NEW l \in Meets, NEW n \in Ends(l), ProcessSender(l, n) PROVE Routes(p, q)'
  <2> DEFINE m == Head(wire[l][n])
             map == AfterSender(n, l, m)
  <2>1. nodes' = [nodes EXCEPT ![n] = map] /\ DOMAIN nodes = Node /\ l # Loose
    BY <1>4, LinkFacts DEF ProcessSender, BusInv, BusType
  <2>2. /\ \A r \in Node : Id(r) \in DOMAIN nodes[n] => Id(r) \in DOMAIN map
        /\ \A y \in DOMAIN map : map[y] = l \/ map[y] = nodes[n][y]
    BY NameFacts, Zenon DEF AfterSender, SetNode, DeleteNode, Restrict
  <2> HIDE DEF map
  <2>3. nodes'[p] = IF p = n THEN map ELSE nodes[p]
    BY <2>1
  <2> QED BY <1>2, <2>1, <2>2, <2>3, Zenon DEF Routes
<1>5. ASSUME NEW l \in Meets, NEW n \in Ends(l), ProcessGossip(l, n) PROVE Routes(p, q)'
  <2> DEFINE new == learnt[l][n]
             map == [x \in DOMAIN nodes[n] \cup new |-> IF x \in new THEN Loose ELSE nodes[n][x]]
  <2>1. nodes' = [nodes EXCEPT ![n] = map] /\ DOMAIN nodes = Node /\ n \in Node
    BY <1>5, LinkFacts, Zenon DEF ProcessGossip, BusInv, BusType
  <2>2. CASE p = n /\ p # q
    <3>1. Id(q) \in DOMAIN nodes[n] /\ nodes[n][Id(q)] # Loose
      BY <2>2, Zenon DEF Routes
    <3>2. nodes[n][Id(q)] # Self
      BY <2>1, <2>2, <3>1, NameFacts, Zenon DEF StarInv, SelfInv
    <3>3. PICK k \in Meets : k = nodes[n][Id(q)]
      BY <2>1, <3>1, <3>2 DEF BusInv, MapInv, Ref
    <3>4. n \in Ends(k) /\ object[k][n] = Id(q)
      BY <2>1, <3>1, <3>3 DEF BusInv, MapInv
    <3>5. Id(q) \in {NoName, Temp(k), Id(Peer(k, n))}
      BY <3>4, Zenon DEF BusInv, EndInv
    <3>6. q = Peer(k, n)
      BY <3>5, NameFacts, Zenon
    <3>7. q = h \/ n = h
      BY <3>4, <3>6, LinkFacts DEF IsHub, Peer
    <3>8. Id(q) \notin new
      BY <3>7, Zenon DEF StarInv, LearntInv
    <3>9. Id(q) \in DOMAIN map /\ map[Id(q)] = nodes[n][Id(q)]
      BY <3>1, <3>8, Zenon
    <3> HIDE DEF map
    <3> QED BY <2>1, <2>2, <3>1, <3>9 DEF Routes
  <2>3. CASE p # n
    BY <2>1, <2>3 DEF Routes
  <2> QED BY <1>2, <2>2, <2>3, Zenon
<1>6. CASE Cli \/ Break
  BY <1>1, <1>3, <1>6, CliMaps
<1>7. CASE BusStep
  BY <1>1, <1>4, <1>5, <1>7, Zenon DEF BusStep, Crash, DialFails, DialOk, ClusterCron
<1>8. CASE UNCHANGED vars
  BY <1>1, <1>8 DEF vars, busVars
<1> QED BY <1>6, <1>7, <1>8 DEF Next

\* In a star of any size a node that knows the slots of another one never loses them
\* again: no late gossip replaces the entry of a finished handshake (gossip.go:57-78).
THEOREM RoutesCorrect ==
  ASSUME NEW h \in Node, \A l \in Meets : h \in Ends(l)
  PROVE  Spec => RoutesKept
<1>0. IsHub(h)
  BY DEF IsHub
<1>1. Init => StarInv(h)
  BY <1>0, StarInit DEF Init
<1>2. BusInv /\ CliInv /\ StarInv(h) /\ [Next]_vars => StarInv(h)'
  BY <1>0, StarStep
<1>3. BusInv /\ CliInv /\ StarInv(h) /\ [Next]_vars
        => [\A p, q \in Node : Routes(p, q) => Routes(p, q)']_busVars
  BY <1>0, RouteStep
<1> QED BY <1>1, <1>2, <1>3, InvAll, PTL DEF Spec, RoutesKept

-----------------------------------------------------------------------------
(* What a step of the bus does to a link *)

\* A queue, or any other value per link and end, is left alone but at end n of link l.
Only(f, g, l, n) == \A k \in Meets : \A j \in Ends(k) : k # l \/ j # n => g[k][j] = f[k][j]
Changed(f, g, l, n, v) == g[l][n] = v /\ Only(f, g, l, n)

LEMMA OnlyUpdate ==
  ASSUME NEW f, NEW g, NEW l \in Meets, NEW n \in Ends(l), NEW v,
         Shape(f), g = [f EXCEPT ![l][n] = v]
  PROVE  Changed(f, g, l, n, v)
<1>1. Updated(f, g, l, n, v)
  BY EndUpdate, Zenon
<1> QED BY <1>1, Zenon DEF Updated, Only, Changed

\* A PING goes out.
LEMMA PingEffect ==
  ASSUME BusInv, NEW l \in Meets, DialOk(l) \/ ClusterCron(l[1], l)
  PROVE  /\ \E m \in MessagesTo(l, l[2]) :
              /\ wire'[l][l[2]] = Append(wire[l][l[2]], m)
              /\ m.slots = owned[l[1]]
         /\ wire[l][l[2]] \in Seq(MessagesTo(l, l[2]))
         /\ Only(wire, wire', l, l[2])
         /\ UNCHANGED <<alive, nodes, owned, object, bitmap, reading>>
         /\ link'[l] = "open" /\ \A k \in Meets : k # l => link'[k] = link[k]
<1>0. l[2] \in Ends(l) /\ l[1] \in Ends(l) /\ l[1] \in Node /\ Peer(l, l[1]) = l[2]
  BY LinkFacts
<1>1. PICK g \in Gossip(nodes[l[1]], l) : Send(l, l[2], Message("ping", l[1], g))
  BY Zenon DEF DialOk, ClusterCron
<1>2. EndInv(l, l[2]) /\ MapInv(l[1]) /\ link \in [Meets -> LinkStates]
  BY <1>0, Zenon DEF BusInv, BusType
<1>3. wire[l][l[2]] \in Seq(MessagesTo(l, l[2])) /\ Len(wire[l][l[2]]) \in Nat /\ SendCap \in Nat
  BY <1>2, SeqLen, ClusterBusAssumption, Zenon DEF EndInv
<1>4. Len(wire[l][l[2]]) <= SendCap
  <2>1. CASE DialOk(l)
    <3>1. link[l] = "dialling" /\ "dialling" # "open"
      BY <2>1, Zenon DEF DialOk
    <3>2. wire[l][l[2]] = <<>>
      BY <1>2, <3>1, Zenon DEF EndInv
    <3>3. Len(wire[l][l[2]]) = 0
      BY <3>2, SeqEmpty, Zenon
    <3> QED BY <1>3, <3>3
  <2>2. CASE ClusterCron(l[1], l)
    <3>1. ~(Len(wire[l][l[2]]) > SendCap)
      BY <2>2, Zenon DEF ClusterCron, Blocked
    <3> QED BY <1>3, <3>1
  <2> QED BY <2>1, <2>2
<1>5. g \subseteq Name
  BY <1>2, GossipNames, Zenon DEF MapInv
<1> DEFINE msg == Message("ping", l[1], g)
<1>6. msg \in MessagesTo(l, l[2]) /\ msg.slots = owned[l[1]]
  BY <1>0, <1>5, MessageType, Zenon DEF Message
<1>7. Send(l, l[2], msg)
  BY <1>1, Zenon
<1> HIDE DEF msg
<1>8. /\ wire'[l][l[2]] = Append(wire[l][l[2]], msg)
      /\ \A k \in Meets : \A j \in Ends(k) : k # l \/ j # l[2] => wire'[k][j] = wire[k][j]
  BY <1>0, <1>4, <1>6, <1>7, SendEffect, Zenon
<1>9. link'[l] = "open" /\ \A k \in Meets : k # l => link'[k] = link[k]
  BY <1>2, Zenon DEF DialOk, ClusterCron, Pingable
<1>10. UNCHANGED <<alive, nodes, owned, object, bitmap, reading>>
  BY Zenon DEF DialOk, ClusterCron
<1>11. Only(wire, wire', l, l[2])
  BY <1>8, Zenon DEF Only
<1> QED BY <1>3, <1>6, <1>8, <1>9, <1>10, <1>11, Zenon

\* A read loop takes a message.
LEMMA SenderEffect ==
  ASSUME BusInv, NEW l \in Meets, NEW n \in Ends(l), ProcessSender(l, n)
  PROVE  /\ wire[l][n] \in Seq(MessagesTo(l, n)) /\ wire[l][n] # <<>>
         /\ wire'[l][n] = Tail(wire[l][n]) /\ Only(wire, wire', l, n)
         /\ bitmap'[l][n] = Head(wire[l][n]).slots /\ Only(bitmap, bitmap', l, n)
         /\ object'[l][n] = Id(Peer(l, n)) /\ Only(object, object', l, n)
         /\ (n = l[2] => reading'[l][n] = "ping") /\ Only(reading, reading', l, n)
         /\ UNCHANGED <<alive, owned, link>> /\ link[l] = "open"
<1> DEFINE m == Head(wire[l][n])
           new == (m.gossip \ {Id(n)}) \ DOMAIN AfterSender(n, l, m)
<1>1. EndInv(l, n) /\ wire[l][n] # <<>> /\ l[1] # l[2]
  BY LinkFacts DEF BusInv, ProcessSender
<1>2. wire[l][n] \in Seq(MessagesTo(l, n)) /\ link[l] = "open"
  BY <1>1, Zenon DEF EndInv
<1>3. m \in MessagesTo(l, n)
  BY <1>1, <1>2, SeqTail, Zenon
<1>4. m.sender = Peer(l, n) /\ (n = l[2] => m.type = "ping")
  BY <1>3 DEF MessagesTo
<1>5. Shape(wire) /\ Shape(bitmap) /\ Shape(object) /\ Shape(reading)
  BY DEF BusInv, BusType
<1>6. /\ wire' = [wire EXCEPT ![l][n] = Tail(wire[l][n])]
      /\ bitmap' = [bitmap EXCEPT ![l][n] = m.slots]
      /\ object' = [object EXCEPT ![l][n] = Id(Peer(l, n))]
      /\ reading' = IF m.type = "pong" /\ new = {} THEN reading
                    ELSE [reading EXCEPT ![l][n] = m.type]
      /\ UNCHANGED <<alive, owned, link>>
  BY <1>4, Zenon DEF ProcessSender
<1> HIDE DEF m, new
<1>7. Changed(wire, wire', l, n, Tail(wire[l][n]))
  BY <1>5, <1>6, OnlyUpdate, Zenon
<1>8. Changed(bitmap, bitmap', l, n, m.slots)
  BY <1>5, <1>6, OnlyUpdate, Zenon
<1>9. Changed(object, object', l, n, Id(Peer(l, n)))
  BY <1>5, <1>6, OnlyUpdate, Zenon
<1>10. (n = l[2] => reading'[l][n] = "ping") /\ Only(reading, reading', l, n)
  <2>1. CASE m.type = "pong" /\ new = {}
    BY <1>4, <1>6, <2>1 DEF Only
  <2>2. CASE ~(m.type = "pong" /\ new = {})
    <3>1. reading' = [reading EXCEPT ![l][n] = m.type]
      BY <1>6, <2>2, Zenon
    <3>2. Changed(reading, reading', l, n, m.type)
      BY <1>5, <3>1, OnlyUpdate, Zenon
    <3> QED BY <1>4, <3>2, Zenon DEF Changed
  <2> QED BY <2>1, <2>2, Zenon
<1> QED BY <1>1, <1>2, <1>6, <1>7, <1>8, <1>9, <1>10, Zenon DEF m, Changed

\* A read loop is done with a message.
LEMMA GossipEffect ==
  ASSUME BusInv, NEW l \in Meets, NEW n \in Ends(l), ProcessGossip(l, n), BusInv'
  PROVE  /\ Only(reading, reading', l, n)
         /\ UNCHANGED <<alive, owned, object, bitmap, link>>
         /\ \/ reading[l][n] # "ping" /\ UNCHANGED wire
            \/ /\ n = l[2] /\ wire[l][l[1]] \in Seq(MessagesTo(l, l[1]))
               /\ Only(wire, wire', l, l[1])
               /\ \E m \in MessagesTo(l, l[1]) :
                    /\ wire'[l][l[1]] = Append(wire[l][l[1]], m)
                    /\ m.slots = owned[l[2]]
<1>0. /\ l[2] \in Ends(l) /\ l[1] \in Ends(l) /\ l[1] # l[2] /\ n \in Node
      /\ Peer(l, l[2]) = l[1] /\ Ends(l) = {l[1], l[2]}
  BY LinkFacts
<1>1. LoopInv(l) /\ EndInv(l, l[1]) /\ Shape(reading) /\ MapInv(n)'
  BY <1>0, Zenon DEF BusInv, BusType
<1>2. reading' = [reading EXCEPT ![l][n] = "none"] /\ UNCHANGED <<alive, owned, object, bitmap, link>>
  BY DEF ProcessGossip
<1>3. Only(reading, reading', l, n)
  <2>1. Changed(reading, reading', l, n, "none")
    BY <1>1, <1>2, OnlyUpdate, Zenon
  <2> QED BY <2>1 DEF Changed
<1>4. CASE reading[l][n] # "ping"
  BY <1>2, <1>3, <1>4, Zenon DEF ProcessGossip
<1>5. CASE reading[l][n] = "ping"
  <2>1. n = l[2] /\ Len(wire[l][l[1]]) <= SendCap
    BY <1>0, <1>1, <1>5, Zenon DEF LoopInv
  <2>2. PICK g \in Gossip(nodes'[n], l) : Send(l, Peer(l, n), Message("pong", n, g))
    BY <1>5, Zenon DEF ProcessGossip
  <2>3. g \subseteq Name
    BY <1>1, GossipNames DEF MapInv
  <2> DEFINE msg == Message("pong", n, g)
  <2>4. msg \in MessagesTo(l, l[1]) /\ Send(l, l[1], msg) /\ msg.slots = owned[l[2]]
    BY <1>0, <2>1, <2>2, <2>3, MessageType, Zenon DEF Message
  <2> HIDE DEF msg
  <2>5. /\ wire'[l][l[1]] = Append(wire[l][l[1]], msg)
        /\ \A b \in Meets : \A c \in Ends(b) : b # l \/ c # l[1] => wire'[b][c] = wire[b][c]
    BY <1>0, <2>1, <2>4, SendEffect, Zenon
  <2>6. wire[l][l[1]] \in Seq(MessagesTo(l, l[1])) /\ Only(wire, wire', l, l[1])
    BY <1>1, <2>5, Zenon DEF EndInv, Only
  <2> QED BY <1>2, <1>3, <2>1, <2>4, <2>5, <2>6
<1> QED BY <1>4, <1>5, Zenon

\* The map of a node whose read loop has taken a message.
LEMMA SenderMap ==
  ASSUME BusInv, NEW l \in Meets, NEW n \in Ends(l), ProcessSender(l, n)
  PROVE  /\ \A i \in Node : i # n => nodes'[i] = nodes[i]
         /\ Id(Peer(l, n)) \in DOMAIN nodes'[n] /\ nodes'[n][Id(Peer(l, n))] = l
         /\ \A r \in Node : r # Peer(l, n) /\ Id(r) \in DOMAIN nodes[n] =>
              Id(r) \in DOMAIN nodes'[n] /\ nodes'[n][Id(r)] = nodes[n][Id(r)]
<1> DEFINE m == Head(wire[l][n])
           x == Id(m.sender)
           old == object[l][n]
           map == AfterSender(n, l, m)
<1>1. n \in Node /\ DOMAIN nodes = Node /\ EndInv(l, n) /\ wire[l][n] # <<>>
  BY LinkFacts DEF BusInv, BusType, ProcessSender
<1>2. m \in MessagesTo(l, n)
  BY <1>1, SeqTail, Zenon DEF EndInv
<1>3. x = Id(Peer(l, n))
  BY <1>2, Zenon DEF MessagesTo
<1>4. nodes' = [nodes EXCEPT ![n] = map]
  BY DEF ProcessSender
<1>5. /\ DOMAIN map = (IF old[1] = "temp" THEN DOMAIN nodes[n] \ {old} ELSE DOMAIN nodes[n]) \cup {x}
      /\ map[x] = l
      /\ \A y \in DOMAIN map : y # x => map[y] = nodes[n][y]
  BY Zenon DEF AfterSender, SetNode, DeleteNode, Restrict
<1> HIDE DEF m, x, old, map
<1>6. nodes'[n] = map /\ \A i \in Node : i # n => nodes'[i] = nodes[i]
  BY <1>1, <1>4
<1>7. \A r \in Node : r # Peer(l, n) /\ Id(r) \in DOMAIN nodes[n] =>
        Id(r) \in DOMAIN map /\ map[Id(r)] = nodes[n][Id(r)]
  BY <1>3, <1>5, NameFacts, Zenon
<1> QED BY <1>3, <1>5, <1>6, <1>7, Zenon

-----------------------------------------------------------------------------
(***************************************************************************)
(* Linked nodes go on pinging.  Two nodes may have several links, and a    *)
(* message over one takes the place of another in the map of its reader.   *)
(* The last one to do so is the link of a PING, whose reader owes a PONG,  *)
(* or of a PONG, whose reader may ping over it.                            *)
(***************************************************************************)

\* The dialler's map leads to the link, which makes it one that its cron may draw.
Entry(k) ==
  /\ link[k] = "open"
  /\ Id(k[2]) \in DOMAIN nodes[k[1]] /\ nodes[k[1]][Id(k[2])] = k

Busy(k, n) == wire[k][n] # <<>> \/ reading[k][n] = "ping"
Talking(k) == Entry(k) \/ \E n \in Ends(k) : Busy(k, n)

TalkInv ==
  \A l \in Meets : link[l] = "open" => \E k \in Meets : Ends(k) = Ends(l) /\ Talking(k)

LEMMA TalkMeaning == BusInv /\ TalkInv => StaysPingable
<1> SUFFICES ASSUME BusInv, TalkInv, NEW l \in Meets, link[l] = "open"
             PROVE  \E k \in Meets :
                      /\ Ends(k) = Ends(l)
                      /\ \/ Pingable(k[1], k)
                         \/ \E n \in Ends(k) : wire[k][n] # <<>> \/ reading[k][n] = "ping"
  BY DEF StaysPingable
<1>1. PICK k \in Meets : Ends(k) = Ends(l) /\ Talking(k)
  BY Zenon DEF TalkInv
<1>2. ASSUME Entry(k) PROVE Pingable(k[1], k)
  <2>1. k[1] \in Node /\ MapInv(k[1])
    BY LinkFacts, Zenon DEF BusInv
  <2>2. object[k][k[1]] = Id(k[2]) /\ k \in Range(nodes[k[1]])
    BY <1>2, <2>1 DEF Entry, MapInv, Range
  <2> QED BY <1>2, <2>2, NameFacts DEF Entry, Pingable
<1> QED BY <1>1, <1>2, Zenon DEF Talking, Busy

LEMMA TalkInit == BusInit => TalkInv
BY Zenon DEF BusInit, TalkInv

\* A queue into which something was put is not empty.
LEMMA AppendFull ==
  ASSUME NEW S, NEW q \in Seq(S), NEW m \in S
  PROVE  Append(q, m) # <<>>
BY SeqAppend, Zenon

\* Steps of the bus that bring a message to a link or take one from it.
LEMMA TalkPing ==
  ASSUME BusInv, NEW l \in Meets, DialOk(l) \/ ClusterCron(l[1], l), NEW k \in Meets
  PROVE  (Talking(k) => Talking(k)') /\ Talking(l)'
<1>1. PICK m \in MessagesTo(l, l[2]) : wire'[l][l[2]] = Append(wire[l][l[2]], m)
  BY PingEffect, Zenon
<1>2. /\ wire[l][l[2]] \in Seq(MessagesTo(l, l[2])) /\ Only(wire, wire', l, l[2])
      /\ UNCHANGED <<nodes, reading>> /\ link'[l] = "open"
      /\ \A i \in Meets : i # l => link'[i] = link[i]
  BY PingEffect, Zenon
<1>3. wire'[l][l[2]] # <<>> /\ l[2] \in Ends(l)
  <2>1. l[2] \in Ends(l)
    BY LinkFacts, Zenon
  <2>2. Append(wire[l][l[2]], m) # <<>>
    BY <1>2, AppendFull, Zenon
  <2> QED BY <1>1, <2>1, <2>2, Zenon
<1>4. Talking(l)'
  BY <1>3, Zenon DEF Talking, Busy
<1>5. Entry(k) => Entry(k)'
  BY <1>2, Zenon DEF Entry
<1>6. ASSUME NEW n \in Ends(k), Busy(k, n) PROVE Busy(k, n)'
  BY <1>2, <1>3, <1>6 DEF Busy, Only
<1> QED BY <1>4, <1>5, <1>6, Zenon DEF Talking

LEMMA TalkSender ==
  ASSUME BusInv, NEW l \in Meets, NEW n \in Ends(l), ProcessSender(l, n),
         NEW k \in Meets, Talking(k)
  PROVE  \E i \in Meets : Ends(i) = Ends(k) /\ Talking(i)'
<1>0. /\ Ends(l) = {l[1], l[2]} /\ Peer(l, l[1]) = l[2] /\ Peer(l, l[2]) = l[1] /\ l[1] # l[2]
      /\ Ends(k) = {k[1], k[2]} /\ k[1] \in Node /\ k[2] \in Node /\ k[1] # k[2]
  BY LinkFacts
<1>1. /\ Only(wire, wire', l, n) /\ Only(reading, reading', l, n)
      /\ n = l[2] => reading'[l][n] = "ping"
      /\ link' = link /\ link[l] = "open"
  BY SenderEffect, Zenon
<1>2. /\ \A i \in Node : i # n => nodes'[i] = nodes[i]
      /\ Id(Peer(l, n)) \in DOMAIN nodes'[n] /\ nodes'[n][Id(Peer(l, n))] = l
      /\ \A r \in Node : r # Peer(l, n) /\ Id(r) \in DOMAIN nodes[n] =>
           Id(r) \in DOMAIN nodes'[n] /\ nodes'[n][Id(r)] = nodes[n][Id(r)]
  BY SenderMap
<1>3. Talking(l)'
  <2>1. CASE n = l[1]
    BY <1>0, <1>1, <1>2, <2>1, Zenon DEF Talking, Entry
  <2>2. CASE n = l[2]
    BY <1>1, <2>2, Zenon DEF Talking, Busy
  <2> QED BY <1>0, <2>1, <2>2
<1>4. CASE Ends(l) = Ends(k)
  BY <1>3, <1>4
<1>5. CASE Ends(l) # Ends(k)
  <2>1. Entry(k) => Entry(k)'
    <3> SUFFICES ASSUME Entry(k) PROVE Entry(k)'
      OBVIOUS
    <3>1. CASE k[1] # n
      BY <1>0, <1>1, <1>2, <3>1, Zenon DEF Entry
    <3>2. CASE k[1] = n
      <4>1. Peer(l, n) # k[2]
        BY <1>0, <1>5, <3>2, Zenon
      <4> QED BY <1>0, <1>1, <1>2, <3>2, <4>1, Zenon DEF Entry
    <3> QED BY <3>1, <3>2
  <2>2. \A j \in Ends(k) : Busy(k, j) => Busy(k, j)'
    BY <1>1, <1>5 DEF Only, Busy
  <2>3. Talking(k)'
    BY <2>1, <2>2, Zenon DEF Talking
  <2> QED BY <2>3
<1> QED BY <1>4, <1>5, Zenon

LEMMA TalkGossip ==
  ASSUME BusInv, BusInv', CliInv, NEW h, IsHub(h), StarInv(h),
         NEW l \in Meets, NEW n \in Ends(l), ProcessGossip(l, n) /\ UNCHANGED cliVars,
         NEW k \in Meets, Talking(k)
  PROVE  Talking(k)'
<1>0. k[1] \in Node /\ k[2] \in Node /\ l[1] \in Ends(l) /\ k[1] # k[2] /\ k # Loose
  BY LinkFacts
<1>1. Only(reading, reading', l, n) /\ link' = link
  BY GossipEffect, Zenon
<1>2. Entry(k) => Entry(k)'
  <2> SUFFICES ASSUME Entry(k) PROVE Entry(k)'
    OBVIOUS
  <2>1. [Next]_vars
    BY Zenon DEF Next, BusStep
  <2>2. Routes(k[1], k[2])
    BY <1>0, Zenon DEF Entry, Routes
  <2>3. Routes(k[1], k[2])'
    BY <1>0, <2>1, <2>2, RouteStep, Zenon
  <2>4. Id(k[2]) \in DOMAIN nodes'[k[1]] /\ nodes'[k[1]][Id(k[2])] # Loose
    BY <1>0, <2>3, Zenon DEF Routes
  <2>5. \A y \in DOMAIN nodes'[k[1]] : nodes'[k[1]][y] = Loose \/ nodes'[k[1]][y] = nodes[k[1]][y]
    BY <1>0, Zenon DEF ProcessGossip, BusInv, BusType
  <2>6. nodes'[k[1]][Id(k[2])] = k /\ link[k] = "open"
    BY <2>4, <2>5 DEF Entry
  <2> QED BY <1>1, <2>4, <2>6 DEF Entry
<1>3. CASE reading[l][n] # "ping" /\ UNCHANGED wire
  <2>1. \A j \in Ends(k) : Busy(k, j) => Busy(k, j)'
    BY <1>1, <1>3 DEF Only, Busy
  <2> QED BY <1>2, <2>1, Zenon DEF Talking
<1>4. ASSUME wire[l][l[1]] \in Seq(MessagesTo(l, l[1])), Only(wire, wire', l, l[1]),
             NEW m \in MessagesTo(l, l[1]), wire'[l][l[1]] = Append(wire[l][l[1]], m)
      PROVE  Talking(k)'
  <2>1. wire'[l][l[1]] # <<>>
    BY <1>4, AppendFull, Zenon
  <2>2. CASE k = l
    BY <1>0, <2>1, <2>2 DEF Talking, Busy
  <2>3. CASE k # l
    <3>1. \A j \in Ends(k) : Busy(k, j) => Busy(k, j)'
      BY <1>1, <1>4, <2>3, Zenon DEF Only, Busy
    <3> QED BY <1>2, <3>1, Zenon DEF Talking
  <2> QED BY <2>2, <2>3
<1> QED BY <1>3, <1>4, GossipEffect, Zenon

\* All other steps leave queues and read loops alone.
LEMMA TalkAside ==
  ASSUME BusInv, NEW k \in Meets, Talking(k), UNCHANGED <<wire, reading>>,
         \/ UNCHANGED nodes /\ (link[k] = "open" => link'[k] = "open")
         \/ \E l \in Meets : ClusterStartHandshake(l)
  PROVE  Talking(k)'
<1>1. \A j \in Ends(k) : Busy(k, j) => Busy(k, j)'
  BY Zenon DEF Busy
<1>2. Entry(k) => Entry(k)'
  <2> SUFFICES ASSUME Entry(k) PROVE Entry(k)'
    OBVIOUS
  <2>1. CASE UNCHANGED nodes /\ (link[k] = "open" => link'[k] = "open")
    BY <2>1, Zenon DEF Entry
  <2>2. ASSUME NEW l \in Meets, ClusterStartHandshake(l) PROVE Entry(k)'
    <3>1. /\ nodes' = [nodes EXCEPT ![l[1]] = SetNode(nodes[l[1]], Temp(l), l)]
          /\ link' = [link EXCEPT ![l] = "dialling"] /\ link[l] = "none"
          /\ DOMAIN nodes = Node /\ link \in [Meets -> LinkStates]
      BY <2>2 DEF ClusterStartHandshake, BusInv, BusType
    <3>2. k # l /\ link'[k] = "open"
      BY <3>1, Zenon DEF Entry
    <3>3. k[1] \in Node /\ Temp(l) # Id(k[2])
      BY LinkFacts, NameFacts, Zenon
    <3> QED BY <3>1, <3>2, <3>3, Zenon DEF Entry, SetNode
  <2> QED BY <2>1, <2>2, Zenon
<1> QED BY <1>1, <1>2, Zenon DEF Talking

\* Only a dial that succeeds opens a link.
LEMMA OpensOnce ==
  ASSUME BusInv, CliInv, [Next]_vars, NEW l \in Meets, link[l] # "open", ~DialOk(l)
  PROVE  link'[l] # "open"
<1>0. link \in [Meets -> LinkStates]
  BY DEF BusInv, BusType
<1>1. ASSUME UNCHANGED link PROVE link'[l] # "open"
  BY <1>1
<1>2. CASE Cli \/ Break
  BY <1>0, <1>2, CliMaps DEF ClusterStartHandshake
<1>3. CASE BusStep
  <2>1. ASSUME NEW k \in Meets, DialFails(k) PROVE link'[l] # "open"
    BY <1>0, <2>1 DEF DialFails
  <2>2. ASSUME NEW k \in Meets, DialOk(k) PROVE link'[l] # "open"
    BY <1>0, <2>2, Zenon DEF DialOk
  <2>3. ASSUME NEW n \in Node, Crash(n) PROVE UNCHANGED link
    BY <2>3 DEF Crash
  <2>4. ASSUME NEW k \in Meets, NEW n \in Ends(k), ProcessSender(k, n) \/ ProcessGossip(k, n)
        PROVE  UNCHANGED link
    BY <2>4, Zenon DEF ProcessSender, ProcessGossip
  <2>5. ASSUME NEW k \in Meets, ClusterCron(k[1], k) PROVE UNCHANGED link
    BY <2>5, Zenon DEF ClusterCron
  <2> QED BY <1>1, <1>3, <2>1, <2>2, <2>3, <2>4, <2>5, Zenon DEF BusStep
<1>4. CASE UNCHANGED vars
  BY <1>1, <1>4, Zenon DEF vars, busVars
<1> QED BY <1>2, <1>3, <1>4, Zenon DEF Next

LEMMA TalkStep ==
  ASSUME BusInv, CliInv, NEW h, IsHub(h), StarInv(h), TalkInv, [Next]_vars
  PROVE  TalkInv'
<1>0. BusInv'
  BY StepAll
<1>1. ASSUME NEW k \in Meets, Talking(k)
      PROVE  \E i \in Meets : Ends(i) = Ends(k) /\ Talking(i)'
  <2>1. ASSUME UNCHANGED <<nodes, wire, reading>>, link[k] = "open" => link'[k] = "open"
        PROVE  Talking(k)'
    BY <1>1, <2>1, TalkAside
  <2>2. CASE Cli \/ Break
    <3>1. ASSUME NEW l \in Meets, ClusterStartHandshake(l) PROVE Talking(k)'
      <4>1. UNCHANGED <<wire, reading>>
        BY <3>1 DEF ClusterStartHandshake
      <4> QED BY <1>1, <3>1, <4>1, TalkAside, Zenon
    <3>2. \/ UNCHANGED <<nodes, wire, reading, link>>
          \/ \E l \in Meets : ClusterStartHandshake(l)
      BY <2>2, CliMaps
    <3> QED BY <2>1, <3>1, <3>2, Zenon
  <2>3. CASE UNCHANGED vars
    BY <2>1, <2>3 DEF vars, busVars
  <2>4. ASSUME BusStep, UNCHANGED cliVars PROVE \E i \in Meets : Ends(i) = Ends(k) /\ Talking(i)'
    <3>1. ASSUME NEW n \in Node, Crash(n) PROVE Talking(k)'
      BY <2>1, <3>1, Zenon DEF Crash
    <3>2. ASSUME NEW l \in Meets, DialFails(l) PROVE Talking(k)'
      <4>1. link[k] = "open" => link'[k] = "open"
        BY <3>2, Zenon DEF DialFails, BusInv, BusType
      <4> QED BY <2>1, <3>2, <4>1 DEF DialFails
    <3>3. ASSUME NEW l \in Meets, DialOk(l) \/ ClusterCron(l[1], l) PROVE Talking(k)'
      BY <1>1, <3>3, TalkPing
    <3>4. ASSUME NEW l \in Meets, NEW n \in Ends(l), ProcessSender(l, n)
          PROVE  \E i \in Meets : Ends(i) = Ends(k) /\ Talking(i)'
      BY <1>1, <3>4, TalkSender, Zenon
    <3>5. ASSUME NEW l \in Meets, NEW n \in Ends(l), ProcessGossip(l, n) PROVE Talking(k)'
      BY <1>0, <1>1, <2>4, <3>5, TalkGossip, Zenon
    <3> QED BY <2>4, <3>1, <3>2, <3>3, <3>4, <3>5, Zenon DEF BusStep
  <2> QED BY <2>2, <2>3, <2>4, Zenon DEF Next
<1>2. ASSUME NEW l \in Meets, link'[l] = "open"
      PROVE  \E i \in Meets : Ends(i) = Ends(l) /\ Talking(i)'
  <2>1. CASE link[l] = "open"
    <3>1. PICK k \in Meets : Ends(k) = Ends(l) /\ Talking(k)
      BY <2>1 DEF TalkInv
    <3>2. PICK i \in Meets : Ends(i) = Ends(k) /\ Talking(i)'
      BY <1>1, <3>1
    <3> QED BY <3>1, <3>2
  <2>2. CASE DialOk(l)
    BY <2>2, TalkPing
  <2>3. CASE link[l] # "open" /\ ~DialOk(l)
    BY <1>2, <2>3, OpensOnce
  <2> QED BY <2>1, <2>2, <2>3
<1> QED BY <1>2 DEF TalkInv

\* In a star of any size two nodes that were linked never fall silent, however many links
\* they have, whichever message comes last and whatever other dials fail or nodes die
\* (gossip.go:57-78, cluster.go:648-693).
THEOREM PingsCorrect ==
  ASSUME NEW h \in Node, \A l \in Meets : h \in Ends(l)
  PROVE  Spec => []StaysPingable
<1>0. IsHub(h)
  BY DEF IsHub
<1>1. Init => StarInv(h) /\ TalkInv
  BY <1>0, StarInit, TalkInit DEF Init
<1>2. BusInv /\ CliInv /\ StarInv(h) /\ TalkInv /\ [Next]_vars => StarInv(h)' /\ TalkInv'
  BY <1>0, StarStep, TalkStep
<1> QED BY <1>1, <1>2, InvAll, TalkMeaning, PTL DEF Spec
=============================================================================
