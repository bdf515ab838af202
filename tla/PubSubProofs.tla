----------------------------- MODULE PubSubProofs -----------------------------
(***************************************************************************)
(* The registry and the handlers agree, no Go channel is used after it was *)
(* closed, and a removed subscription gets no message: for any number of   *)
(* connections, channels and subscriptions.                                *)
(***************************************************************************)
EXTENDS PubSub, SequenceTheorems, FiniteSetTheorems, TLAPS

\* The time, in seconds, that each prover is given for a leaf.
USE SMTT(20), ZenonT(20)

Record == [channel : Channels, conn : Conns]

\* Both loops that remove subscriptions cut one place out of a slice.
LEMMA CutOut ==
  ASSUME NEW S, NEW q \in Seq(S), NEW i \in 1 .. Len(q)
  PROVE  /\ RemoveAt(q, i) \in Seq(S)
         /\ Len(RemoveAt(q, i)) = Len(q) - 1
         /\ \A j \in 1 .. Len(q) - 1 :
              RemoveAt(q, i)[j] = IF j < i THEN q[j] ELSE q[j + 1]
<1> DEFINE a == SubSeq(q, 1, i - 1)
           b == SubSeq(q, i + 1, Len(q))
<1>0. Len(q) \in Nat /\ i \in Nat /\ i >= 1 /\ i <= Len(q)
  BY LenProperties
<1>1. a \in Seq(S) /\ Len(a) = i - 1 /\ \A j \in 1 .. i - 1 : a[j] = q[j]
  <2>1. \A j \in 1 .. i - 1 : q[j] \in S
    BY <1>0, ElementOfSeq
  <2> QED BY <1>0, <2>1, SubSeqProperties
<1>2. b \in Seq(S) /\ Len(b) = Len(q) - i /\ \A j \in 1 .. Len(q) - i : b[j] = q[i + j]
  <2>1. \A j \in i + 1 .. Len(q) : q[j] \in S
    BY <1>0, ElementOfSeq
  <2>2. /\ b \in Seq(S)
        /\ Len(b) = IF i + 1 <= Len(q) THEN Len(q) - (i + 1) + 1 ELSE 0
        /\ \A j \in 1 .. Len(q) - (i + 1) + 1 : b[j] = q[(i + 1) + j - 1]
    BY <1>0, <2>1, SubSeqProperties
  <2>3. Len(b) = Len(q) - i
    BY <1>0, <2>2
  <2> HIDE DEF b
  <2>4. \A j \in 1 .. Len(q) - i : b[j] = q[i + j]
    <3> TAKE j \in 1 .. Len(q) - i
    <3>1. j \in 1 .. Len(q) - (i + 1) + 1 /\ (i + 1) + j - 1 = i + j
      BY <1>0
    <3> QED BY <2>2, <3>1
  <2> QED BY <2>2, <2>3, <2>4
<1> HIDE DEF a, b
<1>3. /\ a \o b \in Seq(S) /\ Len(a \o b) = Len(a) + Len(b)
      /\ \A j \in 1 .. Len(a) + Len(b) : (a \o b)[j] = IF j <= Len(a) THEN a[j] ELSE b[j - Len(a)]
  BY <1>1, <1>2, ConcatProperties, Zenon
<1>4. \A j \in 1 .. Len(q) - 1 : (a \o b)[j] = IF j < i THEN q[j] ELSE q[j + 1]
  <2> TAKE j \in 1 .. Len(q) - 1
  <2>1. (a \o b)[j] = IF j <= Len(a) THEN a[j] ELSE b[j - Len(a)]
    BY <1>0, <1>1, <1>2, <1>3
  <2>2. CASE j < i
    BY <1>0, <1>1, <2>1, <2>2
  <2>3. CASE ~(j < i)
    <3>1. j - (i - 1) \in 1 .. Len(q) - i /\ i + (j - (i - 1)) = j + 1
      BY <1>0, <2>3
    <3>2. b[j - (i - 1)] = q[j + 1]
      BY <1>2, <3>1
    <3> QED BY <1>0, <1>1, <2>1, <2>3, <3>2
  <2> QED BY <2>2, <2>3, Zenon
<1>5. RemoveAt(q, i) = a \o b
  BY DEF RemoveAt, a, b
<1>6. Len(a) + Len(b) = Len(q) - 1
  BY <1>0, <1>1, <1>2
<1> QED BY <1>3, <1>4, <1>5, <1>6

-----------------------------------------------------------------------------
(***************************************************************************)
(* The invariant.  RegistryOwned has to be strengthened by what a loop     *)
(* that removes subscriptions, or a PUBLISH that holds the lock, has still *)
(* before it: these are subscriptions of the connection, and open ones.    *)
(***************************************************************************)

RegInv ==
  /\ closed \subseteq 1 .. Len(made)
  /\ \A c \in Conns : \A s \in mine[c] :
       /\ s \in 1 .. Len(made) /\ owner(s) = c
       /\ \E i \in 1 .. Len(subscriptions[topic(s)]) : subscriptions[topic(s)][i] = s
  /\ \A ch \in Channels : \A i \in 1 .. Len(subscriptions[ch]) :
       /\ subscriptions[ch][i] \in 1 .. Len(made)
       /\ topic(subscriptions[ch][i]) = ch
       /\ subscriptions[ch][i] \in mine[owner(subscriptions[ch][i])]
  /\ \A ch \in Channels : \A i, j \in 1 .. Len(subscriptions[ch]) :
       subscriptions[ch][i] = subscriptions[ch][j] => i = j
  /\ \A s \in 1 .. Len(made) : s \in closed <=> s \notin mine[owner(s)]

HandlerInv ==
  /\ \A c \in Conns :
       /\ leaving[c] \subseteq mine[c]
       /\ hpc[c] = "teardown" => leaving[c] = mine[c]
       /\ hpc[c] = "gone" => mine[c] = {}
       /\ hpc[c] = "publish" => \A i \in 1 .. Len(work[c]) : work[c][i] \notin closed
  /\ ~panicked

Inv == TypeOK /\ RegInv /\ HandlerInv

\* A subscription that was made has a channel and a connection.
LEMMA MadeType ==
  ASSUME TypeOK, NEW s \in 1 .. Len(made)
  PROVE  topic(s) \in Channels /\ owner(s) \in Conns /\ s \in Subs /\ Len(made) \in Nat
<1>1. made[s] \in Record /\ Len(made) \in Nat
  BY ElementOfSeq, LenProperties, Zenon DEF TypeOK, Record
<1>2. Len(made) <= MaxSubs /\ MaxSubs \in Nat
  BY PubSubAssumption DEF TypeOK
<1>3. s \in Subs
  BY <1>1, <1>2 DEF Subs
<1> QED BY <1>1, <1>3 DEF Record, topic, owner

\* What the invariant says of a subscription is RegistryOwned.
LEMMA InvMeaning == Inv => TypeOK /\ NoPanic /\ RegistryOwned
<1> SUFFICES ASSUME Inv PROVE TypeOK /\ NoPanic /\ RegistryOwned
  OBVIOUS
<1>1. ASSUME NEW s \in 1 .. Len(made), NEW ch \in Channels
      PROVE  Cardinality({i \in DOMAIN subscriptions[ch] : subscriptions[ch][i] = s})
               = IF s \in mine[owner(s)] /\ ch = topic(s) THEN 1 ELSE 0
  <2> DEFINE at == {i \in DOMAIN subscriptions[ch] : subscriptions[ch][i] = s}
  <2>1. DOMAIN subscriptions[ch] = 1 .. Len(subscriptions[ch])
    BY DEF Inv, TypeOK
  <2>2. CASE s \in mine[owner(s)] /\ ch = topic(s)
    <3>1. PICK i \in 1 .. Len(subscriptions[ch]) : subscriptions[ch][i] = s
      BY <2>2, MadeType DEF Inv, RegInv
    <3>2. at = {i}
      BY <2>1, <3>1 DEF Inv, RegInv
    <3>3. Cardinality({i}) = 1
      BY FS_Singleton, Zenon
    <3> QED BY <2>2, <3>2, <3>3, Zenon
  <2>3. CASE ~(s \in mine[owner(s)] /\ ch = topic(s))
    <3>1. at = {}
      BY <2>1, <2>3 DEF Inv, RegInv
    <3> QED BY <2>3, <3>1, FS_EmptySet, Zenon
  <2> QED BY <2>2, <2>3
<1>2. ASSUME NEW s \in 1 .. Len(made), hpc[owner(s)] = "gone" PROVE s \in closed
  BY <1>2, MadeType DEF Inv, RegInv, HandlerInv
<1> QED BY <1>1, <1>2 DEF Inv, HandlerInv, RegInv, NoPanic, RegistryOwned

LEMMA InitInv == Init => Inv
<1> SUFFICES ASSUME Init PROVE Inv
  OBVIOUS
<1>1. <<>> \in Seq(Subs) /\ <<>> \in Seq(Record) /\ Len(<<>>) = 0
  BY EmptySeq
<1>2. TypeOK
  <2>1. subscriptions \in [Channels -> Seq(Subs)] /\ work \in [Conns -> Seq(Subs)]
    BY <1>1 DEF Init
  <2>2. made \in Seq([channel : Channels, conn : Conns]) /\ Len(made) <= MaxSubs
    BY <1>1, PubSubAssumption DEF Init, Record
  <2>3. buf \in [Subs -> 0..ChanCap]
    BY DEF Init, ChanCap
  <2>4. closed \subseteq Subs /\ mine \in [Conns -> SUBSET Subs] /\ leaving \in [Conns -> SUBSET Subs]
    BY DEF Init
  <2>5. /\ hpc \in [Conns -> HandlerPcs]
        /\ gpc \in [Subs -> {"none", "recv", "write", "done"}] /\ panicked \in BOOLEAN
    BY Zenon DEF Init, HandlerPcs
  <2> QED BY <2>1, <2>2, <2>3, <2>4, <2>5 DEF TypeOK
<1>3. 1 .. Len(<<>>) = {}
  BY <1>1
<1>4. /\ made = <<>> /\ closed = {} /\ ~panicked
      /\ \A ch \in Channels : subscriptions[ch] = <<>>
      /\ \A c \in Conns : mine[c] = {} /\ leaving[c] = {} /\ hpc[c] = "ready"
  BY DEF Init
<1>5. RegInv
  BY <1>3, <1>4 DEF RegInv
<1>6. HandlerInv
  BY <1>4 DEF HandlerInv
<1> QED BY <1>2, <1>5, <1>6 DEF Inv

-----------------------------------------------------------------------------
(* The two steps that change the registry *)

\* SUBSCRIBE adds a subscription with a new number.
LEMMA SubscribeInv ==
  ASSUME Inv, NEW c \in Conns, NEW ch \in Channels, Subscribe(c, ch)
  PROVE  Inv'
<1> DEFINE n == Len(made) + 1
           q == subscriptions[ch]
<1>0. Len(made) \in Nat /\ n \in Subs /\ made \in Seq(Record) /\ q \in Seq(Subs) /\ Len(q) \in Nat
  BY LenProperties, PubSubAssumption DEF Inv, TypeOK, Subscribe, Subs, Record
<1>1. /\ made' \in Seq(Record) /\ Len(made') = n
      /\ made'[n] = [channel |-> ch, conn |-> c]
      /\ \A s \in 1 .. Len(made) : made'[s] = made[s]
  <2>1. [channel |-> ch, conn |-> c] \in Record
    BY DEF Record
  <2>2. made' = Append(made, [channel |-> ch, conn |-> c])
    BY DEF Subscribe
  <2> QED BY <1>0, <2>1, <2>2, AppendProperties
<1>2. /\ made'[n].channel = ch /\ made'[n].conn = c
      /\ \A s \in 1 .. Len(made) : made'[s].channel = topic(s) /\ made'[s].conn = owner(s)
  BY <1>1 DEF topic, owner
<1>3. /\ Append(q, n) \in Seq(Subs) /\ Len(Append(q, n)) = Len(q) + 1
      /\ Append(q, n)[Len(q) + 1] = n
      /\ \A i \in 1 .. Len(q) : Append(q, n)[i] = q[i]
  BY <1>0, AppendProperties
<1>4. /\ subscriptions'[ch] = Append(q, n)
      /\ \A d \in Channels \ {ch} : subscriptions'[d] = subscriptions[d]
      /\ subscriptions' \in [Channels -> Seq(Subs)]
  BY <1>0, <1>3 DEF Inv, TypeOK, Subscribe
<1>5. /\ mine'[c] = mine[c] \cup {n}
      /\ \A d \in Conns \ {c} : mine'[d] = mine[d]
      /\ mine' \in [Conns -> SUBSET Subs]
  BY <1>0 DEF Inv, TypeOK, Subscribe
<1>6. UNCHANGED <<buf, closed, work, leaving, panicked>>
      /\ hpc[c] = "ready" /\ hpc' = [hpc EXCEPT ![c] = "reply"]
      /\ gpc' = [gpc EXCEPT ![n] = "recv"] /\ Len(made) < MaxSubs
  BY DEF Subscribe, Goto
<1> HIDE DEF n, q
<1>7. TypeOK'
  <2>1. Len(made') <= MaxSubs
    BY <1>0, <1>1, <1>6, PubSubAssumption DEF n
  <2>2. hpc' \in [Conns -> HandlerPcs] /\ gpc' \in [Subs -> {"none", "recv", "write", "done"}]
    BY <1>0, <1>6 DEF Inv, TypeOK, HandlerPcs
  <2> QED BY <1>1, <1>4, <1>5, <1>6, <2>1, <2>2 DEF Inv, TypeOK, Record
<1>8. \A s \in 1 .. Len(made') : s = n \/ s \in 1 .. Len(made)
  BY <1>0, <1>1 DEF n
<1>9. n \notin 1 .. Len(made) /\ n \in 1 .. Len(made') /\ 1 .. Len(made) \subseteq 1 .. Len(made')
  BY <1>0, <1>1 DEF n
<1>10. \A i \in 1 .. Len(subscriptions'[ch]) :
         \/ i \in 1 .. Len(q) /\ subscriptions'[ch][i] = q[i]
         \/ i = Len(q) + 1 /\ subscriptions'[ch][i] = n
  BY <1>0, <1>3, <1>4
<1>11. \A i \in 1 .. Len(q) : i \in 1 .. Len(subscriptions'[ch]) /\ subscriptions'[ch][i] = q[i]
  BY <1>0, <1>3, <1>4
<1>12. Len(q) + 1 \in 1 .. Len(subscriptions'[ch]) /\ subscriptions'[ch][Len(q) + 1] = n
  BY <1>0, <1>3, <1>4
<1>13. RegInv'
  <2>1. closed' \subseteq 1 .. Len(made')
    BY <1>6, <1>9 DEF Inv, RegInv
  <2>2. ASSUME NEW d \in Conns, NEW s \in mine'[d]
        PROVE  /\ s \in 1 .. Len(made') /\ made'[s].conn = d
               /\ \E i \in 1 .. Len(subscriptions'[made'[s].channel]) : subscriptions'[made'[s].channel][i] = s
    <3>1. CASE s = n
      <4>1. d = c
        BY <1>5, <1>9, <2>2, <3>1 DEF Inv, RegInv
      <4> QED BY <1>2, <1>9, <1>12, <3>1, <4>1
    <3>2. CASE s # n
      <4>1. s \in mine[d]
        BY <1>5, <2>2, <3>2
      <4>2. s \in 1 .. Len(made) /\ owner(s) = d /\ topic(s) \in Channels
        BY <4>1, MadeType DEF Inv, RegInv
      <4>3. PICK i \in 1 .. Len(subscriptions[topic(s)]) : subscriptions[topic(s)][i] = s
        BY <4>1 DEF Inv, RegInv
      <4>4. i \in 1 .. Len(subscriptions'[topic(s)]) /\ subscriptions'[topic(s)][i] = s
        BY <1>4, <1>11, <4>2, <4>3 DEF q
      <4> QED BY <1>2, <1>9, <4>2, <4>4
    <3> QED BY <3>1, <3>2
  <2>3. ASSUME NEW d \in Channels, NEW i \in 1 .. Len(subscriptions'[d])
        PROVE  /\ subscriptions'[d][i] \in 1 .. Len(made')
               /\ made'[subscriptions'[d][i]].channel = d
               /\ subscriptions'[d][i] \in mine'[made'[subscriptions'[d][i]].conn]
    <3>1. CASE d = ch /\ subscriptions'[d][i] = n
      BY <1>2, <1>5, <1>9, <3>1
    <3>2. CASE ~(d = ch /\ subscriptions'[d][i] = n)
      <4>1. i \in 1 .. Len(subscriptions[d]) /\ subscriptions'[d][i] = subscriptions[d][i]
        BY <1>4, <1>10, <2>3, <3>2 DEF q
      <4>2. PICK s \in 1 .. Len(made) : s = subscriptions[d][i] /\ topic(s) = d /\ s \in mine[owner(s)]
        BY <4>1 DEF Inv, RegInv
      <4>3. owner(s) \in Conns /\ mine[owner(s)] \subseteq mine'[owner(s)]
        BY <1>5, MadeType DEF Inv
      <4> QED BY <1>2, <1>9, <4>1, <4>2, <4>3
    <3> QED BY <3>1, <3>2
  <2>4. ASSUME NEW d \in Channels,
               NEW i \in 1 .. Len(subscriptions'[d]), NEW j \in 1 .. Len(subscriptions'[d]),
               subscriptions'[d][i] = subscriptions'[d][j]
        PROVE  i = j
    <3>1. CASE d = ch
      <4>1. \A k \in 1 .. Len(q) : q[k] # n
        BY <1>9 DEF Inv, RegInv, q
      <4>2. \A a, b \in 1 .. Len(q) : q[a] = q[b] => a = b
        BY DEF Inv, RegInv, q
      <4> QED BY <1>10, <2>4, <3>1, <4>1, <4>2
    <3>2. CASE d # ch
      BY <1>4, <2>4, <3>2 DEF Inv, RegInv
    <3> QED BY <3>1, <3>2
  <2>5. ASSUME NEW s \in 1 .. Len(made') PROVE s \in closed' <=> s \notin mine'[made'[s].conn]
    <3>1. CASE s = n
      BY <1>2, <1>5, <1>6, <1>9, <3>1 DEF Inv, RegInv
    <3>2. CASE s # n
      <4>1. s \in 1 .. Len(made) /\ owner(s) \in Conns /\ made'[s].conn = owner(s)
        BY <1>2, <1>8, <3>2, MadeType DEF Inv
      <4> QED BY <1>5, <1>6, <3>2, <4>1 DEF Inv, RegInv
    <3> QED BY <3>1, <3>2
  <2> QED BY <2>1, <2>2, <2>3, <2>4, <2>5 DEF RegInv, topic, owner
<1>14. HandlerInv'
  BY <1>5, <1>6 DEF Inv, HandlerInv, TypeOK
<1> QED BY <1>7, <1>13, <1>14 DEF Inv

\* One turn of a loop of removals: the subscription is registered and open, at
\* one place of its channel, and leaves the registry and the handler's map.
LEMMA RemoveInv ==
  ASSUME Inv, NEW c \in Conns, RemoveNext(c)
  PROVE  Inv'
<1>1. PICK s \in leaving[c] :
        /\ CloseSub(s)
        /\ mine' = [mine EXCEPT ![c] = @ \ {s}]
        /\ leaving' = [leaving EXCEPT ![c] = @ \ {s}]
  BY Zenon DEF RemoveNext
<1> DEFINE q == subscriptions[topic(s)]
           n == Len(q)
           t == topic(s)
<1>2. /\ s \in mine[c] /\ s \in 1 .. Len(made) /\ owner(s) = c
      /\ t \in Channels /\ q \in Seq(Subs) /\ n \in Nat /\ s \in Subs
      /\ s \notin closed
  <2>1. s \in mine[c]
    BY <1>1 DEF Inv, HandlerInv
  <2>2. s \in 1 .. Len(made) /\ owner(s) = c /\ s \notin closed
    BY <2>1 DEF Inv, RegInv
  <2>3. t \in Channels /\ s \in Subs
    BY <2>2, MadeType DEF Inv
  <2>4. q \in Seq(Subs)
    BY <2>3 DEF Inv, TypeOK
  <2> QED BY <2>1, <2>2, <2>3, <2>4, LenProperties
<1>3. PICK k \in 1 .. n : q[k] = s
  BY <1>2 DEF Inv, RegInv
<1>4. Places(s) = {k}
  <2>1. DOMAIN q = 1 .. n
    BY <1>2
  <2> QED BY <1>2, <1>3, <2>1 DEF Inv, RegInv, Places
<1>5. FirstPlace(s) = k
  BY <1>3, <1>4 DEF FirstPlace
<1>6. /\ subscriptions' = [subscriptions EXCEPT ![t] = RemoveAt(q, k)]
      /\ closed' = closed \cup {s} /\ panicked' = panicked
  BY <1>1, <1>2, <1>4, <1>5 DEF CloseSub, Inv, HandlerInv, TypeOK
<1>7. UNCHANGED <<buf, made, hpc, work, gpc>> /\ LockFree
  BY DEF RemoveNext
<1> HIDE DEF q, n, t
<1> DEFINE r == RemoveAt(q, k)
<1>8. /\ r \in Seq(Subs) /\ Len(r) = n - 1
      /\ \A i \in 1 .. n - 1 : r[i] = IF i < k THEN q[i] ELSE q[i + 1]
  BY <1>2, <1>3, CutOut DEF n
<1> HIDE DEF r
<1>9. /\ subscriptions' \in [Channels -> Seq(Subs)] /\ subscriptions'[t] = r
      /\ \A d \in Channels \ {t} : subscriptions'[d] = subscriptions[d]
  BY <1>2, <1>6, <1>8 DEF Inv, TypeOK, r
<1>10. /\ mine' \in [Conns -> SUBSET Subs] /\ mine'[c] = mine[c] \ {s}
       /\ \A d \in Conns \ {c} : mine'[d] = mine[d]
       /\ leaving' \in [Conns -> SUBSET Subs] /\ leaving'[c] = leaving[c] \ {s}
       /\ \A d \in Conns \ {c} : leaving'[d] = leaving[d]
  BY <1>1 DEF Inv, TypeOK
<1>11. TypeOK'
  BY <1>2, <1>6, <1>7, <1>9, <1>10, Zenon DEF Inv, TypeOK
<1>12. \A i \in 1 .. Len(r) : \E j \in 1 .. n : r[i] = q[j] /\ j # k /\ j = IF i < k THEN i ELSE i + 1
  BY <1>2, <1>3, <1>8
<1>13. \A j \in 1 .. n : j # k => \E i \in 1 .. Len(r) : r[i] = q[j]
  <2> SUFFICES ASSUME NEW j \in 1 .. n, j # k PROVE \E i \in 1 .. Len(r) : r[i] = q[j]
    OBVIOUS
  <2>1. CASE j < k
    BY <1>2, <1>3, <1>8, <2>1
  <2>2. CASE j > k
    <3>1. j - 1 \in 1 .. Len(r) /\ r[j - 1] = q[j]
      BY <1>2, <1>3, <1>8, <2>2
    <3> QED BY <3>1
  <2> QED BY <1>2, <1>3, <2>1, <2>2
<1>14. \A i, j \in 1 .. n : q[i] = q[j] => i = j
  BY <1>2 DEF Inv, RegInv, q, n, t
<1>15. RegInv'
  <2>1. closed' \subseteq 1 .. Len(made)
    BY <1>2, <1>6 DEF Inv, RegInv
  <2>2. ASSUME NEW d \in Conns, NEW x \in mine'[d]
        PROVE  /\ x \in 1 .. Len(made) /\ owner(x) = d
               /\ \E i \in 1 .. Len(subscriptions'[topic(x)]) : subscriptions'[topic(x)][i] = x
    <3>1. x \in mine[d] /\ x # s
      BY <1>2, <1>10, <2>2 DEF Inv, RegInv
    <3>2. /\ x \in 1 .. Len(made) /\ owner(x) = d /\ topic(x) \in Channels
      BY <3>1, MadeType DEF Inv, RegInv
    <3>3. PICK j \in 1 .. Len(subscriptions[topic(x)]) : subscriptions[topic(x)][j] = x
      BY <3>1 DEF Inv, RegInv
    <3>4. CASE topic(x) = t
      <4>1. j \in 1 .. n /\ q[j] = x /\ j # k
        BY <1>3, <3>1, <3>3, <3>4 DEF q, n, t
      <4> QED BY <1>9, <1>13, <3>2, <3>4, <4>1
    <3>5. CASE topic(x) # t
      BY <1>9, <3>2, <3>3, <3>5
    <3> QED BY <3>2, <3>4, <3>5
  <2>3. ASSUME NEW d \in Channels, NEW i \in 1 .. Len(subscriptions'[d])
        PROVE  /\ subscriptions'[d][i] \in 1 .. Len(made)
               /\ topic(subscriptions'[d][i]) = d
               /\ subscriptions'[d][i] \in mine'[owner(subscriptions'[d][i])]
    <3>1. PICK j \in 1 .. Len(subscriptions[d]) :
            subscriptions'[d][i] = subscriptions[d][j] /\ subscriptions[d][j] # s
      <4>1. CASE d = t
        BY <1>3, <1>9, <1>12, <1>14, <2>3, <4>1 DEF q, n, t
      <4>2. CASE d # t
        <5>1. subscriptions'[d] = subscriptions[d]
          BY <1>9, <4>2
        <5>2. subscriptions[d][i] # s
          BY <2>3, <4>2, <5>1 DEF Inv, RegInv, t
        <5> QED BY <2>3, <5>1, <5>2
      <4> QED BY <4>1, <4>2
    <3> DEFINE x == subscriptions[d][j]
    <3>2. x \in 1 .. Len(made) /\ topic(x) = d /\ x \in mine[owner(x)] /\ x # s
      BY <3>1 DEF Inv, RegInv
    <3>3. owner(x) \in Conns
      BY <3>2, MadeType DEF Inv
    <3> HIDE DEF x
    <3>4. x \in mine'[owner(x)]
      BY <1>10, <3>2, <3>3
    <3> QED BY <3>1, <3>2, <3>4 DEF x
  <2>4. ASSUME NEW d \in Channels,
               NEW i \in 1 .. Len(subscriptions'[d]), NEW j \in 1 .. Len(subscriptions'[d]),
               subscriptions'[d][i] = subscriptions'[d][j]
        PROVE  i = j
    <3>1. CASE d = t
      <4>1. PICK a \in 1 .. n : r[i] = q[a] /\ a = IF i < k THEN i ELSE i + 1
        BY <1>9, <1>12, <3>1
      <4>2. PICK b \in 1 .. n : r[j] = q[b] /\ b = IF j < k THEN j ELSE j + 1
        BY <1>9, <1>12, <3>1
      <4>3. a = b
        BY <1>9, <1>14, <2>4, <3>1, <4>1, <4>2
      <4>4. i \in Int /\ j \in Int /\ k \in Int
        BY <1>2, <1>8, <1>9, <3>1
      <4> QED BY <4>1, <4>2, <4>3, <4>4
    <3>2. CASE d # t
      BY <1>9, <2>4, <3>2 DEF Inv, RegInv
    <3> QED BY <3>1, <3>2
  <2>5. ASSUME NEW x \in 1 .. Len(made) PROVE x \in closed' <=> x \notin mine'[owner(x)]
    <3>1. owner(x) \in Conns
      BY MadeType DEF Inv
    <3>2. x \in closed <=> x \notin mine[owner(x)]
      BY DEF Inv, RegInv
    <3> QED BY <1>2, <1>6, <1>10, <3>1, <3>2
  <2> QED BY <1>7, <2>1, <2>2, <2>3, <2>4, <2>5, Zenon DEF RegInv, topic, owner
<1>16. HandlerInv'
  BY <1>2, <1>6, <1>7, <1>10, Zenon DEF Inv, HandlerInv, LockFree
<1> QED BY <1>11, <1>15, <1>16 DEF Inv

-----------------------------------------------------------------------------
(* The steps that leave the registry alone *)

\* RegInv depends on the registry's own variables only.
LEMMA RegKept ==
  ASSUME RegInv, UNCHANGED registryVars
  PROVE  RegInv'
<1>1. subscriptions' = subscriptions /\ closed' = closed /\ made' = made /\ mine' = mine
  BY DEF registryVars
<1> QED BY <1>1, ZenonT(40) DEF RegInv, topic, owner

\* Commands and their replies: a handler starts or ends what it does.
LEMMA CommandInv ==
  ASSUME Inv, NEW c \in Conns,
         \/ \E ch \in Channels : Publish(c, ch)
         \/ \E chs \in {{ch} : ch \in Channels} \cup {Channels} : Unsubscribe(c, chs)
         \/ Disconnect(c) \/ RemoveDone(c) \/ PublishDone(c) \/ Reply(c) \/ CloseConn(c)
  PROVE  Inv'
<1>1. UNCHANGED <<registryVars, buf, gpc, panicked>>
  BY DEF Publish, Unsubscribe, Disconnect, RemoveDone, PublishDone, Reply, CloseConn
<1>2. RegInv'
  BY <1>1, RegKept DEF Inv
<1>3. ASSUME NEW ch \in Channels, Publish(c, ch) PROVE TypeOK' /\ HandlerInv'
  <2>1. subscriptions[ch] \in Seq(Subs) /\ work' = [work EXCEPT ![c] = subscriptions[ch]]
    BY <1>3 DEF Publish, Inv, TypeOK
  <2>2. hpc' = [hpc EXCEPT ![c] = "publish"] /\ UNCHANGED leaving
    BY <1>3 DEF Publish, Goto
  <2>3. TypeOK'
    BY <1>1, <2>1, <2>2 DEF Inv, TypeOK, registryVars, HandlerPcs
  <2>4. \A i \in 1 .. Len(subscriptions[ch]) : subscriptions[ch][i] \notin closed
    BY DEF Inv, RegInv
  <2>5. HandlerInv'
    BY <1>1, <2>1, <2>2, <2>4 DEF Inv, TypeOK, HandlerInv, registryVars
  <2> QED BY <2>3, <2>5
<1>4. ASSUME NEW chs, Unsubscribe(c, chs) PROVE TypeOK' /\ HandlerInv'
  <2>1. PICK L \in SUBSET mine[c] : leaving' = [leaving EXCEPT ![c] = L]
    BY <1>4, Zenon DEF Unsubscribe
  <2>2. hpc' = [hpc EXCEPT ![c] = "unsubscribe"] /\ UNCHANGED work
    BY <1>4 DEF Unsubscribe, Goto
  <2> QED BY <1>1, <2>1, <2>2 DEF Inv, TypeOK, HandlerInv, registryVars, HandlerPcs
<1>5. CASE CloseConn(c)
  <2>1. leaving' = [leaving EXCEPT ![c] = mine[c]] /\ hpc' = [hpc EXCEPT ![c] = "teardown"]
        /\ UNCHANGED work
    BY <1>5 DEF CloseConn, Goto
  <2> QED BY <1>1, <1>2, <2>1 DEF Inv, TypeOK, HandlerInv, registryVars, HandlerPcs
<1>6. CASE RemoveDone(c)
  <2>1. PICK pc \in {"reply", "gone"} :
          /\ hpc' = [hpc EXCEPT ![c] = pc]
          /\ pc = "gone" => mine[c] = {}
    BY <1>6, Zenon DEF RemoveDone, Goto, Inv, HandlerInv
  <2>2. UNCHANGED <<work, leaving>>
    BY <1>6 DEF RemoveDone
  <2> QED BY <1>1, <1>2, <2>1, <2>2 DEF Inv, TypeOK, HandlerInv, registryVars, HandlerPcs
<1>7. CASE Disconnect(c) \/ PublishDone(c) \/ Reply(c)
  <2>1. PICK pc \in {"close", "reply", "ready"} : hpc' = [hpc EXCEPT ![c] = pc]
    BY <1>7 DEF Disconnect, PublishDone, Reply, Goto
  <2>2. UNCHANGED <<work, leaving>>
    BY <1>7 DEF Disconnect, PublishDone, Reply
  <2> QED BY <1>1, <1>2, <2>1, <2>2 DEF Inv, TypeOK, HandlerInv, registryVars, HandlerPcs
<1> QED BY <1>2, <1>3, <1>4, <1>5, <1>6, <1>7 DEF Inv

\* A send of PUBLISH finds an open Go channel.
LEMMA SendInv ==
  ASSUME Inv, NEW c \in Conns, Send(c)
  PROVE  Inv'
<1> DEFINE w == work[c]
<1>1. /\ w \in Seq(Subs) /\ w # <<>> /\ Len(w) \in Nat \ {0}
      /\ Head(w) \in Subs /\ Head(w) = w[1] /\ hpc[c] = "publish"
      /\ Tail(w) \in Seq(Subs) /\ Len(Tail(w)) = Len(w) - 1
      /\ \A i \in 1 .. Len(Tail(w)) : Tail(w)[i] = w[i + 1]
  <2>1. w \in Seq(Subs) /\ w # <<>> /\ hpc[c] = "publish"
    BY DEF Send, Inv, TypeOK
  <2>2. Len(w) \in Nat \ {0}
    BY <2>1, EmptySeq
  <2> HIDE DEF w
  <2> QED BY <2>1, <2>2, HeadTailProperties
<1>2. Head(w) \notin closed
  BY <1>1 DEF Inv, HandlerInv
<1>3. UNCHANGED <<registryVars, hpc, leaving, gpc>> /\ work' = [work EXCEPT ![c] = Tail(w)]
  BY DEF Send
<1>4. panicked' = panicked
  <2>1. panicked \in BOOLEAN /\ ~panicked
    BY DEF Inv, TypeOK, HandlerInv
  <2>2. panicked' = (panicked \/ Head(w) \in closed)
    BY DEF Send
  <2> HIDE DEF w
  <2> QED BY <1>2, <2>1, <2>2
<1>5. buf' \in [Subs -> 0..ChanCap]
  <2>1. buf \in [Subs -> 0..1]
    BY DEF Inv, TypeOK, ChanCap
  <2>2. buf' = buf \/ (buf[Head(w)] < 1 /\ buf' = [buf EXCEPT ![Head(w)] = @ + 1])
    BY DEF Send, ChanCap
  <2> HIDE DEF w
  <2>3. CASE buf' = buf
    BY <2>1, <2>3 DEF ChanCap
  <2>4. CASE buf[Head(w)] < 1 /\ buf' = [buf EXCEPT ![Head(w)] = @ + 1]
    <3>1. buf[Head(w)] + 1 \in 0..1
      BY <1>1, <2>1, <2>4
    <3> QED BY <1>1, <2>1, <2>4, <3>1 DEF ChanCap
  <2> QED BY <2>2, <2>3, <2>4
<1>6. RegInv'
  BY <1>3, RegKept DEF Inv
<1>7. TypeOK'
  BY <1>1, <1>3, <1>4, <1>5 DEF Inv, TypeOK, registryVars
<1>8. \A i \in 1 .. Len(Tail(w)) : Tail(w)[i] \notin closed
  <2>1. \A i \in 1 .. Len(w) : w[i] \notin closed
    BY <1>1 DEF Inv, HandlerInv
  <2> HIDE DEF w
  <2> QED BY <1>1, <2>1
<1>9. HandlerInv'
  <2> HIDE DEF w
  <2> QED BY <1>3, <1>4, <1>8 DEF Inv, TypeOK, HandlerInv, registryVars
<1> QED BY <1>6, <1>7, <1>9 DEF Inv

\* A subscription's goroutine changes its Go channel and itself only.
LEMMA ReaderInv ==
  ASSUME Inv, NEW s \in Subs, ReaderStep(s)
  PROVE  Inv'
<1>1. UNCHANGED <<registryVars, handlerVars, panicked>>
  BY DEF ReaderStep, Take, WriteMessage, Leave
<1>2. buf' \in [Subs -> 0..ChanCap]
  <2>1. buf \in [Subs -> 0..1]
    BY DEF Inv, TypeOK, ChanCap
  <2>2. CASE Take(s)
    <3>1. buf[s] - 1 \in 0..1 /\ buf' = [buf EXCEPT ![s] = buf[s] - 1]
      BY <2>1, <2>2 DEF Take
    <3> QED BY <2>1, <3>1 DEF ChanCap
  <2>3. CASE WriteMessage(s) \/ Leave(s)
    BY <2>1, <2>3 DEF WriteMessage, Leave, ChanCap
  <2> QED BY <2>2, <2>3 DEF ReaderStep
<1>3. gpc' \in [Subs -> {"none", "recv", "write", "done"}]
  BY Zenon DEF ReaderStep, Take, WriteMessage, Leave, Inv, TypeOK
<1>4. RegInv'
  BY <1>1, RegKept DEF Inv
<1> QED BY <1>1, <1>2, <1>3, <1>4 DEF Inv, TypeOK, HandlerInv, registryVars, handlerVars

-----------------------------------------------------------------------------
LEMMA StepInv == Inv /\ [Next]_vars => Inv'
<1> SUFFICES ASSUME Inv, [Next]_vars PROVE Inv'
  OBVIOUS
<1>1. ASSUME NEW c \in Conns, NEW ch \in Channels, Subscribe(c, ch) PROVE Inv'
  BY <1>1, SubscribeInv
<1>2. ASSUME NEW c \in Conns, RemoveNext(c) PROVE Inv'
  BY <1>2, RemoveInv
<1>3. ASSUME NEW c \in Conns, Send(c) PROVE Inv'
  BY <1>3, SendInv
<1>4. ASSUME NEW s \in Subs, ReaderStep(s) PROVE Inv'
  BY <1>4, ReaderInv
<1>5. ASSUME NEW c \in Conns,
             \/ \E ch \in Channels : Publish(c, ch)
             \/ \E chs \in {{ch} : ch \in Channels} \cup {Channels} : Unsubscribe(c, chs)
             \/ Disconnect(c) \/ RemoveDone(c) \/ PublishDone(c) \/ Reply(c) \/ CloseConn(c)
      PROVE  Inv'
  BY <1>5, CommandInv
<1>6. CASE UNCHANGED vars
  <2>1. UNCHANGED registryVars
    BY <1>6 DEF vars, registryVars
  <2>2. RegInv'
    BY <2>1, RegKept DEF Inv
  <2> QED BY <1>6, <2>2 DEF Inv, TypeOK, HandlerInv, vars
<1> QED BY <1>1, <1>2, <1>3, <1>4, <1>5, <1>6 DEF Next, HandlerStep, RegistryStep, Quiescent

LEMMA Invariance == Spec => []Inv
BY InitInv, StepInv, PTL DEF Spec

\* The types, for every number of connections, channels and subscriptions: in
\* particular a subscription's Go channel never holds more than its capacity.
THEOREM TypeCorrect == Spec => []TypeOK
BY Invariance, InvMeaning, PTL

\* Neither Publish nor Unsubscribe ever panics on a closed Go channel.
THEOREM PanicCorrect == Spec => []NoPanic
BY Invariance, InvMeaning, PTL

\* The registry of pubsub.go and the maps of the handlers always agree.
THEOREM RegistryCorrect == Spec => []RegistryOwned
BY Invariance, InvMeaning, PTL

\* A Go channel that a handler has dropped gets no further message.
LEMMA DropStep ==
  Inv /\ [Next]_vars
    => [\A s \in 1 .. Len(made) : s \notin mine[owner(s)] => buf'[s] <= buf[s]]_vars
<1> SUFFICES ASSUME Inv, Next, NEW s \in 1 .. Len(made), s \notin mine[owner(s)]
             PROVE  buf'[s] <= buf[s]
  OBVIOUS
<1>1. s \in closed /\ s \in Subs /\ buf[s] \in 0 .. ChanCap /\ buf \in [Subs -> 0 .. ChanCap]
  BY MadeType DEF Inv, RegInv, TypeOK
<1>2. ASSUME NEW c \in Conns, Send(c) PROVE buf'[s] = buf[s]
  BY <1>1, <1>2 DEF Send
<1>3. ASSUME NEW r \in Subs, Take(r) PROVE buf'[s] <= buf[s]
  BY <1>1, <1>3 DEF Take, ChanCap
<1>4. CASE UNCHANGED buf
  BY <1>1, <1>4 DEF ChanCap
<1>5. \/ UNCHANGED buf
      \/ \E c \in Conns : Send(c)
      \/ \E r \in Subs : Take(r)
  BY Zenon DEF Next, HandlerStep, RegistryStep, ReaderStep, Quiescent, vars, Subscribe, Publish, Unsubscribe,
         Disconnect, RemoveNext, RemoveDone, PublishDone, Reply, CloseConn, WriteMessage, Leave
<1> QED BY <1>1, <1>2, <1>3, <1>4, <1>5 DEF ChanCap

\* Once UNSUBSCRIBE or the end of a connection has dropped a subscription, no
\* step of any publisher puts a message into its Go channel.
THEOREM DeliveryCorrect == Spec => StopsDelivery
BY Invariance, DropStep, PTL DEF Spec, StopsDelivery
=============================================================================
