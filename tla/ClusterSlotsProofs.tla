-------------------------- MODULE ClusterSlotsProofs --------------------------
(***************************************************************************)
(* What --create-cluster deals out, whom a node redirects to and what      *)
(* CLUSTER SLOTS lists: proofs for any number of nodes and slots.  They    *)
(* rest on the invariants of ClusterCliProofs.                             *)
(***************************************************************************)
EXTENDS ClusterCliProofs, FiniteSetTheorems

\* The time, in seconds, that each prover is given for a leaf.
USE SMTT(20), ZenonT(20)

-----------------------------------------------------------------------------
\* A set of natural numbers has a least one.
LEMMA Smallest ==
  ASSUME NEW B \in SUBSET Nat, B # {}
  PROVE  \E k \in B : \A i \in B : ~(i < k)
<1>1. PICK k \in B : \A i \in B : ~(<<i, k>> \in OpToRel(<, Nat))
  BY NatLessThanWellFounded, WFMin, Zenon
<1>2. \A i \in B : ~(i < k)
  BY <1>1, Zenon DEF OpToRel
<1> QED BY <1>2

-----------------------------------------------------------------------------
(***************************************************************************)
(* The shares of --create-cluster.  The code adds up a fraction and rounds *)
(* at each border; so the i-th border is the rounded i-fold of the         *)
(* quotient, borders ascend, and a share has the floor of the quotient or  *)
(* one slot more.                                                          *)
(***************************************************************************)

LEMMA DivDef ==
  ASSUME NEW a \in Int, NEW b \in Nat, b > 0
  PROVE  a \div b \in Int /\ b * (a \div b) <= a /\ a < b * (a \div b) + b
OBVIOUS

LEMMA DivIs ==
  ASSUME NEW a \in Int, NEW b \in Nat, b > 0, NEW z \in Int, b * z <= a, a < b * z + b
  PROVE  a \div b = z
<1>1. a \div b \in Int /\ b * (a \div b) <= a /\ a < b * (a \div b) + b
  BY DivDef
<1> DEFINE d == a \div b
<1>2. d \in Int /\ b * d <= a /\ a < b * d + b
  BY <1>1
<1> HIDE DEF d
<1>3. b * (d - z) < b /\ b * (z - d) < b
  BY <1>2
<1>4. d - z < 1 /\ z - d < 1
  BY <1>2, <1>3
<1> QED BY <1>2, <1>4 DEF d

LEMMA DivMono ==
  ASSUME NEW x \in Int, NEW y \in Int, NEW b \in Nat, b > 0, x <= y
  PROVE  x \div b <= y \div b
<1> DEFINE d == x \div b  e == y \div b
<1>1. d \in Int /\ b * d <= x /\ x < b * d + b /\ e \in Int /\ b * e <= y /\ y < b * e + b
  BY DivDef
<1> HIDE DEF d, e
<1>2. b * d < b * (e + 1)
  BY <1>1
<1>3. d < e + 1
  BY <1>1, <1>2
<1> QED BY <1>1, <1>3 DEF d, e

LEMMA DivPlus ==
  ASSUME NEW x \in Int, NEW b \in Nat, b > 0, NEW k \in Int
  PROVE  (x + b * k) \div b = x \div b + k
<1> DEFINE d == x \div b
<1>1. d \in Int /\ b * d <= x /\ x < b * d + b
  BY DivDef
<1> HIDE DEF d
<1>2. b * (d + k) <= x + b * k /\ x + b * k < b * (d + k) + b
  BY <1>1
<1> QED BY <1>1, <1>2, DivIs DEF d

\* The slot after the i-th share, when C slots are dealt to N nodes.
Border(C, N, i) == Round(i * C, N)

LEMMA Borders ==
  ASSUME NEW C \in Nat, NEW N \in Nat, N > 0, C >= N
  PROVE  /\ \A i \in Int : Border(C, N, i) \in Int
         /\ Border(C, N, 0) = 0 /\ Border(C, N, N) = C
         /\ \A i, j \in Int : i <= j => Border(C, N, i) <= Border(C, N, j)
         /\ \A i \in Int : Border(C, N, i) < Border(C, N, i + 1)
         /\ \A i \in Int : Round(i * C - N, N) = Border(C, N, i) - 1
         /\ \E q \in Nat : \A i \in Int : Border(C, N, i + 1) - Border(C, N, i) \in {q, q + 1}
<1>0. 2 * N \in Nat /\ 2 * N > 0
  OBVIOUS
<1>a. \A i \in Int : i * C \in Int /\ 2 * (i * C) + N \in Int
  OBVIOUS
<1>b. \A i \in Int : Border(C, N, i) = (2 * (i * C) + N) \div (2 * N)
  BY DEF Border, Round
<1>1. \A i \in Int : Border(C, N, i) \in Int
  BY <1>0, <1>a, <1>b, DivDef, Zenon
<1>2. Border(C, N, 0) = 0
  <2>1. 2 * N * 0 <= N /\ N < 2 * N * 0 + 2 * N
    OBVIOUS
  <2>2. N \div (2 * N) = 0
    BY <1>0, <2>1, DivIs
  <2>3. 2 * (0 * C) + N = N
    OBVIOUS
  <2> QED BY <1>b, <2>2, <2>3
<1>3. Border(C, N, N) = C
  <2>1. (2 * N) * C <= 2 * (N * C) + N /\ 2 * (N * C) + N < (2 * N) * C + 2 * N
    OBVIOUS
  <2> DEFINE a == 2 * (N * C) + N  b == 2 * N
  <2>2. a \in Int /\ b \in Nat /\ b > 0 /\ b * C <= a /\ a < b * C + b
    BY <2>1
  <2>3. Border(C, N, N) = a \div b
    BY <1>b
  <2> HIDE DEF a, b
  <2> QED BY <2>2, <2>3, DivIs
<1>4. ASSUME NEW i \in Int, NEW j \in Int, i <= j PROVE Border(C, N, i) <= Border(C, N, j)
  <2>1. i * C <= j * C
    BY <1>4
  <2>2. 2 * (i * C) + N <= 2 * (j * C) + N
    BY <1>a, <2>1
  <2> DEFINE x == 2 * (i * C) + N  y == 2 * (j * C) + N  b == 2 * N
  <2>3. x \in Int /\ y \in Int /\ b \in Nat /\ b > 0 /\ x <= y
    BY <2>2
  <2>4. Border(C, N, i) = x \div b /\ Border(C, N, j) = y \div b
    BY <1>b
  <2> HIDE DEF x, y, b
  <2> QED BY <2>3, <2>4, DivMono, Zenon
<1>5. \A i \in Int : Round(i * C - N, N) = Border(C, N, i) - 1
  <2> SUFFICES ASSUME NEW i \in Int PROVE Round(i * C - N, N) = Border(C, N, i) - 1
    OBVIOUS
  <2> DEFINE a == i * C
  <2>1. a \in Int
    OBVIOUS
  <2> HIDE DEF a
  <2>2. 2 * (a - N) + N = (2 * a + N) + (2 * N) * (-1)
    BY <2>1
  <2>3. 2 * a + N \in Int /\ -1 \in Int
    BY <2>1
  <2>4. ((2 * a + N) + (2 * N) * (-1)) \div (2 * N) = (2 * a + N) \div (2 * N) + (-1)
    BY <1>0, <2>3, DivPlus, Zenon
  <2> QED BY <1>0, <1>b, <2>2, <2>4, <2>3, DivDef, Zenon DEF Round, a
<1>6. \E q \in Nat : q >= 1 /\ \A i \in Int : Border(C, N, i + 1) - Border(C, N, i) \in {q, q + 1}
  <2> DEFINE q == C \div N
  <2>1. q \in Int /\ N * q <= C /\ C < N * q + N
    BY DivDef
  <2> HIDE DEF q
  <2>2. q >= 1
    BY <2>1
  <2>3. ASSUME NEW i \in Int PROVE Border(C, N, i + 1) - Border(C, N, i) \in {q, q + 1}
    <3> DEFINE x == 2 * (i * C) + N
               y == 2 * ((i + 1) * C) + N
               d == x \div (2 * N)
               e == y \div (2 * N)
    <3>1. x \in Int /\ y \in Int /\ y = x + 2 * C
      OBVIOUS
    <3>2. Border(C, N, i) = d /\ Border(C, N, i + 1) = e
      BY <1>b
    <3> HIDE DEF x, y
    <3>3. x + 2 * N * q <= y /\ y <= x + 2 * N * (q + 1)
      BY <2>1, <3>1
    <3>4. /\ (x + 2 * N * q) \div (2 * N) = d + q
          /\ (x + 2 * N * (q + 1)) \div (2 * N) = d + (q + 1)
      BY <1>0, <2>1, <3>1, DivPlus
    <3>5. x + 2 * N * q \in Int /\ x + 2 * N * (q + 1) \in Int
      BY <2>1, <3>1
    <3>6. d \in Int /\ e \in Int
      BY <1>0, <3>1, DivDef, Zenon
    <3>7. (x + 2 * N * q) \div (2 * N) <= e /\ e <= (x + 2 * N * (q + 1)) \div (2 * N)
      BY <1>0, <3>1, <3>3, <3>5, DivMono, Zenon
    <3> HIDE DEF d, e
    <3> QED BY <2>1, <3>2, <3>4, <3>6, <3>7
  <2> QED BY <2>1, <2>2, <2>3
<1>7. \A i \in Int : Border(C, N, i) < Border(C, N, i + 1)
  BY <1>1, <1>6
<1> QED BY <1>1, <1>2, <1>3, <1>4, <1>5, <1>6, <1>7, Zenon

\* The pieces into which ascending borders cut an interval: none of them overlap, and
\* they cover it.
Ascending(N, C, b) ==
  /\ b \in [0 .. N -> Int] /\ b[0] = 0 /\ b[N] = C
  /\ \A i, j \in 0 .. N : i <= j => b[i] <= b[j]

Piece(b, i) == b[i - 1] .. b[i] - 1
CutsUp(N, C, b) ==
  /\ \A i, j \in 1 .. N : \A s : s \in Piece(b, i) /\ s \in Piece(b, j) => i = j
  /\ \A i \in 1 .. N : Piece(b, i) \subseteq 0 .. C - 1
  /\ \A s \in 0 .. C - 1 : \E i \in 1 .. N : s \in Piece(b, i)

LEMMA Pieces ==
  ASSUME NEW N \in Nat, NEW C \in Nat, NEW b, Ascending(N, C, b)
  PROVE  CutsUp(N, C, b)
<1>1. /\ \A i \in 0 .. N : b[i] \in Int
      /\ \A i, j \in 0 .. N : i <= j => b[i] <= b[j]
      /\ b[0] = 0 /\ b[N] = C
  BY DEF Ascending
<1>2. \A i \in 1 .. N : i \in 0 .. N /\ i - 1 \in 0 .. N /\ 0 \in 0 .. N /\ N \in 0 .. N
  OBVIOUS
<1>3. ASSUME NEW i \in 1 .. N, NEW j \in 1 .. N, NEW s,
             s \in b[i - 1] .. b[i] - 1, s \in b[j - 1] .. b[j] - 1, i < j
      PROVE  FALSE
  <2>1. i <= j - 1 /\ i \in 0 .. N /\ j - 1 \in 0 .. N
    BY <1>2, <1>3
  <2>2. b[i] <= b[j - 1] /\ b[i] \in Int /\ b[j - 1] \in Int /\ b[i - 1] \in Int
    BY <1>1, <1>2, <2>1, Zenon
  <2> QED BY <1>3, <2>2
<1>4. ASSUME NEW i \in 1 .. N PROVE b[i - 1] .. b[i] - 1 \subseteq 0 .. C - 1
  <2>1. 0 <= b[i - 1] /\ b[i] <= C /\ b[i - 1] \in Int /\ b[i] \in Int
    BY <1>1, <1>2
  <2> QED BY <2>1
<1>5. ASSUME NEW s \in 0 .. C - 1 PROVE \E i \in 1 .. N : s \in b[i - 1] .. b[i] - 1
  <2> DEFINE A == {i \in 0 .. N : s < b[i]}
  <2>1. N \in A /\ A \in SUBSET Nat
    BY <1>1
  <2>2. A # {}
    BY <2>1
  <2>3. PICK i \in A : \A j \in A : ~(j < i)
    BY <2>1, <2>2, Smallest, Zenon
  <2>4. i \in 0 .. N /\ s < b[i] /\ i # 0
    BY <1>1
  <2>5. i \in 1 .. N /\ i - 1 \in 0 .. N /\ i - 1 < i
    BY <2>4
  <2>6. ~(s < b[i - 1])
    BY <2>3, <2>5
  <2>7. s \in b[i - 1] .. b[i] - 1
    BY <1>1, <2>4, <2>5, <2>6
  <2> QED BY <2>5, <2>7, Zenon
<1>6. ASSUME NEW i \in 1 .. N, NEW j \in 1 .. N, NEW s,
             s \in b[i - 1] .. b[i] - 1, s \in b[j - 1] .. b[j] - 1
      PROVE  i = j
  BY <1>3, <1>6
<1> QED BY <1>4, <1>5, <1>6, Zenon DEF CutsUp, Piece

-----------------------------------------------------------------------------
(***************************************************************************)
(* CLUSTER SLOTS.  Its two loops run towards the last slot, so what they   *)
(* leave is shown from there downwards.  o is the owner of each of C slots.*)
(***************************************************************************)
LEMMA Downward ==
  ASSUME NEW n \in Nat, NEW S, \A i \in 0 .. n : (\A j \in i + 1 .. n : j \in S) => i \in S
  PROVE  \A i \in 0 .. n : i \in S
<1> DEFINE B == {k \in 0 .. n : n - k \notin S}
<1> SUFFICES ASSUME B # {} PROVE FALSE
  <2> SUFFICES ASSUME NEW i \in 0 .. n, i \notin S PROVE B # {}
    OBVIOUS
  <2>1. n - i \in 0 .. n /\ n - (n - i) = i
    OBVIOUS
  <2> QED BY <2>1, Zenon
<1>1. B \in SUBSET Nat
  OBVIOUS
<1>3. PICK k \in B : \A i \in B : ~(i < k)
  BY <1>1, Smallest, Zenon
<1>4. ASSUME NEW j \in n - k + 1 .. n PROVE j \in S
  <2>1. n - j \in 0 .. n /\ n - j < k /\ n - (n - j) = j
    OBVIOUS
  <2>2. n - j \notin B
    BY <1>3, <2>1, Zenon
  <2> QED BY <2>1, <2>2
<1>5. n - k \in 0 .. n /\ n - k \notin S
  OBVIOUS
<1> QED BY <1>4, <1>5

\* The inner loop, which looks for the end of the range of slots with owner v.
Scan(C, o, v, f) ==
  f = [e \in 0 .. C - 1 |-> IF e + 1 \in 0 .. C - 1 /\ o[e + 1] = v THEN f[e + 1] ELSE e]

EndsAt(C, o, v, e, m) ==
  /\ m \in e .. C - 1 /\ \A s \in e + 1 .. m : o[s] = v
  /\ m + 1 \in 0 .. C - 1 => o[m + 1] # v

LEMMA ScanExists ==
  ASSUME NEW C \in Nat, NEW o, NEW v
  PROVE  \E f : Scan(C, o, v, f)
<1> DEFINE M(e) == {m \in e .. C - 1 : m + 1 \notin 0 .. C - 1 \/ o[m + 1] # v}
           low(A) == CHOOSE m \in A : \A k \in A : m <= k
           f == [e \in 0 .. C - 1 |-> low(M(e))]
<1>1. ASSUME NEW e \in 0 .. C - 1, e + 1 \in 0 .. C - 1, o[e + 1] = v
      PROVE  M(e) = M(e + 1)
  <2>1. \A m \in e .. C - 1 : m # e => m \in e + 1 .. C - 1
    OBVIOUS
  <2>2. \A m \in e + 1 .. C - 1 : m \in e .. C - 1
    OBVIOUS
  <2> QED BY <1>1, <2>1, <2>2, Zenon
<1>2. ASSUME NEW e \in 0 .. C - 1, ~(e + 1 \in 0 .. C - 1 /\ o[e + 1] = v)
      PROVE  low(M(e)) = e
  <2>1. e \in M(e) /\ \A k \in M(e) : k \in Int /\ e <= k
    BY <1>2
  <2> HIDE DEF M
  <2> QED BY <2>1
<1> HIDE DEF M, low
<1>3. \A e \in 0 .. C - 1 : f[e] = IF e + 1 \in 0 .. C - 1 /\ o[e + 1] = v THEN f[e + 1] ELSE e
  BY <1>1, <1>2, Zenon
<1>4. f = [e \in 0 .. C - 1 |-> f[e]]
  OBVIOUS
<1> HIDE DEF f
<1>5. Scan(C, o, v, f)
  BY <1>3, <1>4, Zenon DEF Scan
<1> QED BY <1>5

LEMMA ScanIs ==
  ASSUME NEW C \in Nat, NEW o, NEW v, NEW f, Scan(C, o, v, f), NEW e \in 0 .. C - 1
  PROVE  EndsAt(C, o, v, e, f[e])
<1> DEFINE S == {i \in 0 .. C - 1 : EndsAt(C, o, v, i, f[i])}
<1>1. \A i \in 0 .. C - 1 : f[i] = IF i + 1 \in 0 .. C - 1 /\ o[i + 1] = v THEN f[i + 1] ELSE i
  BY Zenon DEF Scan
<1>2. ASSUME NEW i \in 0 .. C - 1, \A j \in i + 1 .. C - 1 : j \in S PROVE i \in S
  <2>1. CASE i + 1 \in 0 .. C - 1 /\ o[i + 1] = v
    <3>1. f[i] = f[i + 1] /\ i + 1 \in i + 1 .. C - 1
      BY <1>1, <2>1
    <3>2. EndsAt(C, o, v, i + 1, f[i])
      BY <1>2, <3>1, Zenon
    <3>3. EndsAt(C, o, v, i, f[i])
      <4>1. f[i] \in i .. C - 1
        BY <3>2 DEF EndsAt
      <4>2. ASSUME NEW s \in i + 1 .. f[i] PROVE o[s] = v
        <5>1. CASE s = i + 1
          BY <2>1, <5>1, Zenon
        <5>2. CASE s # i + 1
          <6>1. s \in i + 1 + 1 .. f[i]
            BY <4>1, <5>2
          <6> QED BY <3>2, <6>1 DEF EndsAt
        <5> QED BY <5>1, <5>2, Zenon
      <4> QED BY <3>2, <4>1, <4>2, Zenon DEF EndsAt
    <3> QED BY <3>3, Zenon
  <2>2. CASE ~(i + 1 \in 0 .. C - 1 /\ o[i + 1] = v)
    <3>1. f[i] = i
      BY <1>1, <2>2, Zenon
    <3>2. EndsAt(C, o, v, i, i)
      BY <2>2 DEF EndsAt
    <3> QED BY <3>1, <3>2, Zenon
  <2> QED BY <2>1, <2>2, Zenon
<1> HIDE DEF S
<1>3. C - 1 \in Nat
  OBVIOUS
<1>4. \A i \in 0 .. C - 1 : i \in S
  BY <1>2, <1>3, Downward, Zenon
<1> QED BY <1>4 DEF S

\* The outer loop: slots outside K have no owner; the range that starts at slot i ends at
\* nx[i] and is listed as h[i].
Listed(C, K, nx, h, f, i) ==
  IF i = C THEN <<>> ELSE IF i \notin K THEN f[i + 1] ELSE <<h[i]>> \o f[nx[i] + 1]
Listing(C, K, nx, h, f) == f = [i \in 0 .. C |-> Listed(C, K, nx, h, f, i)]

Jumps(C, X, nx, h) ==
  /\ h \in [0 .. C - 1 -> X]
  /\ nx \in [0 .. C - 1 -> 0 .. C - 1] /\ \A i \in 0 .. C - 1 : i <= nx[i]

LEMMA SeqPrepend ==
  ASSUME NEW X, NEW x \in X, NEW q \in Seq(X)
  PROVE  /\ <<x>> \o q \in Seq(X) /\ Len(<<x>> \o q) = Len(q) + 1 /\ Len(q) \in Nat
         /\ (<<x>> \o q)[1] = x
         /\ \A i \in 1 .. Len(q) : (<<x>> \o q)[i + 1] = q[i]
OBVIOUS

LEMMA ListingExists ==
  ASSUME NEW C \in Nat, NEW K, NEW X, NEW nx, NEW h, Jumps(C, X, nx, h)
  PROVE  \E f : Listing(C, K, nx, h, f)
<1> DEFINE step(f, i) == Listed(C, K, nx, h, f, i)
           S == {k \in 0 .. C : \E f \in [k .. C -> Seq(X)] : \A i \in k .. C : f[i] = step(f, i)}
<1>0. /\ \A i \in 0 .. C - 1 : h[i] \in X /\ nx[i] \in 0 .. C - 1 /\ i <= nx[i]
  BY DEF Jumps
<1>1. ASSUME NEW k \in 0 .. C, \A j \in k + 1 .. C : j \in S PROVE k \in S
  <2>1. CASE k = C
    <3> DEFINE f == [i \in C .. C |-> <<>>]
    <3>1. f \in [C .. C -> Seq(X)] /\ \A i \in C .. C : f[i] = step(f, i)
      BY SeqEmpty DEF Listed
    <3> HIDE DEF f, step
    <3> QED BY <2>1, <3>1, Zenon
  <2>2. CASE k # C
    <3>1. k + 1 \in k + 1 .. C /\ k \in 0 .. C - 1
      BY <2>2
    <3>2. PICK f \in [k + 1 .. C -> Seq(X)] : \A i \in k + 1 .. C : f[i] = step(f, i)
      BY <1>1, <3>1, Zenon
    <3> DEFINE g == [i \in k .. C |-> IF i = k THEN step(f, k) ELSE f[i]]
    <3>3. k + 1 \in k + 1 .. C /\ nx[k] + 1 \in k + 1 .. C
      BY <1>0, <3>1
    <3>4. step(f, k) \in Seq(X)
      <4>1. f[k + 1] \in Seq(X) /\ f[nx[k] + 1] \in Seq(X)
        BY <3>3
      <4>2. <<h[k]>> \o f[nx[k] + 1] \in Seq(X)
        BY <1>0, <3>1, <4>1, SeqPrepend, Zenon
      <4> QED BY <2>2, <4>1, <4>2, Zenon DEF Listed
    <3>5. g \in [k .. C -> Seq(X)]
      <4>1. \A i \in k .. C : i # k => i \in k + 1 .. C
        OBVIOUS
      <4> HIDE DEF step
      <4> QED BY <3>4, <4>1, Zenon
    <3>6. g[k] = step(f, k) /\ \A i \in k + 1 .. C : i \in k .. C /\ g[i] = f[i]
      <4>1. k \in k .. C /\ \A i \in k + 1 .. C : i \in k .. C /\ i # k
        OBVIOUS
      <4> HIDE DEF step
      <4> QED BY <4>1
    <3> HIDE DEF g
    <3>7. ASSUME NEW i \in k .. C PROVE g[i] = step(g, i)
      <4>1. i < C => i + 1 \in k + 1 .. C /\ nx[i] + 1 \in k + 1 .. C
        BY <1>0
      <4>2. i # C => g[i + 1] = f[i + 1] /\ g[nx[i] + 1] = f[nx[i] + 1]
        BY <3>6, <4>1
      <4>3. step(g, i) = step(f, i)
        BY <4>2 DEF Listed
      <4>4. CASE i = k
        BY <3>6, <4>3, <4>4, Zenon
      <4>5. CASE i # k
        <5>1. i \in k + 1 .. C
          BY <4>5
        <5> QED BY <3>2, <3>6, <4>3, <5>1, Zenon
      <4> QED BY <4>4, <4>5, Zenon
    <3> HIDE DEF step
    <3> QED BY <3>5, <3>7, Zenon
  <2> QED BY <2>1, <2>2, Zenon
<1> HIDE DEF S
<1>2. \A k \in 0 .. C : k \in S
  BY <1>1, Downward
<1>3. 0 \in S
  BY <1>2
<1>4. PICK f \in [0 .. C -> Seq(X)] : \A i \in 0 .. C : f[i] = step(f, i)
  BY <1>3, Zenon DEF S
<1>5. f = [i \in 0 .. C |-> f[i]]
  OBVIOUS
<1>6. f = [i \in 0 .. C |-> step(f, i)]
  BY <1>4, <1>5, Zenon
<1> QED BY <1>6, Zenon DEF Listing

\* The maximal ranges of slots with the same owner that start at slot from or later.
Uniform(o, a, b) == \A s \in a .. b : o[s] = o[a]
IsMaximal(C, o, K, a, b) ==
  /\ a <= b /\ a \in K /\ Uniform(o, a, b)
  /\ a > 0 => ~Uniform(o, a - 1, b)
  /\ b + 1 \in 0 .. C - 1 => ~Uniform(o, a, b + 1)
Maximal(C, o, K, from) ==
  {r \in (0 .. C - 1) \X (0 .. C - 1) : r[1] >= from /\ IsMaximal(C, o, K, r[1], r[2])}

\* No range that starts before slot i goes on there.
Fresh(C, o, K, i) == i = 0 \/ i = C \/ i - 1 \notin K \/ o[i] # o[i - 1]

\* Whether a slot has an owner is a matter of its owner.
OwnerTells(C, o, K) ==
  K \subseteq 0 .. C - 1 /\ \A i, j \in 0 .. C - 1 : o[i] = o[j] /\ i \in K => j \in K

LEMMA MaximalSkip ==
  ASSUME NEW C \in Nat, NEW o, NEW K, NEW i \in 0 .. C - 1, i \notin K
  PROVE  Maximal(C, o, K, i) = Maximal(C, o, K, i + 1)
<1>1. \A r \in (0 .. C - 1) \X (0 .. C - 1) :
        r[1] >= i /\ IsMaximal(C, o, K, r[1], r[2]) <=> r[1] >= i + 1 /\ IsMaximal(C, o, K, r[1], r[2])
  <2> SUFFICES ASSUME NEW r \in (0 .. C - 1) \X (0 .. C - 1), r[1] >= i, IsMaximal(C, o, K, r[1], r[2])
               PROVE  r[1] >= i + 1
    OBVIOUS
  <2>1. r[1] \in K
    BY DEF IsMaximal
  <2>2. r[1] \in 0 .. C - 1 /\ r[1] # i
    BY <2>1
  <2> QED BY <2>2
<1> QED BY <1>1, Zenon DEF Maximal

\* Slots i to e make up the first of the maximal ranges that are left.
Takes(C, o, K, i, e) ==
  /\ Maximal(C, o, K, i) = {<<i, e>>} \cup Maximal(C, o, K, e + 1)
  /\ Fresh(C, o, K, e + 1)

LEMMA MaximalTake ==
  ASSUME NEW C \in Nat, NEW o, NEW K, OwnerTells(C, o, K), NEW i \in K, Fresh(C, o, K, i),
         NEW e, EndsAt(C, o, o[i], i, e)
  PROVE  Takes(C, o, K, i, e)
<1>1. i \in 0 .. C - 1 /\ e \in i .. C - 1 /\ \A s \in i + 1 .. e : o[s] = o[i]
  BY DEF OwnerTells, EndsAt
<1>2. \A s \in i .. e : o[s] = o[i]
  BY <1>1
<1>3. e + 1 \in 0 .. C - 1 => o[e + 1] # o[i]
  BY DEF EndsAt
<1>4. e \in i .. e /\ o[e] = o[i] /\ e \in 0 .. C - 1 /\ e + 1 - 1 = e
  BY <1>1, <1>2
<1>5. Fresh(C, o, K, e + 1)
  <2>1. e + 1 = C \/ e + 1 \in 0 .. C - 1
    BY <1>1
  <2> QED BY <1>3, <1>4, <2>1 DEF Fresh
<1>6. IsMaximal(C, o, K, i, e)
  <2>1. i <= e /\ Uniform(o, i, e)
    BY <1>1, <1>2 DEF Uniform
  <2>2. ASSUME i > 0 PROVE ~Uniform(o, i - 1, e)
    <3>1. i \in i - 1 .. e /\ i # 0 /\ i # C /\ i - 1 \in 0 .. C - 1
      BY <1>1, <2>2
    <3>2. o[i] # o[i - 1]
      BY <1>1, <3>1, Zenon DEF Fresh, OwnerTells
    <3> QED BY <3>1, <3>2, Zenon DEF Uniform
  <2>3. ASSUME e + 1 \in 0 .. C - 1 PROVE ~Uniform(o, i, e + 1)
    <3>1. e + 1 \in i .. e + 1
      BY <1>1
    <3> QED BY <1>3, <2>3, <3>1, Zenon DEF Uniform
  <2> QED BY <2>1, <2>2, <2>3, Zenon DEF IsMaximal
<1>7. ASSUME NEW a \in 0 .. C - 1, NEW b \in 0 .. C - 1, a >= i, IsMaximal(C, o, K, a, b)
      PROVE  (a = i /\ b = e) \/ a >= e + 1
  <2>0. a <= b /\ Uniform(o, a, b) /\ (a > 0 => ~Uniform(o, a - 1, b))
        /\ (b + 1 \in 0 .. C - 1 => ~Uniform(o, a, b + 1))
    BY <1>7 DEF IsMaximal
  <2>1. ASSUME a = i, b < e PROVE FALSE
    <3>1. b + 1 \in 0 .. C - 1
      BY <1>1, <2>1
    <3>2. \A s \in a .. b + 1 : s \in i .. e
      BY <1>1, <2>1
    <3>3. Uniform(o, a, b + 1)
      BY <1>2, <2>1, <3>2, Zenon DEF Uniform
    <3> QED BY <2>0, <3>1, <3>3, Zenon
  <2>2. ASSUME a = i, b > e PROVE FALSE
    <3>1. e + 1 \in a .. b /\ e + 1 \in 0 .. C - 1
      BY <1>1, <2>2
    <3>2. o[e + 1] = o[a]
      BY <2>0, <3>1, Zenon DEF Uniform
    <3> QED BY <1>3, <2>2, <3>1, <3>2, Zenon
  <2>3. ASSUME a > i, a <= e PROVE FALSE
    <3>1. a - 1 \in i .. e /\ a \in i .. e /\ a > 0
      BY <1>1, <2>3
    <3>2. o[a - 1] = o[i] /\ o[a] = o[i]
      BY <1>2, <3>1, Zenon
    <3>3. ASSUME NEW s \in a - 1 .. b PROVE o[s] = o[a - 1]
      <4>1. s = a - 1 \/ s \in a .. b
        BY <2>0
      <4> QED BY <2>0, <3>2, <4>1, Zenon DEF Uniform
    <3> QED BY <2>0, <3>1, <3>3, Zenon DEF Uniform
  <2> QED BY <1>1, <1>7, <2>1, <2>2, <2>3
<1>8. \A r \in (0 .. C - 1) \X (0 .. C - 1) :
        r \in Maximal(C, o, K, i) <=> r = <<i, e>> \/ r \in Maximal(C, o, K, e + 1)
  <2> SUFFICES ASSUME NEW r \in (0 .. C - 1) \X (0 .. C - 1)
               PROVE  r \in Maximal(C, o, K, i) <=> r = <<i, e>> \/ r \in Maximal(C, o, K, e + 1)
    OBVIOUS
  <2>1. r[1] \in 0 .. C - 1 /\ r[2] \in 0 .. C - 1 /\ (r = <<i, e>> <=> r[1] = i /\ r[2] = e)
    OBVIOUS
  <2>2. r[1] >= e + 1 => r[1] >= i
    BY <1>1, <2>1
  <2>3. i >= i
    BY <1>1
  <2>4. r[1] >= i /\ IsMaximal(C, o, K, r[1], r[2]) <=>
          (r[1] = i /\ r[2] = e) \/ (r[1] >= e + 1 /\ IsMaximal(C, o, K, r[1], r[2]))
    BY <1>6, <1>7, <2>1, <2>2, <2>3, Zenon
  <2>5. r \in Maximal(C, o, K, i) <=> r[1] >= i /\ IsMaximal(C, o, K, r[1], r[2])
    BY Zenon DEF Maximal
  <2>6. r \in Maximal(C, o, K, e + 1) <=> r[1] >= e + 1 /\ IsMaximal(C, o, K, r[1], r[2])
    BY Zenon DEF Maximal
  <2>7. ASSUME r \in Maximal(C, o, K, i) PROVE r = <<i, e>> \/ r \in Maximal(C, o, K, e + 1)
    BY <2>1, <2>4, <2>5, <2>6, <2>7, Zenon
  <2>8. ASSUME r = <<i, e>> PROVE r \in Maximal(C, o, K, i)
    <3>1. r[1] = i /\ r[2] = e
      BY <2>1, <2>8, Zenon
    <3>2. r[1] >= i /\ IsMaximal(C, o, K, r[1], r[2])
      BY <2>3, <1>6, <3>1, Zenon
    <3> QED BY <2>5, <3>2, Zenon
  <2>9. ASSUME r \in Maximal(C, o, K, e + 1) PROVE r \in Maximal(C, o, K, i)
    BY <2>4, <2>5, <2>6, <2>9, Zenon
  <2> QED BY <2>7, <2>8, <2>9, Zenon
<1>9. <<i, e>> \in (0 .. C - 1) \X (0 .. C - 1)
  BY <1>1, <1>4, Zenon
<1>10. Maximal(C, o, K, i) = {<<i, e>>} \cup Maximal(C, o, K, e + 1)
  <2>1. \A from : Maximal(C, o, K, from) \subseteq (0 .. C - 1) \X (0 .. C - 1)
    BY DEF Maximal
  <2> QED BY <1>8, <1>9, <2>1, Zenon
<1> QED BY <1>5, <1>10, Zenon DEF Takes

\* A list of ranges: those in P, in ascending order.
Lists(rs, P) ==
  /\ {<<rs[i][1], rs[i][2]>> : i \in DOMAIN rs} = P
  /\ \A i \in 1 .. Len(rs) - 1 : rs[i][2] < rs[i + 1][1]

LEMMA ListsMore ==
  ASSUME NEW X, NEW rs \in Seq(X), NEW P, Lists(rs, P), NEW x \in X,
         \A r \in P : x[2] < r[1]
  PROVE  Lists(<<x>> \o rs, {<<x[1], x[2]>>} \cup P)
<1> DEFINE t == <<x>> \o rs
<1>1. /\ t \in Seq(X) /\ Len(t) = Len(rs) + 1 /\ Len(rs) \in Nat /\ t[1] = x
      /\ \A i \in 1 .. Len(rs) : t[i + 1] = rs[i]
  BY SeqPrepend
<1>2. DOMAIN t = 1 .. Len(t) /\ DOMAIN rs = 1 .. Len(rs)
  BY <1>1, SeqLen, Zenon
<1>3. /\ {<<rs[i][1], rs[i][2]>> : i \in 1 .. Len(rs)} = P
      /\ \A i \in 1 .. Len(rs) - 1 : rs[i][2] < rs[i + 1][1]
  BY <1>2, Zenon DEF Lists
<1> HIDE DEF t
<1>4. {<<t[i][1], t[i][2]>> : i \in 1 .. Len(t)} = {<<x[1], x[2]>>} \cup P
  <2>1. ASSUME NEW i \in 1 .. Len(t) PROVE <<t[i][1], t[i][2]>> \in {<<x[1], x[2]>>} \cup P
    <3>1. CASE i = 1
      BY <1>1, <3>1, Zenon
    <3>2. CASE i # 1
      <4>1. i - 1 \in 1 .. Len(rs) /\ i - 1 + 1 = i
        BY <1>1, <3>2
      <4>2. t[i] = rs[i - 1]
        BY <1>1, <4>1, Zenon
      <4> QED BY <1>3, <4>1, <4>2, Zenon
    <3> QED BY <3>1, <3>2, Zenon
  <2>2. \E i \in 1 .. Len(t) : <<x[1], x[2]>> = <<t[i][1], t[i][2]>>
    <3>1. 1 \in 1 .. Len(t)
      BY <1>1
    <3> QED BY <1>1, <3>1, Zenon
  <2>3. ASSUME NEW r \in P PROVE \E i \in 1 .. Len(t) : r = <<t[i][1], t[i][2]>>
    <3>1. PICK i \in 1 .. Len(rs) : r = <<rs[i][1], rs[i][2]>>
      BY <1>3
    <3>2. i + 1 \in 1 .. Len(t) /\ t[i + 1] = rs[i]
      BY <1>1
    <3> QED BY <3>1, <3>2, Zenon
  <2> QED BY <2>1, <2>2, <2>3, Zenon
<1>5. ASSUME NEW i \in 1 .. Len(t) - 1 PROVE t[i][2] < t[i + 1][1]
  <2>1. i \in 1 .. Len(rs) /\ t[i + 1] = rs[i]
    BY <1>1
  <2>2. CASE i = 1
    <3>1. <<rs[1][1], rs[1][2]>> \in P
      BY <1>3, <2>1, <2>2, Zenon
    <3>2. <<rs[1][1], rs[1][2]>>[1] = rs[1][1]
      OBVIOUS
    <3>3. x[2] < rs[1][1]
      BY <3>1, <3>2, Zenon
    <3> QED BY <1>1, <2>1, <2>2, <3>3, Zenon
  <2>3. CASE i # 1
    <3>1. i - 1 \in 1 .. Len(rs) - 1 /\ i - 1 \in 1 .. Len(rs) /\ i - 1 + 1 = i
      BY <1>1, <2>1, <2>3
    <3>2. t[i] = rs[i - 1] /\ rs[i - 1][2] < rs[i][1]
      BY <1>1, <1>3, <3>1, Zenon
    <3> QED BY <2>1, <3>2, Zenon
  <2> QED BY <2>2, <2>3, Zenon
<1>6. Lists(t, {<<x[1], x[2]>>} \cup P)
  BY <1>2, <1>4, <1>5, Zenon DEF Lists
<1> QED BY <1>6 DEF t

\* The outer loop lists the maximal ranges, each once.
LEMMA ListingIs ==
  ASSUME NEW C \in Nat, NEW o, NEW K, OwnerTells(C, o, K), NEW X, NEW nx, NEW h, Jumps(C, X, nx, h),
         \A i \in K : EndsAt(C, o, o[i], i, nx[i]) /\ h[i][1] = i /\ h[i][2] = nx[i],
         NEW f, Listing(C, K, nx, h, f)
  PROVE  Lists(f[0], Maximal(C, o, K, 0))
<1> DEFINE S == {i \in 0 .. C : /\ f[i] \in Seq(X)
                                /\ Fresh(C, o, K, i) => Lists(f[i], Maximal(C, o, K, i))}
<1>0. /\ \A i \in 0 .. C : f[i] = Listed(C, K, nx, h, f, i)
      /\ \A i \in 0 .. C - 1 : h[i] \in X /\ nx[i] \in 0 .. C - 1 /\ i <= nx[i]
  BY Zenon DEF Listing, Jumps
<1>1. ASSUME NEW i \in 0 .. C, \A j \in i + 1 .. C : j \in S PROVE i \in S
  <2>1. CASE i = C
    <3>1. f[i] = <<>>
      BY <1>0, <2>1, Zenon DEF Listed
    <3>2. Maximal(C, o, K, C) = {}
      BY DEF Maximal
    <3>3. Lists(<<>>, {})
      BY SeqEmpty DEF Lists
    <3> QED BY <2>1, <3>1, <3>2, <3>3, SeqEmpty, Zenon
  <2>2. CASE i # C /\ i \notin K
    <3>1. i \in 0 .. C - 1 /\ i + 1 \in i + 1 .. C
      BY <2>2
    <3>2. f[i] = f[i + 1]
      BY <1>0, <2>2, Zenon DEF Listed
    <3>3. f[i + 1] \in Seq(X) /\ (Fresh(C, o, K, i + 1) => Lists(f[i + 1], Maximal(C, o, K, i + 1)))
      BY <1>1, <3>1, Zenon
    <3>4. Fresh(C, o, K, i + 1)
      BY <2>2, <3>1 DEF Fresh
    <3>5. Maximal(C, o, K, i) = Maximal(C, o, K, i + 1)
      BY <2>2, <3>1, MaximalSkip, Zenon
    <3> QED BY <3>2, <3>3, <3>4, <3>5, Zenon
  <2>3. CASE i # C /\ i \in K
    <3>1. i \in 0 .. C - 1 /\ nx[i] + 1 \in i + 1 .. C
      BY <1>0, <2>3
    <3>2. f[i] = <<h[i]>> \o f[nx[i] + 1] /\ h[i] \in X
      BY <1>0, <2>3, <3>1, Zenon DEF Listed
    <3>3. /\ f[nx[i] + 1] \in Seq(X)
          /\ Fresh(C, o, K, nx[i] + 1) => Lists(f[nx[i] + 1], Maximal(C, o, K, nx[i] + 1))
      BY <1>1, <3>1, Zenon
    <3>4. f[i] \in Seq(X)
      BY <3>2, <3>3, SeqPrepend
    <3>5. ASSUME Fresh(C, o, K, i) PROVE Lists(f[i], Maximal(C, o, K, i))
      <4> DEFINE e == nx[i]
                 P == Maximal(C, o, K, e + 1)
      <4>1. EndsAt(C, o, o[i], i, e) /\ h[i][1] = i /\ h[i][2] = e
        BY <2>3, Zenon
      <4>2. Takes(C, o, K, i, e)
        BY <2>3, <3>5, <4>1, MaximalTake, Zenon
      <4>6. Maximal(C, o, K, i) = {<<i, e>>} \cup P /\ Fresh(C, o, K, e + 1)
        BY <4>2, Zenon DEF Takes
      <4>3. e \in Int /\ \A r \in P : e < r[1]
        BY <1>0, <3>1 DEF Maximal
      <4>4. Lists(f[e + 1], P)
        BY <3>3, <4>6, Zenon
      <4> HIDE DEF e, P
      <4>5. Lists(<<h[i]>> \o f[e + 1], {<<h[i][1], h[i][2]>>} \cup P)
        BY <3>2, <3>3, <4>1, <4>3, <4>4, ListsMore, Zenon DEF e
      <4> QED BY <3>2, <4>1, <4>6, <4>5, Zenon DEF e
    <3> QED BY <3>4, <3>5, Zenon
  <2> QED BY <2>1, <2>2, <2>3
<1> HIDE DEF S
<1>2. \A i \in 0 .. C : i \in S
  BY <1>1, Downward, Zenon
<1>3. 0 \in S
  BY <1>2
<1> QED BY <1>3 DEF S, Fresh

-----------------------------------------------------------------------------
(***************************************************************************)
(* Calls of --create-cluster with the nodes L, none of them twice, and no  *)
(* call with other ones, unless it is refused.  Calls of --cluster-add-    *)
(* node come as they like.                                                 *)
(***************************************************************************)
OneCluster(L) ==
  /\ L \in Seq(Node) /\ Len(L) <= CLUSTER_SLOTS
  /\ \A i, j \in 1 .. Len(L) : L[i] = L[j] => i = j
  /\ \A j \in 1 .. Len(Jobs) :
       Jobs[j].cmd = "create" /\ Len(Jobs[j].nodes) >= 3 => Jobs[j].nodes = L

\* The slots that the i-th node is to get, and that it has got them.
Share(L, i) == Border(CLUSTER_SLOTS, Len(L), i - 1) .. Border(CLUSTER_SLOTS, Len(L), i) - 1
Has(L, i) == owned[L[i]] = Share(L, i)

\* What the loop over the nodes has done: a node has its share or nothing, wherever an
\* earlier call broke off, and those before pos have it unless a request failed.
DealInv(L) ==
  /\ \A n \in Node : owned[n] = {} \/ \E i \in 1 .. Len(L) : n = L[i] /\ Has(L, i)
  /\ cpc \in {"idle", "dial"} => first = 0
  /\ cpc = "slots" => /\ Creating /\ first = Border(CLUSTER_SLOTS, Len(L), pos - 1)
                      /\ clean => \A i \in 1 .. pos - 1 : Has(L, i)
  /\ cpc \in {"meet", "wait"} /\ Creating /\ clean => \A i \in 1 .. Len(L) : Has(L, i)

\* The node the code deals slots to next gets its share.
LEMMA LastIs ==
  ASSUME NEW N \in Nat, N > 0, N <= CLUSTER_SLOTS, NEW i \in 1 .. N
  PROVE  Last(i, N, Border(CLUSTER_SLOTS, N, i - 1)) = Border(CLUSTER_SLOTS, N, i) - 1
<1> DEFINE C == CLUSTER_SLOTS
           from == Border(C, N, i - 1)
           to == Border(C, N, i)
           rounded == Round(i * C - N, N)
           last == IF rounded > C \/ i = N THEN C - 1 ELSE rounded
<1>0. C \in Nat /\ C >= N /\ i \in Int /\ i - 1 \in Int /\ i <= N /\ N \in Int /\ i - 1 + 1 = i
  BY ClusterBusAssumption
<1>1. from \in Int /\ to \in Int /\ Border(C, N, N) = C
  BY <1>0, Borders, Zenon
<1>2. from < to
  <2>1. \A j \in Int : Border(C, N, j) < Border(C, N, j + 1)
    BY <1>0, Borders, Zenon
  <2> QED BY <1>0, <2>1, Zenon
<1>3. to <= C
  <2>1. \A j, k \in Int : j <= k => Border(C, N, j) <= Border(C, N, k)
    BY <1>0, Borders, Zenon
  <2> QED BY <1>0, <1>1, <2>1, Zenon
<1>4. rounded = to - 1
  BY <1>0, Borders
<1>5. i = N => to = C
  BY <1>1, Zenon
<1>6. Last(i, N, from) = Max({from, last})
  BY DEF Last
<1> HIDE DEF C, from, to, rounded
<1>7. last = to - 1
  BY <1>0, <1>1, <1>3, <1>4, <1>5
<1> HIDE DEF last
<1>8. Max({from, last}) = last
  <2>1. /\ last \in {from, last} /\ \A z \in {from, last} : last >= z
        /\ \A y \in {from, last} : (\A z \in {from, last} : y >= z) => y = last
    BY <1>1, <1>2, <1>7
  <2> QED BY <2>1 DEF Max
<1> QED BY <1>6, <1>7, <1>8, Zenon DEF from, to, C

\* No slot is in two shares, every slot is in one, and they are even.
LEMMA Shares ==
  ASSUME NEW L, OneCluster(L), Len(L) > 0
  PROVE  /\ \A i, j \in 1 .. Len(L) : \A s : s \in Share(L, i) /\ s \in Share(L, j) => i = j
         /\ \A i \in 1 .. Len(L) : Share(L, i) \subseteq Slot
         /\ \A s \in Slot : \E i \in 1 .. Len(L) : s \in Share(L, i)
         /\ \A i, j \in 1 .. Len(L) : Cardinality(Share(L, i)) <= Cardinality(Share(L, j)) + 1
<1> DEFINE N == Len(L)
           C == CLUSTER_SLOTS
           b == [i \in 0 .. N |-> Border(C, N, i)]
<1>0. N \in Nat /\ C \in Nat /\ C >= N /\ N > 0
  BY SeqLen, ClusterBusAssumption, Zenon DEF OneCluster
<1>1. Ascending(N, C, b)
  <2>1. /\ \A i \in Int : Border(C, N, i) \in Int
        /\ Border(C, N, 0) = 0 /\ Border(C, N, N) = C
        /\ \A i, j \in Int : i <= j => Border(C, N, i) <= Border(C, N, j)
    BY <1>0, Borders, Zenon
  <2> HIDE DEF N, C
  <2> QED BY <1>0, <2>1 DEF Ascending
<1>2. \A i \in 1 .. N : Share(L, i) = b[i - 1] .. b[i] - 1
  <2>1. \A i \in 1 .. N : b[i - 1] = Border(C, N, i - 1) /\ b[i] = Border(C, N, i)
    BY <1>0
  <2> QED BY <2>1 DEF Share
<1>3. PICK q \in Nat : \A i \in 1 .. N : b[i] - b[i - 1] \in {q, q + 1} /\ b[i - 1] < b[i]
  <2>1. PICK q \in Nat : \A i \in Int : Border(C, N, i + 1) - Border(C, N, i) \in {q, q + 1}
    BY <1>0, Borders, Zenon
  <2>2. \A i \in Int : Border(C, N, i) < Border(C, N, i + 1)
    BY <1>0, Borders, Zenon
  <2>3. \A i \in 1 .. N : i - 1 \in Int /\ i - 1 + 1 = i
    BY <1>0
  <2>4. \A i \in 1 .. N : /\ Border(C, N, i) - Border(C, N, i - 1) \in {q, q + 1}
                          /\ Border(C, N, i - 1) < Border(C, N, i)
    BY <2>1, <2>2, <2>3, Zenon
  <2>5. \A i \in 1 .. N : b[i - 1] = Border(C, N, i - 1) /\ b[i] = Border(C, N, i)
    BY <1>0
  <2> HIDE DEF b
  <2> QED BY <2>4, <2>5, Zenon
<1>4. b \in [0 .. N -> Int] /\ Slot = 0 .. C - 1
  BY <1>1 DEF Ascending, Slot
<1> HIDE DEF b, N, C
<1>5. /\ \A i, j \in 1 .. N : \A s : s \in Share(L, i) /\ s \in Share(L, j) => i = j
      /\ \A i \in 1 .. N : Share(L, i) \subseteq Slot
      /\ \A s \in Slot : \E i \in 1 .. N : s \in Share(L, i)
  <2>1. CutsUp(N, C, b)
    BY <1>0, <1>1, Pieces, Zenon
  <2>2. \A i \in 1 .. N : Share(L, i) = Piece(b, i)
    BY <1>2 DEF Piece
  <2>3. \A i, j \in 1 .. N : \A s : s \in Piece(b, i) /\ s \in Piece(b, j) => i = j
    BY <2>1, Zenon DEF CutsUp
  <2>4. \A i \in 1 .. N : Piece(b, i) \subseteq Slot
    BY <1>4, <2>1 DEF CutsUp
  <2>5. \A s \in Slot : \E i \in 1 .. N : s \in Piece(b, i)
    BY <1>4, <2>1 DEF CutsUp
  <2>6. ASSUME NEW i \in 1 .. N, NEW j \in 1 .. N, NEW s, s \in Share(L, i), s \in Share(L, j)
        PROVE  i = j
    BY <2>2, <2>3, <2>6
  <2>7. \A i \in 1 .. N : Share(L, i) \subseteq Slot
    BY <2>2, <2>4, Zenon
  <2>8. \A s \in Slot : \E i \in 1 .. N : s \in Share(L, i)
    BY <2>2, <2>5, Zenon
  <2> QED BY <2>6, <2>7, <2>8, Zenon
<1>6. ASSUME NEW i \in 1 .. N PROVE Cardinality(Share(L, i)) \in {q, q + 1}
  <2> DEFINE x == b[i - 1]  y == b[i] - 1
  <2>1. b[i - 1] \in Int /\ b[i] \in Int
    BY <1>0, <1>4
  <2>2. x \in Int /\ y \in Int /\ x <= y /\ y - x + 1 \in {q, q + 1}
    BY <1>3, <2>1
  <2>3. Share(L, i) = x .. y
    BY <1>2
  <2> HIDE DEF x, y
  <2>4. Cardinality(x .. y) = IF x > y THEN 0 ELSE y - x + 1
    BY <2>2, FS_Interval, Zenon
  <2> QED BY <2>2, <2>3, <2>4
<1>7. ASSUME NEW i \in 1 .. N, NEW j \in 1 .. N
      PROVE  Cardinality(Share(L, i)) <= Cardinality(Share(L, j)) + 1
  BY <1>6
<1> QED BY <1>5, <1>7, Zenon DEF N

\* A job that gets past its first check deals slots to the nodes of L, if it deals any.
LEMMA ListIs ==
  ASSUME NEW L, OneCluster(L), CliInv, cpc # "idle", Creating
  PROVE  List = L /\ Len(L) \in Nat /\ Len(L) > 0 /\ Len(L) <= CLUSTER_SLOTS
<1>1. job \in 1 .. Len(Jobs) /\ job > 0 /\ Len(List) >= 3
  BY ClusterCliAssumption, SeqLen DEF CliInv
<1>2. List = L
  BY <1>1 DEF OneCluster, List, Creating
<1>3. Len(List) \in Nat
  BY <1>1, ListType, Zenon
<1> QED BY <1>1, <1>2, <1>3 DEF OneCluster

\* A slot has no more than one owner.
LEMMA OneOwner ==
  ASSUME NEW L, OneCluster(L), DealInv(L), NEW m \in Node, NEW n \in Node,
         NEW s \in owned[m], s \in owned[n]
  PROVE  m = n
<1>1. PICK i \in 1 .. Len(L) : m = L[i] /\ owned[m] = Share(L, i)
  BY DEF DealInv, Has
<1>2. PICK j \in 1 .. Len(L) : n = L[j] /\ owned[n] = Share(L, j)
  BY DEF DealInv, Has
<1>3. Len(L) > 0
  BY SeqLen DEF OneCluster
<1>4. i = j
  BY <1>1, <1>2, <1>3, Shares
<1> QED BY <1>1, <1>2, <1>4, Zenon

LEMMA DealMeaning ==
  ASSUME NEW L, OneCluster(L), CliInv, DealInv(L)
  PROVE  SlotsDealt
<1> SUFFICES ASSUME cpc \in {"meet", "wait"}, Creating, clean
             PROVE  /\ \A s \in Slot : Cardinality(Owners(s)) = 1
                    /\ \A m, n \in Range(List) : Cardinality(owned[m]) <= Cardinality(owned[n]) + 1
  BY DEF SlotsDealt
<1>1. List = L /\ Len(L) > 0 /\ L \in Seq(Node)
  BY ListIs, Zenon DEF OneCluster
<1>2. \A i \in 1 .. Len(L) : owned[L[i]] = Share(L, i) /\ L[i] \in Node
  BY <1>1, SeqElement, Zenon DEF DealInv, Has
<1>3. ASSUME NEW s \in Slot PROVE Cardinality(Owners(s)) = 1
  <2>1. PICK i \in 1 .. Len(L) : s \in Share(L, i)
    BY <1>1, Shares, Zenon
  <2>2. L[i] \in Node /\ s \in owned[L[i]]
    BY <1>2, <2>1, Zenon
  <2>3. \A n \in Node : s \in owned[n] => n = L[i]
    BY <2>2, OneOwner, Zenon
  <2>4. Owners(s) = {L[i]}
    BY <2>2, <2>3, Zenon DEF Owners
  <2> QED BY <2>4, FS_Singleton, Zenon
<1>4. ASSUME NEW m \in Range(List), NEW n \in Range(List)
      PROVE  Cardinality(owned[m]) <= Cardinality(owned[n]) + 1
  <2>1. PICK i \in 1 .. Len(L) : m = L[i]
    BY <1>1, SeqLen, Zenon DEF Range
  <2>2. PICK j \in 1 .. Len(L) : n = L[j]
    BY <1>1, SeqLen, Zenon DEF Range
  <2> QED BY <1>1, <1>2, <2>1, <2>2, Shares
<1> QED BY <1>3, <1>4, Zenon

LEMMA DealInit ==
  ASSUME NEW L, Init
  PROVE  DealInv(L)
BY Zenon DEF Init, BusInit, DealInv

\* Steps that leave the slots of the nodes and the CLI's place in its loop alone.
LEMMA DealAside ==
  ASSUME NEW L, DealInv(L), UNCHANGED <<owned, job, cpc, pos, first, clean>>
  PROVE  DealInv(L)'
BY DEF DealInv, Has, Creating

\* The next node gets its share, or the request does not reach it.
LEMMA DealDeals ==
  ASSUME NEW L, OneCluster(L), BusInv, CliInv, DealInv(L), DealSlots
  PROVE  DealInv(L)'
<1> DEFINE N == Len(L)
           C == CLUSTER_SLOTS
           n == L[pos]
<1>1. cpc = "slots" /\ Creating /\ first = Border(C, N, pos - 1) /\ DOMAIN owned = Node
  BY Zenon DEF DealSlots, DealInv, BusInv, BusType
<1>2. List = L /\ N \in Nat /\ N > 0 /\ N <= C /\ pos \in 1 .. N
  BY <1>1, ListIs, Zenon DEF CliInv
<1>3. n \in Node /\ \A i \in 1 .. N : L[i] = n => i = pos
  BY <1>2, SeqElement, Zenon DEF OneCluster
<1>4. Last(pos, Len(List), first) = Border(C, N, pos) - 1
  BY <1>1, <1>2, LastIs, Zenon
<1>5. first .. Last(pos, Len(List), first) = Share(L, pos)
  BY <1>1, <1>4, Zenon DEF Share
<1>6. Border(C, N, pos) \in Int /\ first' = Border(C, N, pos)
  <2>1. Border(C, N, pos) \in Int
    BY <1>2, Borders, ClusterBusAssumption
  <2>2. first' = Last(pos, Len(List), first) + 1
    BY Zenon DEF DealSlots
  <2> QED BY <1>4, <2>1, <2>2
<1>7. owned[n] = {} \/ owned[n] = Share(L, pos)
  BY <1>3, Zenon DEF DealInv, Has
<1>8. \/ owned' = [owned EXCEPT ![n] = Share(L, pos)]
      \/ owned' = owned /\ ~clean'
  <2>1. CASE AddSlotsRange(n, first, Last(pos, Len(List), first))
    <3>1. owned' = [owned EXCEPT ![n] = owned[n] \cup Share(L, pos)]
      BY <1>5, <2>1, Zenon DEF AddSlotsRange
    <3>2. owned[n] \cup Share(L, pos) = Share(L, pos)
      BY <1>7
    <3> QED BY <3>1, <3>2, Zenon
  <2>2. CASE ~Connected(n) /\ UNCHANGED busVars
    BY <1>2, <2>2, Zenon DEF DealSlots, busVars
  <2> QED BY <1>2, <2>1, <2>2, Zenon DEF DealSlots
<1>9. \A i \in 1 .. N : Has(L, i) => Has(L, i)'
  <2> SUFFICES ASSUME NEW i \in 1 .. N, owned[L[i]] = Share(L, i) PROVE owned'[L[i]] = Share(L, i)
    BY DEF Has
  <2>1. L[i] \in Node
    BY <1>2, SeqElement, Zenon DEF OneCluster
  <2> QED BY <1>1, <1>3, <1>8, <2>1, Zenon
<1>10. clean' => owned'[n] = Share(L, pos) /\ clean
  <2>1. clean' => clean
    BY Zenon DEF DealSlots
  <2>2. clean' => owned'[n] = Share(L, pos)
    BY <1>1, <1>3, <1>8, Zenon
  <2> QED BY <2>1, <2>2, Zenon
<1>11. \A m \in Node : owned'[m] = {} \/ \E i \in 1 .. N : m = L[i] /\ Has(L, i)'
  <2> SUFFICES ASSUME NEW m \in Node PROVE owned'[m] = {} \/ \E i \in 1 .. N : m = L[i] /\ Has(L, i)'
    BY Zenon
  <2>1. CASE m = n /\ owned' # owned
    BY <1>1, <1>2, <1>3, <1>8, <2>1, Zenon DEF Has
  <2>2. CASE m # n \/ owned' = owned
    <3>1. owned'[m] = owned[m]
      BY <1>1, <1>8, <2>2, Zenon
    <3> QED BY <1>9, <3>1, Zenon DEF DealInv
  <2> QED BY <2>1, <2>2, Zenon
<1>12. clean' => \A i \in 1 .. pos : Has(L, i)'
  <2> SUFFICES ASSUME clean', NEW i \in 1 .. pos PROVE Has(L, i)'
    OBVIOUS
  <2>1. CASE i = pos
    BY <1>10, <2>1, Zenon DEF Has
  <2>2. CASE i # pos
    <3>1. i \in 1 .. pos - 1 /\ i \in 1 .. N
      BY <1>2, <2>2
    <3> QED BY <1>1, <1>9, <1>10, <3>1, Zenon DEF DealInv
  <2> QED BY <2>1, <2>2, Zenon
<1>13. Creating'
  BY <1>1, Zenon DEF DealSlots, Creating
<1>14. CASE pos < N
  <2>1. cpc' = "slots" /\ pos' - 1 = pos
    BY <1>1, <1>2, <1>14 DEF DealSlots
  <2>2. first' = Border(C, N, pos' - 1) /\ (clean' => \A i \in 1 .. pos' - 1 : Has(L, i)')
    BY <1>6, <1>12, <2>1, Zenon
  <2> QED BY <1>11, <1>13, <2>1, <2>2, Zenon DEF DealInv
<1>15. CASE pos = N
  <2>1. cpc' = "meet"
    BY <1>1, <1>2, <1>15 DEF DealSlots
  <2> QED BY <1>11, <1>12, <1>15, <2>1, Zenon DEF DealInv
<1> QED BY <1>2, <1>14, <1>15

\* The other steps of the CLI.
LEMMA DealCli ==
  ASSUME NEW L, OneCluster(L), BusInv, CliInv, DealInv(L), Cli \/ Break
  PROVE  DealInv(L)'
<1>1. ASSUME UNCHANGED owned
      PROVE  \A n \in Node : owned'[n] = {} \/ \E i \in 1 .. Len(L) : n = L[i] /\ Has(L, i)'
  BY <1>1, Zenon DEF DealInv, Has
<1>2. ASSUME NEW r, End(r), UNCHANGED owned PROVE DealInv(L)'
  <2>1. cpc' = "idle" /\ first' = 0
    BY <1>2, Zenon DEF End
  <2> QED BY <1>1, <1>2, <2>1, Zenon DEF DealInv
<1>3. ASSUME NEW i, Meet(i), cpc \in {"meet", "wait"} PROVE DealInv(L)'
  <2>1. cpc' = "wait" /\ UNCHANGED <<owned, job, clean>>
    BY <1>3, Zenon DEF Meet, ClusterStartHandshake
  <2>2. Creating' /\ clean' => \A j \in 1 .. Len(L) : Has(L, j)'
    BY <1>3, <2>1, Zenon DEF DealInv, Has, Creating
  <2> QED BY <1>1, <2>1, <2>2, Zenon DEF DealInv
<1>4. CASE StartJob
  <2>1. UNCHANGED <<owned, first>> /\ cpc' \in {"idle", "dial"} /\ cpc = "idle"
    BY <1>4, Zenon DEF StartJob, busVars
  <2> QED BY <1>1, <2>1, Zenon DEF DealInv
<1>5. CASE DialNode
  <2>0. UNCHANGED owned /\ cpc = "dial" /\ first = 0
    BY <1>5, Zenon DEF DialNode, busVars, DealInv
  <2>1. CASE Creating /\ pos < Len(List) /\ UNCHANGED <<job, cpc, first, clean>>
    BY <1>1, <2>0, <2>1, Zenon DEF DealInv
  <2>2. CASE Creating /\ cpc' = "slots" /\ pos' = 1 /\ UNCHANGED <<job, first>>
    <3>1. Len(L) \in Nat /\ Len(L) > 0 /\ CLUSTER_SLOTS \in Nat /\ CLUSTER_SLOTS >= Len(L)
      BY <2>0, <2>2, ListIs, ClusterBusAssumption, Zenon
    <3>2. Border(CLUSTER_SLOTS, Len(L), 0) = 0
      BY <3>1, Borders, Zenon
    <3>3. /\ Creating' /\ first' = Border(CLUSTER_SLOTS, Len(L), pos' - 1)
          /\ \A i \in 1 .. pos' - 1 : Has(L, i)'
      BY <2>0, <2>2, <3>2 DEF Creating
    <3> QED BY <1>1, <2>0, <2>2, <3>3, Zenon DEF DealInv
  <2>3. CASE ~Creating /\ cpc' = "meet" /\ UNCHANGED job
    BY <1>1, <2>0, <2>3, Zenon DEF DealInv, Creating
  <2>4. CASE End("error")
    BY <1>2, <2>0, <2>4, Zenon
  <2> QED BY <1>5, <2>1, <2>2, <2>3, <2>4, Zenon DEF DialNode
<1>6. CASE DealSlots
  BY <1>6, DealDeals, Zenon
<1>7. CASE FirstMeet
  BY <1>2, <1>3, <1>7, Zenon DEF FirstMeet, busVars
<1>8. CASE MeetReply
  BY <1>2, <1>3, <1>8, Zenon DEF MeetReply, busVars
<1>9. CASE Break
  BY <1>9, DealAside, Zenon DEF Break, busVars
<1> QED BY <1>4, <1>5, <1>6, <1>7, <1>8, <1>9, Zenon DEF Cli

\* No step of the bus changes what a node owns.
LEMMA BusKeepsSlots ==
  ASSUME BusStep
  PROVE  UNCHANGED owned
<1>1. ASSUME NEW n \in Node, Crash(n) PROVE UNCHANGED owned
  BY <1>1, Zenon DEF Crash
<1>2. ASSUME NEW l \in Meets, DialFails(l) \/ DialOk(l) \/ ClusterCron(l[1], l)
      PROVE  UNCHANGED owned
  BY <1>2, Zenon DEF DialFails, DialOk, ClusterCron
<1>3. ASSUME NEW l \in Meets, NEW n \in Ends(l), ProcessSender(l, n) \/ ProcessGossip(l, n)
      PROVE  UNCHANGED owned
  BY <1>3, Zenon DEF ProcessSender, ProcessGossip
<1> QED BY <1>1, <1>2, <1>3, Zenon DEF BusStep

LEMMA DealStep ==
  ASSUME NEW L, OneCluster(L), BusInv, CliInv, DealInv(L), [Next]_vars
  PROVE  DealInv(L)'
<1>1. CASE Cli \/ Break
  BY <1>1, DealCli, Zenon
<1>2. CASE BusStep /\ UNCHANGED cliVars
  <2>1. UNCHANGED owned
    BY <1>2, BusKeepsSlots, Zenon
  <2> QED BY <1>2, <2>1, DealAside, Zenon DEF cliVars
<1>3. CASE UNCHANGED vars
  BY <1>3, DealAside, Zenon DEF vars, busVars, cliVars
<1> QED BY <1>1, <1>2, <1>3, Zenon DEF Next

\* --create-cluster, called as often as one likes with the same nodes and breaking off
\* anywhere, leaves each slot with exactly one owner and the shares even once every
\* request of a call was answered, for any number of nodes and slots (main.go:393-460).
THEOREM SlotsCorrect ==
  ASSUME NEW L \in Seq(Node), Len(L) <= CLUSTER_SLOTS,
         \A i, j \in 1 .. Len(L) : L[i] = L[j] => i = j,
         \A j \in 1 .. Len(Jobs) :
           Jobs[j].cmd = "create" /\ Len(Jobs[j].nodes) >= 3 => Jobs[j].nodes = L
  PROVE  Spec => []SlotsDealt
<1>0. OneCluster(L)
  BY DEF OneCluster
<1>1. Init => DealInv(L)
  BY DealInit, Zenon
<1>2. BusInv /\ CliInv /\ DealInv(L) /\ [Next]_vars => DealInv(L)'
  BY <1>0, DealStep, Zenon
<1>3. CliInv /\ DealInv(L) => SlotsDealt
  BY <1>0, DealMeaning, Zenon
<1> QED BY <1>1, <1>2, <1>3, InvAll, PTL DEF Spec

-----------------------------------------------------------------------------
(***************************************************************************)
(* Redirections.  What a node has heard of another one's slots, and what   *)
(* is on its way to it, may be old; but a node gives no slot away here, so *)
(* it is never wrong, and with at most one owner of a slot it names that   *)
(* one.                                                                    *)
(***************************************************************************)
SlotsHeard(l, n) ==
  /\ bitmap[l][n] \subseteq owned[Peer(l, n)]
  /\ \A i \in 1 .. Len(wire[l][n]) : wire[l][n][i].slots \subseteq owned[Peer(l, n)]

AllHeard == \A l \in Meets : \A n \in Ends(l) : SlotsHeard(l, n)

\* Nobody loses a slot.
SlotsKept == \A n \in Node : owned[n] \subseteq owned'[n]

\* The messages to node n after a step: old ones, and those that tell what the other end owns.
Tells(l, n) ==
  \A i \in 1 .. Len(wire'[l][n]) :
    \/ wire'[l][n][i].slots = owned[Peer(l, n)]
    \/ \E j \in 1 .. Len(wire[l][n]) : wire'[l][n][i] = wire[l][n][j]

LEMMA HeardInit == BusInit => AllHeard
<1> SUFFICES ASSUME BusInit, NEW l \in Meets, NEW n \in Ends(l) PROVE SlotsHeard(l, n)
  BY Zenon DEF AllHeard
<1>1. bitmap[l][n] = {} /\ wire[l][n] = <<>>
  BY PerEndShape, Zenon DEF BusInit
<1>2. 1 .. Len(<<>>) = {}
  BY SeqEmpty
<1> QED BY <1>1, <1>2, Zenon DEF SlotsHeard

LEMMA HeardKept ==
  ASSUME AllHeard, SlotsKept, NEW l \in Meets, NEW n \in Ends(l), Tells(l, n),
         \/ bitmap'[l][n] = bitmap[l][n]
         \/ \E j \in 1 .. Len(wire[l][n]) : bitmap'[l][n] = wire[l][n][j].slots
  PROVE  SlotsHeard(l, n)'
<1> DEFINE p == Peer(l, n)
<1>1. p \in Node
  BY LinkFacts DEF Peer
<1>2. owned[p] \subseteq owned'[p] /\ SlotsHeard(l, n)
  BY <1>1, Zenon DEF SlotsKept, AllHeard
<1>3. bitmap'[l][n] \subseteq owned[p]
  BY <1>2 DEF SlotsHeard
<1>4. ASSUME NEW i \in 1 .. Len(wire'[l][n]) PROVE wire'[l][n][i].slots \subseteq owned[p]
  <2>1. CASE wire'[l][n][i].slots = owned[p]
    BY <2>1
  <2>2. ASSUME NEW j \in 1 .. Len(wire[l][n]), wire'[l][n][i] = wire[l][n][j]
        PROVE  wire'[l][n][i].slots \subseteq owned[p]
    <3>1. wire[l][n][j].slots \subseteq owned[p]
      BY <1>2, Zenon DEF SlotsHeard
    <3> QED BY <2>2, <3>1, Zenon
  <2> QED BY <2>1, <2>2, Zenon DEF Tells
<1> HIDE DEF p
<1>5. \A i \in 1 .. Len(wire'[l][n]) : wire'[l][n][i].slots \subseteq owned'[p]
  BY <1>2, <1>4, Zenon
<1> QED BY <1>2, <1>3, <1>5, Zenon DEF SlotsHeard, p

\* A queue that is left alone, that has got a message or that has lost its first one.
LEMMA TellsSame ==
  ASSUME NEW l, NEW n, wire'[l][n] = wire[l][n]
  PROVE  Tells(l, n)
BY Zenon DEF Tells

LEMMA TellsNew ==
  ASSUME NEW l, NEW n, NEW S, wire[l][n] \in Seq(S), NEW m \in S,
         m.slots = owned[Peer(l, n)], wire'[l][n] = Append(wire[l][n], m)
  PROVE  Tells(l, n)
<1> DEFINE old == wire[l][n]  new == wire'[l][n]
<1>1. PutIn(S, old, m, new)
  BY Zenon DEF PutIn
<1> HIDE DEF old, new
<1>2. Among(new, old, m)
  BY <1>1, Enqueued, Zenon
<1> QED BY <1>2, Zenon DEF Among, Tells, old, new

LEMMA TellsLess ==
  ASSUME NEW l, NEW n, NEW S, wire[l][n] \in Seq(S), wire[l][n] # <<>>,
         wire'[l][n] = Tail(wire[l][n])
  PROVE  Tells(l, n) /\ \E j \in 1 .. Len(wire[l][n]) : Head(wire[l][n]) = wire[l][n][j]
<1> DEFINE q == wire[l][n]
<1>1. q \in Seq(S) /\ q # <<>>
  OBVIOUS
<1> HIDE DEF q
<1>2. /\ \E j \in 1 .. Len(q) : Head(q) = q[j]
      /\ \A i \in 1 .. Len(Tail(q)) : \E j \in 1 .. Len(q) : Tail(q)[i] = q[j]
  BY <1>1, Dequeued, Zenon
<1>3. wire'[l][n] = Tail(q) /\ wire[l][n] = q
  BY DEF q
<1> QED BY <1>2, <1>3 DEF Tells

LEMMA HeardBusStep ==
  ASSUME BusInv, BusInv', AllHeard, BusStep
  PROVE  AllHeard'
<1>0. SlotsKept
  BY BusKeepsSlots DEF SlotsKept
<1> SUFFICES ASSUME NEW k \in Meets, NEW j \in Ends(k) PROVE SlotsHeard(k, j)'
  BY Zenon DEF AllHeard
<1>1. ASSUME UNCHANGED <<wire, bitmap>> PROVE SlotsHeard(k, j)'
  BY <1>0, <1>1, TellsSame, HeardKept, Zenon
<1>2. ASSUME NEW l \in Meets, DialOk(l) \/ ClusterCron(l[1], l) PROVE SlotsHeard(k, j)'
  <2>1. /\ wire[l][l[2]] \in Seq(MessagesTo(l, l[2])) /\ Only(wire, wire', l, l[2])
        /\ UNCHANGED bitmap /\ Peer(l, l[2]) = l[1]
    BY <1>2, PingEffect, LinkFacts, Zenon
  <2>2. PICK m \in MessagesTo(l, l[2]) :
          wire'[l][l[2]] = Append(wire[l][l[2]], m) /\ m.slots = owned[l[1]]
    BY <1>2, PingEffect, Zenon
  <2>3. Tells(l, l[2])
    BY <2>1, <2>2, TellsNew, Zenon
  <2>4. Tells(k, j)
    <3>1. CASE k = l /\ j = l[2]
      BY <2>3, <3>1
    <3>2. CASE k # l \/ j # l[2]
      BY <2>1, <3>2, TellsSame DEF Only
    <3> QED BY <3>1, <3>2
  <2> QED BY <1>0, <2>1, <2>4, HeardKept, Zenon
<1>3. ASSUME NEW l \in Meets, NEW n \in Ends(l), ProcessSender(l, n) PROVE SlotsHeard(k, j)'
  <2>1. /\ wire[l][n] \in Seq(MessagesTo(l, n)) /\ wire[l][n] # <<>>
        /\ wire'[l][n] = Tail(wire[l][n]) /\ Only(wire, wire', l, n)
        /\ bitmap'[l][n] = Head(wire[l][n]).slots /\ Only(bitmap, bitmap', l, n)
    BY <1>3, SenderEffect
  <2>2. CASE k # l \/ j # n
    <3>1. wire'[k][j] = wire[k][j] /\ bitmap'[k][j] = bitmap[k][j]
      BY <2>1, <2>2, Zenon DEF Only
    <3> QED BY <1>0, <3>1, TellsSame, HeardKept
  <2>3. CASE k = l /\ j = n
    <3>1. Tells(l, n) /\ \E i \in 1 .. Len(wire[l][n]) : Head(wire[l][n]) = wire[l][n][i]
      BY <2>1, TellsLess, Zenon
    <3>2. \E i \in 1 .. Len(wire[l][n]) : bitmap'[l][n] = wire[l][n][i].slots
      BY <2>1, <3>1, Zenon
    <3>3. SlotsHeard(l, n)'
      BY <1>0, <3>1, <3>2, HeardKept, Zenon
    <3> QED BY <2>3, <3>3, Zenon
  <2> QED BY <2>2, <2>3
<1>4. ASSUME NEW l \in Meets, NEW n \in Ends(l), ProcessGossip(l, n) PROVE SlotsHeard(k, j)'
  <2>1. UNCHANGED bitmap /\ Peer(l, l[1]) = l[2]
    BY <1>4, GossipEffect, LinkFacts, Zenon
  <2>2. CASE UNCHANGED wire
    BY <1>1, <2>1, <2>2, Zenon
  <2>3. ASSUME wire[l][l[1]] \in Seq(MessagesTo(l, l[1])), Only(wire, wire', l, l[1]),
               NEW m \in MessagesTo(l, l[1]), m.slots = owned[l[2]],
               wire'[l][l[1]] = Append(wire[l][l[1]], m)
        PROVE  Tells(k, j)
    <3>1. Tells(l, l[1])
      BY <2>1, <2>3, TellsNew, Zenon
    <3>2. CASE k = l /\ j = l[1]
      BY <3>1, <3>2, Zenon
    <3>3. CASE k # l \/ j # l[1]
      <4>1. wire'[k][j] = wire[k][j]
        BY <2>3, <3>3, Zenon DEF Only
      <4> QED BY <4>1, TellsSame, Zenon
    <3> QED BY <3>2, <3>3, Zenon
  <2>4. UNCHANGED wire \/ Tells(k, j)
    BY <1>4, <2>3, GossipEffect, Zenon
  <2> QED BY <1>0, <2>1, <2>2, <2>4, HeardKept, Zenon
<1>5. ASSUME NEW n \in Node, Crash(n) PROVE SlotsHeard(k, j)'
  BY <1>1, <1>5, Zenon DEF Crash
<1>6. ASSUME NEW l \in Meets, DialFails(l) PROVE SlotsHeard(k, j)'
  BY <1>1, <1>6, Zenon DEF DialFails
<1> QED BY <1>2, <1>3, <1>4, <1>5, <1>6, Zenon DEF BusStep

LEMMA HeardStep ==
  ASSUME BusInv, CliInv, AllHeard, [Next]_vars
  PROVE  AllHeard'
<1>0. BusInv'
  BY StepAll, Zenon
<1>1. ASSUME SlotsKept, UNCHANGED <<wire, bitmap>> PROVE AllHeard'
  BY <1>1, TellsSame, HeardKept, Zenon DEF AllHeard
<1>2. CASE Cli \/ Break
  <2>1. SlotsKept
    <3>1. CASE DealSlots
      BY <3>1, Zenon DEF DealSlots, AddSlotsRange, busVars, SlotsKept, BusInv, BusType
    <3>2. CASE StartJob \/ DialNode \/ Break
      BY <3>2, Zenon DEF StartJob, DialNode, Break, busVars, SlotsKept
    <3>3. CASE FirstMeet \/ MeetReply
      BY <3>3, Zenon DEF FirstMeet, MeetReply, Meet, ClusterStartHandshake, busVars, SlotsKept
    <3> QED BY <1>2, <3>1, <3>2, <3>3, Zenon DEF Cli
  <2>2. UNCHANGED <<wire, bitmap>>
    BY <1>2, CliMaps, Zenon DEF ClusterStartHandshake
  <2> QED BY <1>1, <2>1, <2>2, Zenon
<1>3. CASE BusStep
  BY <1>0, <1>3, HeardBusStep, Zenon
<1>4. CASE UNCHANGED vars
  BY <1>1, <1>4, Zenon DEF vars, busVars, SlotsKept
<1> QED BY <1>2, <1>3, <1>4, Zenon DEF Next

LEMMA RedirectMeaning ==
  ASSUME NEW L, OneCluster(L), BusInv, DealInv(L), AllHeard
  PROVE  RedirectsRight
<1> SUFFICES ASSUME NEW n \in Node, NEW s \in Slot, NEW r \in GetSlotOwner(n, s) \ {Self}
             PROVE  Owners(s) = {Peer(r, n)}
  BY DEF RedirectsRight
<1>1. r \in Meets /\ r \in Range(nodes[n]) /\ s \in bitmap[r][n]
  BY Zenon DEF GetSlotOwner
<1>2. PICK x \in DOMAIN nodes[n] : nodes[n][x] = r
  BY <1>1, Zenon DEF Range
<1>3. n \in Ends(r)
  BY <1>1, <1>2, Zenon DEF BusInv, MapInv
<1>4. Peer(r, n) \in Node /\ s \in owned[Peer(r, n)]
  BY <1>1, <1>3, LinkFacts, Zenon DEF AllHeard, SlotsHeard, Peer
<1>5. \A m \in Node : s \in owned[m] => m = Peer(r, n)
  BY <1>4, OneOwner, Zenon
<1> QED BY <1>4, <1>5, Zenon DEF Owners

\* With calls of --create-cluster for one and the same list of nodes and any others of
\* --cluster-add-node, over any links, a node that redirects a client names the only
\* owner of the slot (commands_cluster.go:16-34, state.go:64-84).
THEOREM RedirectsCorrect ==
  ASSUME NEW L \in Seq(Node), Len(L) <= CLUSTER_SLOTS,
         \A i, j \in 1 .. Len(L) : L[i] = L[j] => i = j,
         \A j \in 1 .. Len(Jobs) :
           Jobs[j].cmd = "create" /\ Len(Jobs[j].nodes) >= 3 => Jobs[j].nodes = L
  PROVE  Spec => []RedirectsRight
<1>0. OneCluster(L)
  BY DEF OneCluster
<1>1. Init => DealInv(L) /\ AllHeard
  BY DealInit, HeardInit, Zenon DEF Init
<1>2. BusInv /\ CliInv /\ DealInv(L) /\ AllHeard /\ [Next]_vars => DealInv(L)' /\ AllHeard'
  BY <1>0, DealStep, HeardStep, Zenon
<1>3. BusInv /\ DealInv(L) /\ AllHeard => RedirectsRight
  BY <1>0, RedirectMeaning, Zenon
<1> QED BY <1>1, <1>2, <1>3, InvAll, PTL DEF Spec

-----------------------------------------------------------------------------
(* The reply to CLUSTER SLOTS *)

OwnerOf(n) == [s \in Slot |-> GetSlotOwner(n, s)]

LEMMA RangeEndIs ==
  ASSUME NEW n, NEW start \in Slot
  PROVE  EndsAt(CLUSTER_SLOTS, OwnerOf(n), OwnerOf(n)[start], start, RangeEnd(n, start))
<1> DEFINE o == OwnerOf(n)
           v == GetSlotOwner(n, start)
           next(f, e) == IF e + 1 \in Slot /\ GetSlotOwner(n, e + 1) = v THEN f[e + 1] ELSE e
           end == CHOOSE f : f = [e \in Slot |-> next(f, e)]
<1>0. CLUSTER_SLOTS \in Nat /\ Slot = 0 .. CLUSTER_SLOTS - 1
  BY ClusterBusAssumption DEF Slot
<1>1. RangeEnd(n, start) = end[start]
  BY Zenon DEF RangeEnd
<1>2. \A s \in Slot : o[s] = GetSlotOwner(n, s)
  BY Zenon DEF OwnerOf
<1>3. o[start] = v
  BY <1>2
<1> HIDE DEF o, v
<1>4. ASSUME NEW f PROVE Scan(CLUSTER_SLOTS, o, v, f) <=> f = [e \in Slot |-> next(f, e)]
  <2> DEFINE step(e) == IF e + 1 \in Slot /\ o[e + 1] = v THEN f[e + 1] ELSE e
  <2>1. \A e \in Slot : step(e) = next(f, e)
    BY <1>2, Zenon
  <2>2. Scan(CLUSTER_SLOTS, o, v, f) <=> f = [e \in Slot |-> step(e)]
    BY <1>0, Zenon DEF Scan
  <2> HIDE DEF step, next
  <2>3. [e \in Slot |-> step(e)] = [e \in Slot |-> next(f, e)]
    BY <2>1, Zenon
  <2> QED BY <2>2, <2>3, Zenon
<1>5. \E f : Scan(CLUSTER_SLOTS, o, v, f)
  BY <1>0, ScanExists, Zenon
<1> HIDE DEF next
<1>6. end = [e \in Slot |-> next(end, e)]
  BY <1>4, <1>5, Zenon
<1> HIDE DEF end
<1>7. Scan(CLUSTER_SLOTS, o, v, end)
  BY <1>4, <1>6, Zenon
<1>8. EndsAt(CLUSTER_SLOTS, o, v, start, end[start])
  BY <1>0, <1>7, ScanIs, Zenon
<1> QED BY <1>1, <1>3, <1>8, Zenon DEF o

LEMMA ClusterSlotsIs ==
  ASSUME NEW n
  PROVE  Lists(clusterSlots(n), Maximal(CLUSTER_SLOTS, OwnerOf(n), Known(n), 0))
<1> DEFINE C == CLUSTER_SLOTS
           K == Known(n)
           nx == [s \in Slot |-> RangeEnd(n, s)]
           range(s) == <<s, RangeEnd(n, s), GetSlotOwner(n, s)>>
           h == [s \in Slot |-> range(s)]
           X == {range(s) : s \in Slot}
           next(f, i) == IF i = C THEN <<>>
                         ELSE IF GetSlotOwner(n, i) = {} THEN f[i + 1]
                         ELSE <<range(i)>> \o f[RangeEnd(n, i) + 1]
           ranges == CHOOSE f : f = [i \in 0 .. C |-> next(f, i)]
<1>0. C \in Nat /\ Slot = 0 .. C - 1
  BY ClusterBusAssumption DEF Slot
<1>1. clusterSlots(n) = ranges[0]
  BY Zenon DEF clusterSlots
<1>2. \A s \in Slot : nx[s] = RangeEnd(n, s) /\ h[s] = range(s) /\ h[s][1] = s /\ h[s][2] = RangeEnd(n, s)
  OBVIOUS
<1>3. \A s \in Slot : EndsAt(C, OwnerOf(n), OwnerOf(n)[s], s, nx[s])
  BY <1>2, RangeEndIs, Zenon
<1>4. h \in [Slot -> X]
  BY Zenon
<1>5. \A s \in Slot : s \in K <=> GetSlotOwner(n, s) # {}
  BY Zenon DEF Known
<1>6. OwnerTells(C, OwnerOf(n), K)
  <2>1. \A s \in Slot : OwnerOf(n)[s] = GetSlotOwner(n, s)
    BY Zenon DEF OwnerOf
  <2>2. K \subseteq Slot
    BY DEF Known
  <2> HIDE DEF K
  <2> QED BY <1>0, <1>5, <2>1, <2>2, Zenon DEF OwnerTells
<1>7. nx \in [Slot -> Slot] /\ \A s \in Slot : s <= nx[s]
  <2> HIDE DEF nx
  <2>1. \A s \in Slot : nx[s] \in Slot /\ s <= nx[s]
    BY <1>0, <1>3 DEF EndsAt
  <2>2. nx = [s \in Slot |-> nx[s]]
    BY DEF nx
  <2> QED BY <2>1, <2>2, Zenon
<1> HIDE DEF K, nx, h, X, range
<1>8. Jumps(C, X, nx, h)
  BY <1>0, <1>4, <1>7, Zenon DEF Jumps
<1>9. ASSUME NEW f PROVE Listing(C, K, nx, h, f) <=> f = [i \in 0 .. C |-> next(f, i)]
  <2>1. ASSUME NEW i \in 0 .. C PROVE Listed(C, K, nx, h, f, i) = next(f, i)
    <3>1. CASE i = C
      BY <3>1, Zenon DEF Listed
    <3>2. CASE i # C
      <4>1. i \in Slot
        BY <1>0, <3>2
      <4>2. nx[i] = RangeEnd(n, i) /\ h[i] = range(i)
        BY <1>2, <4>1, Zenon
      <4>3. CASE i \in K
        BY <1>5, <3>2, <4>1, <4>2, <4>3, Zenon DEF Listed
      <4>4. CASE i \notin K
        BY <1>5, <3>2, <4>1, <4>4, Zenon DEF Listed
      <4> QED BY <4>3, <4>4, Zenon
    <3> QED BY <3>1, <3>2, Zenon
  <2> HIDE DEF next
  <2>2. [i \in 0 .. C |-> Listed(C, K, nx, h, f, i)] = [i \in 0 .. C |-> next(f, i)]
    BY <2>1, Zenon
  <2> QED BY <2>2, Zenon DEF Listing
<1> HIDE DEF C, next
<1>10. \E f : Listing(C, K, nx, h, f)
  BY <1>0, <1>8, ListingExists, Zenon
<1>11. ranges = [i \in 0 .. C |-> next(ranges, i)]
  BY <1>9, <1>10, Zenon
<1> HIDE DEF ranges
<1>12. Listing(C, K, nx, h, ranges)
  BY <1>9, <1>11, Zenon
<1>13. \A i \in K : EndsAt(C, OwnerOf(n), OwnerOf(n)[i], i, nx[i]) /\ h[i][1] = i /\ h[i][2] = nx[i]
  <2>1. \A i \in K : i \in Slot
    BY Zenon DEF K, Known
  <2> QED BY <1>2, <1>3, <2>1, Zenon
<1>14. Lists(ranges[0], Maximal(C, OwnerOf(n), K, 0))
  BY <1>0, <1>6, <1>8, <1>12, <1>13, ListingIs, Zenon
<1> QED BY <1>1, <1>14, Zenon DEF C, K

\* commands_cluster.go:36-53: in every state, whatever slots a node and its peers have, its
\* reply to CLUSTER SLOTS lists exactly the maximal ranges of slots with one owner, each once
\* and in ascending order: the inner loop stops neither early nor late, the outer one goes on
\* at the right slot, and the last slot is not lost.
THEOREM RangesCorrect == Spec => []RangesExact
<1>1. RangesExact
  <2> DEFINE U(n, a, b) == \A s \in a .. b : GetSlotOwner(n, s) = GetSlotOwner(n, a)
             isMaximal(n, a, b) == /\ a <= b /\ a \in Known(n) /\ U(n, a, b)
                                   /\ a > 0 => ~U(n, a - 1, b)
                                   /\ b + 1 \in Slot => ~U(n, a, b + 1)
             maximal(n) == {r \in Slot \X Slot : isMaximal(n, r[1], r[2])}
  <2>1. ASSUME NEW n, NEW a \in Slot, NEW b \in Slot PROVE U(n, a, b) <=> Uniform(OwnerOf(n), a, b)
    <3>1. a \in Slot /\ \A s \in a .. b : s \in Slot
      <4>1. CLUSTER_SLOTS \in Nat
        BY ClusterBusAssumption, Zenon
      <4> QED BY <4>1 DEF Slot
    <3>2. \A s \in Slot : OwnerOf(n)[s] = GetSlotOwner(n, s)
      BY Zenon DEF OwnerOf
    <3> QED BY <3>1, <3>2, Zenon DEF Uniform
  <2> HIDE DEF U
  <2>2. ASSUME NEW n, NEW a \in Slot, NEW b \in Slot
        PROVE  isMaximal(n, a, b) <=> IsMaximal(CLUSTER_SLOTS, OwnerOf(n), Known(n), a, b)
    <3>1. Slot = 0 .. CLUSTER_SLOTS - 1 /\ (a > 0 => a - 1 \in Slot)
      BY ClusterBusAssumption DEF Slot
    <3>2. U(n, a, b) <=> Uniform(OwnerOf(n), a, b)
      BY <2>1, Zenon
    <3>3. a > 0 => (U(n, a - 1, b) <=> Uniform(OwnerOf(n), a - 1, b))
      BY <2>1, <3>1, Zenon
    <3>4. b + 1 \in Slot => (U(n, a, b + 1) <=> Uniform(OwnerOf(n), a, b + 1))
      BY <2>1
    <3> QED BY <3>1, <3>2, <3>3, <3>4, Zenon DEF IsMaximal
  <2> HIDE DEF isMaximal
  <2>3. ASSUME NEW n PROVE maximal(n) = Maximal(CLUSTER_SLOTS, OwnerOf(n), Known(n), 0)
    <3>1. Slot = 0 .. CLUSTER_SLOTS - 1 /\ \A r \in Slot \X Slot : r[1] \in Slot /\ r[2] \in Slot /\ r[1] >= 0
      BY ClusterBusAssumption DEF Slot
    <3>2. \A r \in Slot \X Slot :
            isMaximal(n, r[1], r[2]) <=>
            r[1] >= 0 /\ IsMaximal(CLUSTER_SLOTS, OwnerOf(n), Known(n), r[1], r[2])
      BY <2>2, <3>1, Zenon
    <3> QED BY <3>1, <3>2, Zenon DEF Maximal
  <2>4. \A n \in Node : Lists(clusterSlots(n), maximal(n))
    BY <2>3, ClusterSlotsIs, Zenon
  <2> QED BY <2>4, Zenon DEF RangesExact, Lists, isMaximal, U
<1> QED BY <1>1, PTL
===============================================================================
