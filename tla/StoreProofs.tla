---------------------------- MODULE StoreProofs ----------------------------
(***************************************************************************)
(* What the commands do to the values under a key and what the clients are *)
(* told, for every set of keys, elements and scores, every width of an int *)
(* and any number of arguments and elements.                               *)
(***************************************************************************)
EXTENDS Store, FiniteSetTheorems, WellFoundedInduction, TLAPS

\* The time, in seconds, that each prover is given for a leaf.
USE SMTT(20), ZenonT(20)

-----------------------------------------------------------------------------
(***************************************************************************)
(* Loops.  A loop over n arguments is a function on 0 .. n that is defined *)
(* by recursion.  The library's theorems on recursion take an operator,    *)
(* which no prover can instantiate, so the step of a loop is a function    *)
(* here: there is one that runs through the loop, and what holds at its    *)
(* start and is kept by each step holds at its end.                        *)
(***************************************************************************)
LEMMA Induction ==
  ASSUME NEW n \in Nat, NEW S, 0 \in S, \A i \in 1..n : i - 1 \in S => i \in S
  PROVE  \A i \in 0..n : i \in S
<1> DEFINE B == {i \in 0..n : i \notin S}
<1> SUFFICES ASSUME B # {} PROVE FALSE
  OBVIOUS
<1>1. B \in SUBSET Nat
  OBVIOUS
<1>2. PICK j \in B : \A i \in B : ~(<<i, j>> \in OpToRel(<, Nat))
  BY <1>1, NatLessThanWellFounded, WFMin, Zenon
<1>3. \A i \in B : ~(i < j)
  BY <1>1, <1>2, Zenon DEF OpToRel
<1>4. j \in 1..n /\ j - 1 \in 0..n /\ j - 1 < j
  OBVIOUS
<1>5. j - 1 \in S
  BY <1>3, <1>4
<1> QED BY <1>4, <1>5

Steps(n, X, g) == g \in [1..n -> [X -> X]]
Runs(n, X, base, g, f) ==
  f \in [0..n -> X] /\ f[0] = base /\ \A i \in 1..n : f[i] = g[i][f[i - 1]]

LEMMA LoopExists ==
  ASSUME NEW n \in Nat, NEW X, NEW base \in X, NEW g, Steps(n, X, g)
  PROVE  \E f : Runs(n, X, base, g, f)
<1>0. g \in [1..n -> [X -> X]]
  BY DEF Steps
<1> DEFINE runs(m, f) == f[0] = base /\ \A i \in 1..m : f[i] = g[i][f[i - 1]]
           S == {m \in 0..n : \E f \in [0..m -> X] : runs(m, f)}
<1>1. 0 \in S
  <2> DEFINE f == [i \in 0..0 |-> base]
  <2>1. f \in [0..0 -> X] /\ runs(0, f) /\ 0 \in 0..n
    OBVIOUS
  <2> HIDE DEF f, runs
  <2> QED BY <2>1
<1>2. ASSUME NEW m \in 1..n, m - 1 \in S PROVE m \in S
  <2>1. PICK f \in [0..(m - 1) -> X] : runs(m - 1, f)
    BY <1>2
  <2> DEFINE h == [i \in 0..m |-> IF i < m THEN f[i] ELSE g[m][f[m - 1]]]
  <2>2. f[m - 1] \in X /\ g[m][f[m - 1]] \in X
    BY <1>0
  <2>3. h \in [0..m -> X]
    BY <2>2
  <2>4. h[0] = base
    BY <2>1
  <2>5. ASSUME NEW i \in 1..m PROVE h[i] = g[i][h[i - 1]]
    <3>1. i - 1 \in 0..m /\ i - 1 < m /\ i - 1 \in 0..(m - 1) /\ i \in 0..m
      OBVIOUS
    <3>2. h[i - 1] = f[i - 1]
      BY <3>1
    <3>3. CASE i = m
      BY <3>2, <3>3
    <3>4. CASE i # m
      <4>1. i \in 1..(m - 1) /\ h[i] = f[i]
        BY <3>1, <3>4
      <4> QED BY <2>1, <3>2, <4>1
    <3> QED BY <3>3, <3>4
  <2>6. runs(m, h)
    BY <2>4, <2>5, Zenon
  <2>7. m \in 0..n
    OBVIOUS
  <2> HIDE DEF h, runs
  <2> QED BY <2>3, <2>6, <2>7
<1>3. n \in S
  <2> HIDE DEF S
  <2>1. \A i \in 1..n : i - 1 \in S => i \in S
    BY <1>2
  <2>2. \A i \in 0..n : i \in S
    BY <1>1, <2>1, Induction
  <2> QED BY <2>2
<1> QED BY <1>3 DEF Runs

\* removeMembers and addMembers.
Members == [set : SUBSET Element, n : Nat]

LEMMA RemoveLoop ==
  ASSUME NEW set \in SUBSET Element, NEW args \in Seq(Element)
  PROVE  \E f : /\ f[0] = [set |-> set, n |-> 0]
                /\ \A i \in 1..Len(args) : f[i] = removeMember(f[i - 1], args[i])
                /\ removeMembers(set, args) = f[Len(args)]
<1> DEFINE n == Len(args)
           base == [set |-> set, n |-> 0]
           step(x, m) == removeMember(x, m)
           g == [i \in 1..n |-> [x \in Members |-> step(x, args[i])]]
<1>1. n \in Nat /\ base \in Members
  BY DEF Members
<1>2. \A x \in Members : \A m \in Element : step(x, m) \in Members
  BY DEF Members, removeMember
<1>3. removeMembers(set, args) =
        (CHOOSE acc : acc = [i \in 0..n |-> IF i = 0 THEN base ELSE step(acc[i - 1], args[i])])[n]
  BY DEF removeMembers, ForEach
<1> HIDE DEF step, base, n
<1>4. \A i \in 1..n : args[i] \in Element
  BY DEF n
<1>5. Steps(n, Members, g)
  BY <1>2, <1>4 DEF Steps
<1>6. \A i \in 1..n : \A x \in Members : g[i][x] = step(x, args[i])
  <2> TAKE i \in 1..n
  <2>1. g[i] = [x \in Members |-> step(x, args[i])]
    OBVIOUS
  <2> HIDE DEF g
  <2> QED BY <2>1
<1> HIDE DEF g
<1>7. PICK f : Runs(n, Members, base, g, f)
  BY <1>1, <1>5, LoopExists
<1>8. f = [i \in 0..n |-> IF i = 0 THEN base ELSE step(f[i - 1], args[i])]
  <2>1. f = [i \in 0..n |-> f[i]] /\ f[0] = base
    BY <1>7 DEF Runs
  <2>2. \A i \in 1..n : f[i - 1] \in Members /\ f[i] = g[i][f[i - 1]]
    BY <1>1, <1>7 DEF Runs
  <2>3. \A i \in 0..n : i # 0 => i \in 1..n
    BY <1>1
  <2>4. \A i \in 0..n : f[i] = IF i = 0 THEN base ELSE step(f[i - 1], args[i])
    BY <1>6, <2>1, <2>2, <2>3, Zenon
  <2> QED BY <2>1, <2>4, Zenon
<1> DEFINE acc == CHOOSE acc : acc = [i \in 0..n |-> IF i = 0 THEN base ELSE step(acc[i - 1], args[i])]
<1>9. acc = [i \in 0..n |-> IF i = 0 THEN base ELSE step(acc[i - 1], args[i])]
  BY <1>8, Zenon
<1>10. removeMembers(set, args) = acc[n]
  BY <1>3
<1> HIDE DEF acc
<1>11. acc[0] = base /\ \A i \in 1..n : acc[i] = step(acc[i - 1], args[i])
  BY <1>1, <1>9
<1> QED BY <1>10, <1>11 DEF n, base, step

LEMMA AddLoop ==
  ASSUME NEW set \in SUBSET Element, NEW args \in Seq(Element)
  PROVE  \E f : /\ f[0] = [set |-> set, n |-> 0]
                /\ \A i \in 1..Len(args) : f[i] = addMember(f[i - 1], args[i])
                /\ addMembers(set, args) = f[Len(args)]
<1> DEFINE n == Len(args)
           base == [set |-> set, n |-> 0]
           step(x, m) == addMember(x, m)
           g == [i \in 1..n |-> [x \in Members |-> step(x, args[i])]]
<1>1. n \in Nat /\ base \in Members
  BY DEF Members
<1>2. \A x \in Members : \A m \in Element : step(x, m) \in Members
  BY DEF Members, addMember
<1>3. addMembers(set, args) =
        (CHOOSE acc : acc = [i \in 0..n |-> IF i = 0 THEN base ELSE step(acc[i - 1], args[i])])[n]
  BY DEF addMembers, ForEach
<1> HIDE DEF step, base, n
<1>4. \A i \in 1..n : args[i] \in Element
  BY DEF n
<1>5. Steps(n, Members, g)
  BY <1>2, <1>4 DEF Steps
<1>6. \A i \in 1..n : \A x \in Members : g[i][x] = step(x, args[i])
  <2> TAKE i \in 1..n
  <2>1. g[i] = [x \in Members |-> step(x, args[i])]
    OBVIOUS
  <2> HIDE DEF g
  <2> QED BY <2>1
<1> HIDE DEF g
<1>7. PICK f : Runs(n, Members, base, g, f)
  BY <1>1, <1>5, LoopExists
<1>8. f = [i \in 0..n |-> IF i = 0 THEN base ELSE step(f[i - 1], args[i])]
  <2>1. f = [i \in 0..n |-> f[i]] /\ f[0] = base
    BY <1>7 DEF Runs
  <2>2. \A i \in 1..n : f[i - 1] \in Members /\ f[i] = g[i][f[i - 1]]
    BY <1>1, <1>7 DEF Runs
  <2>3. \A i \in 0..n : i # 0 => i \in 1..n
    BY <1>1
  <2>4. \A i \in 0..n : f[i] = IF i = 0 THEN base ELSE step(f[i - 1], args[i])
    BY <1>6, <2>1, <2>2, <2>3, Zenon
  <2> QED BY <2>1, <2>4, Zenon
<1> DEFINE acc == CHOOSE acc : acc = [i \in 0..n |-> IF i = 0 THEN base ELSE step(acc[i - 1], args[i])]
<1>9. acc = [i \in 0..n |-> IF i = 0 THEN base ELSE step(acc[i - 1], args[i])]
  BY <1>8, Zenon
<1>10. addMembers(set, args) = acc[n]
  BY <1>3
<1> HIDE DEF acc
<1>11. acc[0] = base /\ \A i \in 1..n : acc[i] = step(acc[i - 1], args[i])
  BY <1>1, <1>9
<1> QED BY <1>10, <1>11 DEF n, base, step


LEMMA Sizes == \A S \in SUBSET Element : IsFiniteSet(S) /\ Cardinality(S) \in Nat
BY FS_Subset, FS_CardinalityType, StoreAssumption, Zenon

\* SREM and HDEL: what is left, and how many were removed.
LEMMA Removed ==
  ASSUME NEW set \in SUBSET Element, NEW args \in Seq(Element)
  PROVE  /\ removeMembers(set, args).set \in SUBSET set
         /\ removeMembers(set, args).n \in Nat
         /\ Cardinality(removeMembers(set, args).set) = Cardinality(set) - removeMembers(set, args).n
<1>1. PICK f : /\ f[0] = [set |-> set, n |-> 0]
               /\ \A i \in 1..Len(args) : f[i] = removeMember(f[i - 1], args[i])
               /\ removeMembers(set, args) = f[Len(args)]
  BY RemoveLoop
<1> DEFINE good(x) == /\ x.set \in SUBSET set /\ x.n \in Nat
                      /\ Cardinality(x.set) = Cardinality(set) - x.n
           S == {i \in 0..Len(args) : good(f[i])}
<1>2. Len(args) \in Nat /\ \A i \in 1..Len(args) : args[i] \in Element
  OBVIOUS
<1>3. \A T \in SUBSET set : IsFiniteSet(T) /\ Cardinality(T) \in Nat
  BY Sizes
<1>4. 0 \in S
  BY <1>1, <1>2, <1>3
<1>5. ASSUME NEW x, good(x), NEW m \in Element PROVE good(removeMember(x, m))
  <2>1. CASE m \in x.set
    <3>1. removeMember(x, m).set = x.set \ {m} /\ removeMember(x, m).n = x.n + 1
      BY <2>1 DEF removeMember
    <3>2. Cardinality(x.set \ {m}) = Cardinality(x.set) - 1
      BY <1>3, <1>5, <2>1, FS_RemoveElement, Zenon
    <3>3. Cardinality(set) \in Nat /\ Cardinality(x.set) \in Nat
      BY <1>3, <1>5
    <3> QED BY <1>5, <3>1, <3>2, <3>3
  <2>2. CASE m \notin x.set
    BY <1>5, <2>2 DEF removeMember
  <2> QED BY <2>1, <2>2
<1> HIDE DEF good
<1>6. ASSUME NEW i \in 1..Len(args), i - 1 \in S PROVE i \in S
  <2>1. i \in 0..Len(args) /\ good(f[i - 1]) /\ args[i] \in Element
    BY <1>2, <1>6
  <2> QED BY <1>1, <1>5, <2>1
<1>7. Len(args) \in S
  <2> HIDE DEF S
  <2>1. \A i \in 1..Len(args) : i - 1 \in S => i \in S
    BY <1>6
  <2>2. \A i \in 0..Len(args) : i \in S
    BY <1>2, <1>4, <2>1, Induction, Zenon
  <2> QED BY <1>2, <2>2
<1>8. good(removeMembers(set, args))
  BY <1>1, <1>7
<1> QED BY <1>8 DEF good

\* SADD: what there is then, and how many were added.
LEMMA Added ==
  ASSUME NEW set \in SUBSET Element, NEW args \in Seq(Element)
  PROVE  /\ addMembers(set, args).set \in SUBSET Element
         /\ addMembers(set, args).n \in Nat
         /\ Cardinality(addMembers(set, args).set) = Cardinality(set) + addMembers(set, args).n
         /\ args # <<>> => addMembers(set, args).set # {}
<1>1. PICK f : /\ f[0] = [set |-> set, n |-> 0]
               /\ \A i \in 1..Len(args) : f[i] = addMember(f[i - 1], args[i])
               /\ addMembers(set, args) = f[Len(args)]
  BY AddLoop
<1> DEFINE good(i, x) == /\ x.set \in SUBSET Element /\ x.n \in Nat
                         /\ Cardinality(x.set) = Cardinality(set) + x.n
                         /\ i # 0 => x.set # {}
           S == {i \in 0..Len(args) : good(i, f[i])}
<1>2. Len(args) \in Nat /\ \A i \in 1..Len(args) : args[i] \in Element
  OBVIOUS
<1>3. \A T \in SUBSET Element : IsFiniteSet(T) /\ Cardinality(T) \in Nat
  BY Sizes
<1>4. 0 \in S
  BY <1>1, <1>2, <1>3
<1>5. ASSUME NEW i, NEW j, NEW x, good(i, x), NEW m \in Element PROVE good(j, addMember(x, m))
  <2>1. CASE m \notin x.set
    <3>1. addMember(x, m).set = x.set \cup {m} /\ addMember(x, m).n = x.n + 1
      BY <2>1 DEF addMember
    <3>2. Cardinality(x.set \cup {m}) = Cardinality(x.set) + 1
      BY <1>3, <1>5, <2>1, FS_AddElement
    <3>3. Cardinality(set) \in Nat /\ Cardinality(x.set) \in Nat
      BY <1>3, <1>5
    <3> QED BY <1>5, <3>1, <3>2, <3>3
  <2>2. CASE m \in x.set
    BY <1>5, <2>2 DEF addMember
  <2> QED BY <2>1, <2>2
<1> HIDE DEF good
<1>6. ASSUME NEW i \in 1..Len(args), i - 1 \in S PROVE i \in S
  <2>1. i \in 0..Len(args) /\ good(i - 1, f[i - 1]) /\ args[i] \in Element
    BY <1>2, <1>6
  <2> QED BY <1>1, <1>5, <2>1
<1>7. Len(args) \in S
  <2> HIDE DEF S
  <2>1. \A i \in 1..Len(args) : i - 1 \in S => i \in S
    BY <1>6
  <2>2. \A i \in 0..Len(args) : i \in S
    BY <1>2, <1>4, <2>1, Induction, Zenon
  <2> QED BY <1>2, <2>2
<1>8. good(Len(args), addMembers(set, args))
  BY <1>1, <1>7
<1>9. args # <<>> => Len(args) # 0
  OBVIOUS
<1> QED BY <1>8, <1>9 DEF good

-----------------------------------------------------------------------------
(***************************************************************************)
(* Sorted sets.  zadd changes scores in place, appends the new members and *)
(* sorts by insertion; zrem keeps what it does not remove, in order.       *)
(***************************************************************************)
Member == [score : Score, member : Element]
Distinct(z) == \A i, j \in 1..Len(z) : i < j => z[i].member # z[j].member
Sorted(z) == \A i, j \in 1..Len(z) : i < j => ~Less(z[j], z[i])

LEMMA Least ==
  ASSUME NEW S \in SUBSET Nat, S # {}
  PROVE  Min(S) \in S /\ \A y \in S : Min(S) <= y
<1>1. PICK x \in S : \A y \in S : ~(<<y, x>> \in OpToRel(<, Nat))
  BY NatLessThanWellFounded, WFMin, Zenon
<1>2. \A y \in S : y \in Nat /\ x \in Nat /\ ~(y < x)
  BY <1>1, Zenon DEF OpToRel
<1>3. \A y \in S : x <= y
  BY <1>2
<1> QED BY <1>3, Zenon DEF Min

LEMMA Greatest ==
  ASSUME NEW n \in Nat, NEW S \in SUBSET (1..n), S # {}
  PROVE  Max(S) \in S /\ \A y \in S : Max(S) >= y
<1> DEFINE T == {n - i : i \in S}
<1>1. T \in SUBSET Nat /\ T # {}
  <2>1. \A i \in S : n - i \in Nat
    OBVIOUS
  <2>2. PICK i \in S : TRUE
    BY Zenon
  <2> QED BY <2>1, <2>2
<1>2. Min(T) \in T /\ \A y \in T : Min(T) <= y
  BY <1>1, Least, Zenon
<1>3. PICK x \in S : Min(T) = n - x
  BY <1>2, Zenon
<1>4. \A y \in S : n - y \in T
  OBVIOUS
<1>5. \A y \in S : n - x <= n - y
  BY <1>2, <1>3, <1>4, Zenon
<1>6. \A y \in S : x >= y
  BY <1>5
<1> QED BY <1>6, Zenon DEF Max

\* r is z with x between its first p - 1 elements and the others.
Between(r, z, p, x) ==
  /\ p \in 1..(Len(z) + 1) /\ r \in Seq(Member) /\ Len(r) = Len(z) + 1 /\ r[p] = x
  /\ \A i \in 1..(p - 1) : r[i] = z[i]
  /\ \A i \in (p + 1)..(Len(z) + 1) : r[i] = z[i - 1]

LEMMA Joined ==
  ASSUME NEW c \in Seq(Member), NEW b \in Seq(Member)
  PROVE  /\ c \o b \in Seq(Member) /\ Len(c \o b) = Len(c) + Len(b)
         /\ \A i \in 1..(Len(c) + Len(b)) :
              (c \o b)[i] = IF i <= Len(c) THEN c[i] ELSE b[i - Len(c)]
OBVIOUS

LEMMA InsertIs ==
  ASSUME NEW z \in Seq(Member), NEW x \in Member
  PROVE  \E p \in 1..(Len(z) + 1) :
           /\ Between(Insert(z, x), z, p, x)
           /\ p > 1 => ~Less(x, z[p - 1])
           /\ \A i \in p..Len(z) : Less(x, z[i])
<1> DEFINE stays == {i \in DOMAIN z : ~Less(x, z[i])}
           place == IF stays = {} THEN 0 ELSE Max(stays)
           p == place + 1
<1>1. Insert(z, x) = (SubSeq(z, 1, place) \o <<x>>) \o SubSeq(z, p, Len(z))
  BY DEF Insert
<1>2. Len(z) \in Nat /\ DOMAIN z = 1..Len(z)
  OBVIOUS
<1>3. /\ p \in 1..(Len(z) + 1)
      /\ p > 1 => ~Less(x, z[p - 1])
      /\ \A i \in p..Len(z) : Less(x, z[i])
      /\ p - 1 = place
  <2>0. stays \in SUBSET (1..Len(z)) /\ \A i \in 1..Len(z) : i \in stays <=> ~Less(x, z[i])
    OBVIOUS
  <2>1. CASE stays = {}
    <3>1. p = 1 /\ p - 1 = place
      BY <2>1
    <3> HIDE DEF p, place, stays
    <3> QED BY <1>2, <2>0, <2>1, <3>1
  <2>2. CASE stays # {}
    <3>1. p = Max(stays) + 1 /\ place = Max(stays)
      BY <2>2
    <3> HIDE DEF p, place, stays
    <3>2. Max(stays) \in stays /\ \A y \in stays : Max(stays) >= y
      BY <1>2, <2>0, <2>2, Greatest, Zenon
    <3>3. Max(stays) \in 1..Len(z) /\ p - 1 = Max(stays)
      <4>1. Max(stays) \in 1..Len(z)
        BY <2>0, <3>2, Zenon
      <4> QED BY <1>2, <3>1, <4>1
    <3>4. ~Less(x, z[p - 1]) /\ p \in 1..(Len(z) + 1)
      BY <1>2, <2>0, <3>1, <3>2, <3>3
    <3>5. ASSUME NEW i \in p..Len(z) PROVE Less(x, z[i])
      <4>1. i \in 1..Len(z) /\ ~(Max(stays) >= i)
        BY <1>2, <3>3, <3>1
      <4> QED BY <2>0, <3>2, <4>1
    <3> QED BY <3>1, <3>3, <3>4, <3>5
  <2> QED BY <2>1, <2>2, Zenon
<1> HIDE DEF p, place, stays
<1> DEFINE a == SubSeq(z, 1, p - 1)
           b == SubSeq(z, p, Len(z))
<1>4. Insert(z, x) = (a \o <<x>>) \o b
  BY <1>1, <1>3, Zenon
<1>5. a \in Seq(Member) /\ Len(a) = p - 1 /\ \A i \in 1..(p - 1) : a[i] = z[i]
  BY <1>2, <1>3
<1>6. b \in Seq(Member) /\ Len(b) = Len(z) - p + 1
      /\ \A i \in 1..(Len(z) - p + 1) : b[i] = z[p + i - 1]
  BY <1>2, <1>3
<1> DEFINE c == a \o <<x>>
<1> HIDE DEF a, b
<1>7. c \in Seq(Member) /\ Len(c) = p /\ c[p] = x /\ \A i \in 1..(p - 1) : c[i] = z[i]
  <2>1. c \in Seq(Member) /\ Len(c) = Len(a) + 1
    BY <1>5
  <2>2. c[Len(a) + 1] = x
    BY <1>5
  <2>3. \A i \in 1..Len(a) : c[i] = a[i]
    BY <1>5
  <2> QED BY <1>2, <1>3, <1>5, <2>1, <2>2, <2>3
<1> HIDE DEF c
<1> DEFINE r == c \o b
<1>8. r \in Seq(Member) /\ Len(r) = Len(z) + 1
  <2>1. r \in Seq(Member) /\ Len(r) = Len(c) + Len(b)
    <3> HIDE DEF r
    <3>1. c \in Seq(Member) /\ b \in Seq(Member)
      BY <1>6, <1>7
    <3> QED BY <3>1, Joined DEF r
  <2>2. Len(c) + Len(b) = Len(z) + 1
    BY <1>2, <1>3, <1>6, <1>7
  <2> QED BY <2>1, <2>2
<1>9. \A i \in 1..p : r[i] = c[i]
  BY <1>2, <1>3, <1>6, <1>7
<1>10. ASSUME NEW i \in (p + 1)..(Len(z) + 1) PROVE r[i] = z[i - 1]
  <2>1. i - p \in 1..Len(b) /\ i \in 1..(Len(c) + Len(b)) /\ i > Len(c) /\ i - Len(c) = i - p
    BY <1>2, <1>3, <1>6, <1>7
  <2>2. r[i] = b[i - p]
    <3>1. r[i] = IF i <= Len(c) THEN c[i] ELSE b[i - Len(c)]
      <4> HIDE DEF r
      <4>1. c \in Seq(Member) /\ b \in Seq(Member)
        BY <1>6, <1>7
      <4>2. i \in 1..(Len(c) + Len(b))
        BY <2>1
      <4> QED BY <4>1, <4>2, Joined DEF r
    <3> QED BY <1>7, <2>1, <3>1
  <2>3. b[i - p] = z[p + (i - p) - 1] /\ p + (i - p) - 1 = i - 1
    BY <1>2, <1>3, <1>6, <2>1
  <2> QED BY <2>2, <2>3
<1>11. Insert(z, x) = r
  BY <1>4 DEF c
<1> HIDE DEF r
<1>12. Between(r, z, p, x)
  BY <1>2, <1>3, <1>7, <1>8, <1>9, <1>10 DEF Between
<1> QED BY <1>3, <1>11, <1>12

\* Insertion keeps what it finds and the order of scores.
LEMMA InsertKeeps ==
  ASSUME NEW z \in Seq(Member), NEW x \in Member
  PROVE  /\ Insert(z, x) \in Seq(Member) /\ Len(Insert(z, x)) = Len(z) + 1
         /\ \A i \in 1..(Len(z) + 1) :
              Insert(z, x)[i] = x \/ \E j \in 1..Len(z) : Insert(z, x)[i] = z[j]
         /\ Distinct(z) /\ (\A j \in 1..Len(z) : z[j].member # x.member)
              => Distinct(Insert(z, x))
         /\ NaN \notin Score /\ Sorted(z) => Sorted(Insert(z, x))
<1> DEFINE r == Insert(z, x)
<1>1. PICK p \in 1..(Len(z) + 1) :
           /\ Between(r, z, p, x)
           /\ p > 1 => ~Less(x, z[p - 1])
           /\ \A i \in p..Len(z) : Less(x, z[i])
  BY InsertIs
<1> HIDE DEF r
<1>2. Len(z) \in Nat /\ r \in Seq(Member) /\ Len(r) = Len(z) + 1
  BY <1>1 DEF Between
<1> DEFINE old(i) == IF i < p THEN i ELSE i - 1
<1>3. ASSUME NEW i \in 1..(Len(z) + 1)
      PROVE  (i = p /\ r[i] = x) \/ (i # p /\ old(i) \in 1..Len(z) /\ r[i] = z[old(i)])
  <2>1. CASE i = p
    BY <1>1, <2>1 DEF Between
  <2>2. CASE i < p
    <3>1. i \in 1..(p - 1) /\ i \in 1..Len(z) /\ old(i) = i
      BY <1>2, <2>2
    <3> QED BY <1>1, <2>2, <3>1 DEF Between
  <2>3. CASE i > p
    <3>1. i \in (p + 1)..(Len(z) + 1) /\ i - 1 \in 1..Len(z) /\ old(i) = i - 1
      BY <1>2, <2>3
    <3> QED BY <1>1, <2>3, <3>1 DEF Between
  <2> QED BY <1>2, <2>1, <2>2, <2>3
<1>4. \A i, j \in 1..(Len(z) + 1) : i < j /\ i # p /\ j # p => old(i) < old(j)
  BY <1>2
<1>5. \A i \in 1..(Len(z) + 1) : r[i] = x \/ \E j \in 1..Len(z) : r[i] = z[j]
  BY <1>3
<1>6. ASSUME Distinct(z), \A j \in 1..Len(z) : z[j].member # x.member
      PROVE  Distinct(r)
  <2> SUFFICES ASSUME NEW i \in 1..(Len(z) + 1), NEW j \in 1..(Len(z) + 1), i < j
               PROVE  r[i].member # r[j].member
    BY <1>2 DEF Distinct
  <2> HIDE DEF old
  <2>1. CASE i = p
    <3>1. j # p /\ r[i] = x
      BY <1>3, <2>1
    <3>2. old(j) \in 1..Len(z) /\ r[j] = z[old(j)]
      BY <1>3, <3>1
    <3> QED BY <1>6, <3>1, <3>2
  <2>3. CASE j = p
    <3>1. i # p /\ r[j] = x
      BY <1>3, <2>3
    <3>2. old(i) \in 1..Len(z) /\ r[i] = z[old(i)]
      BY <1>3, <3>1
    <3> QED BY <1>6, <3>1, <3>2
  <2>2. CASE i # p /\ j # p
    BY <1>3, <1>4, <1>6, <2>2 DEF Distinct
  <2> QED BY <2>1, <2>2, <2>3
<1>7. ASSUME NaN \notin Score, Sorted(z)
      PROVE  Sorted(r)
  <2>1. \A a, b \in Member : a.score \in Nat /\ b.score \in Nat /\ (~Less(a, b) <=> b.score <= a.score)
    <3>1. \A a \in Member : a.score \in Score
      BY DEF Member
    <3>2. \A s \in Score : s \in Nat /\ s # NaN
      BY <1>7, StoreAssumption
    <3> QED BY <3>1, <3>2 DEF Less
  <2>2. \A i \in 1..Len(z) : z[i] \in Member /\ z[i].score \in Nat
    BY <2>1
  <2>3. \A i, j \in 1..Len(z) : i <= j => z[i].score <= z[j].score
    <3> SUFFICES ASSUME NEW i \in 1..Len(z), NEW j \in 1..Len(z), i <= j
                 PROVE  z[i].score <= z[j].score
      OBVIOUS
    <3>1. CASE i = j
      BY <2>2, <3>1
    <3>2. CASE i < j
      BY <1>7, <2>1, <2>2, <3>2 DEF Sorted
    <3> QED BY <3>1, <3>2
  <2>4. \A i \in 1..(p - 1) : i \in 1..Len(z) /\ z[i].score <= x.score
    <3> SUFFICES ASSUME NEW i \in 1..(p - 1) PROVE i \in 1..Len(z) /\ z[i].score <= x.score
      OBVIOUS
    <3>1. p - 1 \in 1..Len(z) /\ i \in 1..Len(z) /\ i <= p - 1 /\ p > 1
      BY <1>2
    <3>2. z[p - 1].score <= x.score
      BY <1>1, <2>1, <2>2, <3>1
    <3>3. z[i].score <= z[p - 1].score
      BY <2>3, <3>1
    <3> QED BY <2>1, <2>2, <3>1, <3>2, <3>3
  <2>5. \A i \in p..Len(z) : i \in 1..Len(z) /\ x.score <= z[i].score
    <3> SUFFICES ASSUME NEW i \in p..Len(z) PROVE i \in 1..Len(z) /\ x.score <= z[i].score
      OBVIOUS
    <3>1. i \in 1..Len(z) /\ Less(x, z[i])
      BY <1>1, <1>2
    <3> QED BY <2>1, <2>2, <3>1 DEF Less
  <2> SUFFICES ASSUME NEW i \in 1..(Len(z) + 1), NEW j \in 1..(Len(z) + 1), i < j
               PROVE  r[i].score <= r[j].score
    <3>1. \A i \in 1..(Len(z) + 1) : r[i] \in Member
      BY <1>2
    <3> QED BY <1>2, <2>1, <3>1 DEF Sorted
  <2>6. CASE i = p
    <3>1. j # p /\ old(j) \in p..Len(z)
      BY <1>2, <1>3, <2>6
    <3> HIDE DEF old
    <3> QED BY <1>3, <2>5, <2>6, <3>1
  <2>7. CASE j = p
    <3>1. i # p /\ old(i) \in 1..(p - 1)
      BY <1>2, <1>3, <2>7
    <3> HIDE DEF old
    <3> QED BY <1>3, <2>4, <2>7, <3>1
  <2>8. CASE i # p /\ j # p
    <3>1. old(i) <= old(j) /\ old(i) \in 1..Len(z) /\ old(j) \in 1..Len(z)
      BY <1>2, <1>3, <2>8
    <3> HIDE DEF old
    <3> QED BY <1>3, <2>3, <2>8, <3>1, Zenon
  <2> QED BY <2>6, <2>7, <2>8
<1> QED BY <1>2, <1>5, <1>6, <1>7 DEF r

LEMMA InsertLoop ==
  ASSUME NEW args \in Seq(Member)
  PROVE  \E f : /\ f[0] = <<>>
                /\ \A i \in 1..Len(args) : f[i] = Insert(f[i - 1], args[i])
                /\ SliceStable(args) = f[Len(args)]
<1> DEFINE n == Len(args)
           base == <<>>
           step(x, m) == Insert(x, m)
           g == [i \in 1..n |-> [x \in Seq(Member) |-> step(x, args[i])]]
<1>1. n \in Nat /\ base \in Seq(Member)
  OBVIOUS
<1>2. \A x \in Seq(Member) : \A m \in Member : step(x, m) \in Seq(Member)
  BY InsertKeeps
<1>3. SliceStable(args) =
        (CHOOSE acc : acc = [i \in 0..n |-> IF i = 0 THEN base ELSE step(acc[i - 1], args[i])])[n]
  BY DEF SliceStable, ForEach
<1> HIDE DEF step, base, n
<1>4. \A i \in 1..n : args[i] \in Member
  BY DEF n
<1>5. Steps(n, Seq(Member), g)
  BY <1>2, <1>4 DEF Steps
<1>6. \A i \in 1..n : \A x \in Seq(Member) : g[i][x] = step(x, args[i])
  <2> TAKE i \in 1..n
  <2>1. g[i] = [x \in Seq(Member) |-> step(x, args[i])]
    OBVIOUS
  <2> HIDE DEF g
  <2> QED BY <2>1
<1> HIDE DEF g
<1>7. PICK f : Runs(n, Seq(Member), base, g, f)
  BY <1>1, <1>5, LoopExists
<1>8. f = [i \in 0..n |-> IF i = 0 THEN base ELSE step(f[i - 1], args[i])]
  <2>1. f = [i \in 0..n |-> f[i]] /\ f[0] = base
    BY <1>7 DEF Runs
  <2>2. \A i \in 1..n : f[i - 1] \in Seq(Member) /\ f[i] = g[i][f[i - 1]]
    BY <1>1, <1>7 DEF Runs
  <2>3. \A i \in 0..n : i # 0 => i \in 1..n
    BY <1>1
  <2>4. \A i \in 0..n : f[i] = IF i = 0 THEN base ELSE step(f[i - 1], args[i])
    BY <1>6, <2>1, <2>2, <2>3, Zenon
  <2> QED BY <2>1, <2>4, Zenon
<1> DEFINE acc == CHOOSE acc : acc = [i \in 0..n |-> IF i = 0 THEN base ELSE step(acc[i - 1], args[i])]
<1>9. acc = [i \in 0..n |-> IF i = 0 THEN base ELSE step(acc[i - 1], args[i])]
  BY <1>8, Zenon
<1>10. SliceStable(args) = acc[n]
  BY <1>3
<1> HIDE DEF acc
<1>11. acc[0] = base /\ \A i \in 1..n : acc[i] = step(acc[i - 1], args[i])
  BY <1>1, <1>9
<1> QED BY <1>10, <1>11 DEF n, base, step

\* Sorting keeps the members, and puts them in order.
LEMMA SortIs ==
  ASSUME NEW z \in Seq(Member), Distinct(z)
  PROVE  /\ SliceStable(z) \in Seq(Member) /\ Len(SliceStable(z)) = Len(z)
         /\ Distinct(SliceStable(z))
         /\ NaN \notin Score => Sorted(SliceStable(z))
<1>1. PICK f : /\ f[0] = <<>>
               /\ \A i \in 1..Len(z) : f[i] = Insert(f[i - 1], z[i])
               /\ SliceStable(z) = f[Len(z)]
  BY InsertLoop
<1> DEFINE good(i, x) == /\ x \in Seq(Member) /\ Len(x) = i /\ Distinct(x)
                         /\ \A a \in 1..i : \E b \in 1..i : x[a] = z[b]
                         /\ NaN \notin Score => Sorted(x)
           S == {i \in 0..Len(z) : good(i, f[i])}
<1>2. Len(z) \in Nat /\ \A i \in 1..Len(z) : z[i] \in Member
  OBVIOUS
<1>3. 0 \in S
  <2>1. Len(<<>>) = 0 /\ <<>> \in Seq(Member) /\ 1..0 = {} /\ 0 \in 0..Len(z)
    BY <1>2
  <2>2. Distinct(<<>>) /\ Sorted(<<>>)
    BY <2>1 DEF Distinct, Sorted
  <2>3. good(0, <<>>)
    BY <2>1, <2>2
  <2> HIDE DEF good
  <2> QED BY <1>1, <2>1, <2>3
<1>4. ASSUME NEW i \in 1..Len(z), NEW x, good(i - 1, x) PROVE good(i, Insert(x, z[i]))
  <2> DEFINE r == Insert(x, z[i])
  <2>1. x \in Seq(Member) /\ Len(x) = i - 1 /\ z[i] \in Member /\ i - 1 + 1 = i
    BY <1>2, <1>4
  <2>2. /\ r \in Seq(Member) /\ Len(r) = i
        /\ \A a \in 1..i : r[a] = z[i] \/ \E j \in 1..(i - 1) : r[a] = x[j]
        /\ Distinct(x) /\ (\A j \in 1..(i - 1) : x[j].member # z[i].member) => Distinct(r)
        /\ NaN \notin Score /\ Sorted(x) => Sorted(r)
    <3>1. /\ r \in Seq(Member) /\ Len(r) = Len(x) + 1
          /\ \A a \in 1..(Len(x) + 1) : r[a] = z[i] \/ \E j \in 1..Len(x) : r[a] = x[j]
          /\ Distinct(x) /\ (\A j \in 1..Len(x) : x[j].member # z[i].member) => Distinct(r)
          /\ NaN \notin Score /\ Sorted(x) => Sorted(r)
      BY <2>1, InsertKeeps, Zenon
    <3> HIDE DEF r
    <3>2. Len(x) + 1 = i
      BY <2>1
    <3> QED BY <2>1, <3>1, <3>2
  <2> HIDE DEF r
  <2>3. \A j \in 1..(i - 1) : \E b \in 1..(i - 1) : x[j] = z[b]
    BY <1>4
  <2>4. \A b \in 1..(i - 1) : b \in 1..Len(z) /\ b \in 1..i /\ b < i
    BY <1>2
  <2>5. \A b \in 1..(i - 1) : z[b].member # z[i].member
    BY <2>4 DEF Distinct
  <2>6. Distinct(r)
    <3>1. \A j \in 1..(i - 1) : x[j].member # z[i].member
      BY <2>3, <2>5, Zenon
    <3> QED BY <1>4, <2>2, <3>1
  <2>7. ASSUME NEW a \in 1..i PROVE \E b \in 1..i : r[a] = z[b]
    <3>1. CASE r[a] = z[i]
      BY <1>2, <3>1
    <3>2. ASSUME NEW j \in 1..(i - 1), r[a] = x[j] PROVE \E b \in 1..i : r[a] = z[b]
      <4>1. PICK b \in 1..(i - 1) : x[j] = z[b]
        BY <2>3
      <4> QED BY <2>4, <3>2, <4>1
    <3> QED BY <2>2, <3>1, <3>2
  <2>8. NaN \notin Score => Sorted(r)
    BY <1>4, <2>2
  <2> QED BY <2>2, <2>6, <2>7, <2>8 DEF r
<1> HIDE DEF good
<1>5. ASSUME NEW i \in 1..Len(z), i - 1 \in S PROVE i \in S
  <2>1. i \in 0..Len(z) /\ good(i - 1, f[i - 1])
    BY <1>2, <1>5
  <2> QED BY <1>1, <1>4, <2>1
<1>6. Len(z) \in S
  <2> HIDE DEF S
  <2>1. \A i \in 1..Len(z) : i - 1 \in S => i \in S
    BY <1>5
  <2>2. \A i \in 0..Len(z) : i \in S
    BY <1>2, <1>3, <2>1, Induction, Zenon
  <2> QED BY <1>2, <2>2
<1>7. good(Len(z), SliceStable(z))
  BY <1>1, <1>6
<1> QED BY <1>7 DEF good

\* One pair of a ZADD.
Next1 == [next : Seq(Member), added : Nat]

LEMMA ZaddOneKeeps ==
  ASSUME NEW acc \in Next1, NEW x \in Member
  PROVE  /\ zaddOne(acc, x) \in Next1
         /\ Len(zaddOne(acc, x).next) - zaddOne(acc, x).added = Len(acc.next) - acc.added
         /\ Len(zaddOne(acc, x).next) > 0
         /\ Distinct(acc.next) => Distinct(zaddOne(acc, x).next)
<1> DEFINE z == acc.next
           P == Places(z, x.member)
           q == zaddOne(acc, x)
<1>0. z \in Seq(Member) /\ acc.added \in Nat /\ Len(z) \in Nat
  BY DEF Next1
<1>1. \A i \in 1..Len(z) : i \in P <=> z[i].member = x.member
  BY <1>0 DEF Places
<1>2. P \in SUBSET (1..Len(z))
  BY <1>0 DEF Places
<1>3. CASE P = {}
  <2>1. q = [next |-> Append(z, x), added |-> acc.added + 1]
    BY <1>3 DEF zaddOne
  <2> HIDE DEF z, P, q
  <2>2. /\ Append(z, x) \in Seq(Member) /\ Len(Append(z, x)) = Len(z) + 1
        /\ Append(z, x)[Len(z) + 1] = x
        /\ \A i \in 1..Len(z) : Append(z, x)[i] = z[i]
    BY <1>0
  <2>3. q.next = Append(z, x) /\ q.added = acc.added + 1
    BY <2>1
  <2>4. q \in Next1
    BY <1>0, <2>1, <2>2 DEF Next1
  <2>5. Distinct(z) => Distinct(Append(z, x))
    <3> SUFFICES ASSUME Distinct(z), NEW i \in 1..(Len(z) + 1), NEW j \in 1..(Len(z) + 1), i < j
                 PROVE  Append(z, x)[i].member # Append(z, x)[j].member
      BY <2>2 DEF Distinct
    <3>1. i \in 1..Len(z) /\ Append(z, x)[i] = z[i] /\ z[i].member # x.member
      BY <1>0, <1>1, <1>3, <2>2
    <3>2. CASE j = Len(z) + 1
      BY <2>2, <3>1, <3>2
    <3>3. CASE j \in 1..Len(z)
      BY <2>2, <3>1, <3>3 DEF Distinct
    <3> QED BY <1>0, <3>2, <3>3
  <2>6. Len(q.next) - q.added = Len(z) - acc.added /\ Len(q.next) > 0
    BY <1>0, <2>2, <2>3
  <2> QED BY <2>3, <2>4, <2>5, <2>6 DEF z, q
<1>4. CASE P # {}
  <2> DEFINE p == Min(P)
             w == [z EXCEPT ![p] = x]
  <2>1. q = [acc EXCEPT !.next[p] = x]
    BY <1>4 DEF zaddOne
  <2>2. p \in 1..Len(z) /\ z[p].member = x.member
    <3>1. P \in SUBSET Nat
      BY <1>2
    <3>2. p \in P
      <4> HIDE DEF P
      <4> QED BY <1>4, <3>1, Least
    <3> HIDE DEF P
    <3> QED BY <1>1, <1>2, <3>2, Zenon
  <2> HIDE DEF p
  <2>3. q = [next |-> w, added |-> acc.added]
    <3>1. acc = [next |-> z, added |-> acc.added]
      BY DEF Next1
    <3> QED BY <2>1, <3>1
  <2> HIDE DEF z, q, P
  <2>4. /\ w \in Seq(Member) /\ Len(w) = Len(z) /\ w[p] = x
        /\ \A i \in 1..Len(z) : i # p => w[i] = z[i]
    BY <1>0, <2>2
  <2> HIDE DEF w
  <2>5. q.next = w /\ q.added = acc.added
    BY <2>3
  <2>6. q \in Next1
    BY <1>0, <2>3, <2>4 DEF Next1
  <2>7. \A i \in 1..Len(z) : w[i].member = z[i].member
    BY <2>2, <2>4
  <2>8. Distinct(z) => Distinct(w)
    BY <2>4, <2>7 DEF Distinct
  <2>9. Len(q.next) - q.added = Len(z) - acc.added /\ Len(q.next) > 0
    BY <1>0, <2>2, <2>4, <2>5
  <2> QED BY <2>5, <2>6, <2>8, <2>9 DEF z, q
<1> QED BY <1>3, <1>4

\* The pairs of a ZADD, before they are sorted.
zaddAll(z, pairs) == ForEach(zaddOne, [next |-> z, added |-> 0], pairs)

LEMMA ZaddLoop ==
  ASSUME NEW z \in Seq(Member), NEW args \in Seq(Member)
  PROVE  \E f : /\ f[0] = [next |-> z, added |-> 0]
                /\ \A i \in 1..Len(args) : f[i] = zaddOne(f[i - 1], args[i])
                /\ zaddAll(z, args) = f[Len(args)]
<1> DEFINE n == Len(args)
           base == [next |-> z, added |-> 0]
           step(x, m) == zaddOne(x, m)
           g == [i \in 1..n |-> [x \in Next1 |-> step(x, args[i])]]
<1>1. n \in Nat /\ base \in Next1
  BY DEF Next1
<1>2. \A x \in Next1 : \A m \in Member : step(x, m) \in Next1
  BY ZaddOneKeeps
<1>3. zaddAll(z, args) =
        (CHOOSE acc : acc = [i \in 0..n |-> IF i = 0 THEN base ELSE step(acc[i - 1], args[i])])[n]
  BY DEF zaddAll, ForEach
<1> HIDE DEF step, base, n
<1>4. \A i \in 1..n : args[i] \in Member
  BY DEF n
<1>5. Steps(n, Next1, g)
  BY <1>2, <1>4 DEF Steps
<1>6. \A i \in 1..n : \A x \in Next1 : g[i][x] = step(x, args[i])
  <2> TAKE i \in 1..n
  <2>1. g[i] = [x \in Next1 |-> step(x, args[i])]
    OBVIOUS
  <2> HIDE DEF g
  <2> QED BY <2>1
<1> HIDE DEF g
<1>7. PICK f : Runs(n, Next1, base, g, f)
  BY <1>1, <1>5, LoopExists
<1>8. f = [i \in 0..n |-> IF i = 0 THEN base ELSE step(f[i - 1], args[i])]
  <2>1. f = [i \in 0..n |-> f[i]] /\ f[0] = base
    BY <1>7 DEF Runs
  <2>2. \A i \in 1..n : f[i - 1] \in Next1 /\ f[i] = g[i][f[i - 1]]
    BY <1>1, <1>7 DEF Runs
  <2>3. \A i \in 0..n : i # 0 => i \in 1..n
    BY <1>1
  <2>4. \A i \in 0..n : f[i] = IF i = 0 THEN base ELSE step(f[i - 1], args[i])
    BY <1>6, <2>1, <2>2, <2>3, Zenon
  <2> QED BY <2>1, <2>4, Zenon
<1> DEFINE acc == CHOOSE acc : acc = [i \in 0..n |-> IF i = 0 THEN base ELSE step(acc[i - 1], args[i])]
<1>9. acc = [i \in 0..n |-> IF i = 0 THEN base ELSE step(acc[i - 1], args[i])]
  BY <1>8, Zenon
<1>10. zaddAll(z, args) = acc[n]
  BY <1>3
<1> HIDE DEF acc
<1>11. acc[0] = base /\ \A i \in 1..n : acc[i] = step(acc[i - 1], args[i])
  BY <1>1, <1>9
<1> QED BY <1>10, <1>11 DEF n, base, step

\* A ZADD of some pairs: the members are distinct and in order, and those that are
\* new are counted.
LEMMA ZaddIs ==
  ASSUME NEW z \in Seq(Member), Distinct(z), NEW args \in Seq(Member), args # <<>>
  PROVE  /\ zadd(z, args).next \in Seq(Member) \ {<<>>}
         /\ Distinct(zadd(z, args).next)
         /\ NaN \notin Score => Sorted(zadd(z, args).next)
         /\ zadd(z, args).added \in Nat
         /\ Len(zadd(z, args).next) = Len(z) + zadd(z, args).added
<1>1. PICK f : /\ f[0] = [next |-> z, added |-> 0]
               /\ \A i \in 1..Len(args) : f[i] = zaddOne(f[i - 1], args[i])
               /\ zaddAll(z, args) = f[Len(args)]
  BY ZaddLoop
<1> DEFINE good(i, x) == /\ x \in Next1 /\ Distinct(x.next)
                         /\ Len(x.next) - x.added = Len(z)
                         /\ i # 0 => Len(x.next) > 0
           S == {i \in 0..Len(args) : good(i, f[i])}
<1>2. Len(args) \in Nat /\ Len(args) # 0 /\ Len(z) \in Nat
      /\ \A i \in 1..Len(args) : args[i] \in Member
  OBVIOUS
<1>3. 0 \in S
  BY <1>1, <1>2 DEF Next1
<1>4. ASSUME NEW i, NEW j, NEW x, good(i, x), NEW m \in Member PROVE good(j, zaddOne(x, m))
  BY <1>4, ZaddOneKeeps
<1> HIDE DEF good
<1>5. ASSUME NEW i \in 1..Len(args), i - 1 \in S PROVE i \in S
  <2>1. i \in 0..Len(args) /\ good(i - 1, f[i - 1]) /\ args[i] \in Member
    BY <1>2, <1>5
  <2> QED BY <1>1, <1>4, <2>1
<1>6. Len(args) \in S
  <2> HIDE DEF S
  <2>1. \A i \in 1..Len(args) : i - 1 \in S => i \in S
    BY <1>5
  <2>2. \A i \in 0..Len(args) : i \in S
    BY <1>2, <1>3, <2>1, Induction, Zenon
  <2> QED BY <1>2, <2>2
<1> DEFINE all == zaddAll(z, args)
<1>7. good(Len(args), all)
  BY <1>1, <1>6
<1>8. zadd(z, args) = [next |-> SliceStable(all.next), added |-> all.added]
  BY DEF zadd, zaddAll
<1> HIDE DEF all
<1>9. /\ all.next \in Seq(Member) /\ all.added \in Nat /\ Distinct(all.next)
      /\ Len(all.next) = Len(z) + all.added /\ Len(all.next) > 0
  BY <1>2, <1>7 DEF good, Next1
<1> DEFINE s == SliceStable(all.next)
<1>10. /\ s \in Seq(Member) /\ Len(s) = Len(all.next) /\ Distinct(s)
       /\ NaN \notin Score => Sorted(s)
  BY <1>9, SortIs
<1> HIDE DEF s
<1>11. zadd(z, args).next = s /\ zadd(z, args).added = all.added
  BY <1>8 DEF s
<1>12. s # <<>>
  BY <1>9, <1>10
<1> QED BY <1>9, <1>10, <1>11, <1>12

LEMMA ZremLoop ==
  ASSUME NEW remove, NEW args \in Seq(Member)
  PROVE  \E f : /\ f[0] = <<>>
                /\ \A i \in 1..Len(args) : f[i] = IF args[i].member \in remove THEN f[i - 1] ELSE Append(f[i - 1], args[i])
                /\ zrem(args, remove) = f[Len(args)]
<1> DEFINE n == Len(args)
           base == <<>>
           step(x, m) == IF m.member \in remove THEN x ELSE Append(x, m)
           g == [i \in 1..n |-> [x \in Seq(Member) |-> step(x, args[i])]]
<1>1. n \in Nat /\ base \in Seq(Member)
  OBVIOUS
<1>2. \A x \in Seq(Member) : \A m \in Member : step(x, m) \in Seq(Member)
  OBVIOUS
<1>3. zrem(args, remove) =
        (CHOOSE acc : acc = [i \in 0..n |-> IF i = 0 THEN base ELSE step(acc[i - 1], args[i])])[n]
  BY Zenon DEF zrem, ForEach
<1> HIDE DEF step, base, n
<1>4. \A i \in 1..n : args[i] \in Member
  BY DEF n
<1>5. Steps(n, Seq(Member), g)
  BY <1>2, <1>4 DEF Steps
<1>6. \A i \in 1..n : \A x \in Seq(Member) : g[i][x] = step(x, args[i])
  <2> TAKE i \in 1..n
  <2>1. g[i] = [x \in Seq(Member) |-> step(x, args[i])]
    OBVIOUS
  <2> HIDE DEF g
  <2> QED BY <2>1
<1> HIDE DEF g
<1>7. PICK f : Runs(n, Seq(Member), base, g, f)
  BY <1>1, <1>5, LoopExists
<1>8. f = [i \in 0..n |-> IF i = 0 THEN base ELSE step(f[i - 1], args[i])]
  <2>1. f = [i \in 0..n |-> f[i]] /\ f[0] = base
    BY <1>7 DEF Runs
  <2>2. \A i \in 1..n : f[i - 1] \in Seq(Member) /\ f[i] = g[i][f[i - 1]]
    BY <1>1, <1>7 DEF Runs
  <2>3. \A i \in 0..n : i # 0 => i \in 1..n
    BY <1>1
  <2>4. \A i \in 0..n : f[i] = IF i = 0 THEN base ELSE step(f[i - 1], args[i])
    BY <1>6, <2>1, <2>2, <2>3, Zenon
  <2> QED BY <2>1, <2>4, Zenon
<1> DEFINE acc == CHOOSE acc : acc = [i \in 0..n |-> IF i = 0 THEN base ELSE step(acc[i - 1], args[i])]
<1>9. acc = [i \in 0..n |-> IF i = 0 THEN base ELSE step(acc[i - 1], args[i])]
  BY <1>8, Zenon
<1>10. zrem(args, remove) = acc[n]
  BY <1>3
<1> HIDE DEF acc
<1>11. acc[0] = base /\ \A i \in 1..n : acc[i] = step(acc[i - 1], args[i])
  BY <1>1, <1>9
<1> QED BY <1>10, <1>11 DEF n, base, step

\* A ZREM: what it keeps is distinct and in order as before.
LEMMA ZremIs ==
  ASSUME NEW z \in Seq(Member), NEW remove, Distinct(z)
  PROVE  /\ zrem(z, remove) \in Seq(Member) /\ Len(zrem(z, remove)) <= Len(z)
         /\ Distinct(zrem(z, remove))
         /\ Sorted(z) => Sorted(zrem(z, remove))
<1>1. PICK f : /\ f[0] = <<>>
               /\ \A i \in 1..Len(z) : f[i] = IF z[i].member \in remove THEN f[i - 1]
                                              ELSE Append(f[i - 1], z[i])
               /\ zrem(z, remove) = f[Len(z)]
  BY ZremLoop
<1> DEFINE good(i, x) == /\ x \in Seq(Member) /\ Len(x) <= i /\ Distinct(x)
                         /\ \A a \in 1..Len(x) : \E b \in 1..i : x[a] = z[b]
                         /\ Sorted(z) => Sorted(x)
           S == {i \in 0..Len(z) : good(i, f[i])}
<1>2. Len(z) \in Nat /\ \A i \in 1..Len(z) : z[i] \in Member
  OBVIOUS
<1>3. 0 \in S
  <2>1. Len(<<>>) = 0 /\ <<>> \in Seq(Member) /\ 1..0 = {} /\ 0 \in 0..Len(z)
    BY <1>2
  <2>2. Distinct(<<>>) /\ Sorted(<<>>)
    BY <2>1 DEF Distinct, Sorted
  <2>3. good(0, <<>>)
    BY <2>1, <2>2
  <2> HIDE DEF good
  <2> QED BY <1>1, <2>1, <2>3
<1>4. ASSUME NEW i \in 1..Len(z), NEW x, good(i - 1, x) PROVE good(i, x) /\ good(i, Append(x, z[i]))
  <2> DEFINE r == Append(x, z[i])
  <2>0. Distinct(x) /\ (Sorted(z) => Sorted(x))
    BY <1>4
  <2>1. x \in Seq(Member) /\ Len(x) \in Nat /\ Len(x) <= i - 1 /\ z[i] \in Member
    BY <1>2, <1>4
  <2>2. \A b \in 1..(i - 1) : b \in 1..Len(z) /\ b \in 1..i /\ b < i
    BY <1>2
  <2>3. \A a \in 1..Len(x) : \E b \in 1..(i - 1) : x[a] = z[b]
    BY <1>4
  <2>4. good(i, x)
    <3>1. Len(x) <= i
      BY <2>1
    <3> QED BY <1>4, <2>2, <3>1
  <2>5. /\ r \in Seq(Member) /\ Len(r) = Len(x) + 1 /\ r[Len(x) + 1] = z[i]
        /\ \A a \in 1..Len(x) : r[a] = x[a]
    BY <2>1
  <2> HIDE DEF r
  <2>6. \A a \in 1..Len(r) : a = Len(x) + 1 \/ a \in 1..Len(x)
    BY <2>1, <2>5
  <2>7. \A a \in 1..Len(x) : x[a].member # z[i].member /\ (Sorted(z) => ~Less(z[i], x[a]))
    <3> SUFFICES ASSUME NEW a \in 1..Len(x)
                 PROVE  x[a].member # z[i].member /\ (Sorted(z) => ~Less(z[i], x[a]))
      OBVIOUS
    <3>1. PICK b \in 1..(i - 1) : x[a] = z[b]
      BY <2>3
    <3> QED BY <2>2, <3>1 DEF Distinct, Sorted
  <2>8. Distinct(r)
    <3> SUFFICES ASSUME NEW a \in 1..Len(r), NEW b \in 1..Len(r), a < b
                 PROVE  r[a].member # r[b].member
      BY DEF Distinct
    <3>1. a \in 1..Len(x)
      BY <2>1, <2>5
    <3>2. CASE b = Len(x) + 1
      BY <2>5, <2>7, <3>1, <3>2
    <3>3. CASE b \in 1..Len(x)
      BY <2>0, <2>5, <3>1, <3>3 DEF Distinct
    <3> QED BY <2>6, <3>2, <3>3
  <2>9. Sorted(z) => Sorted(r)
    <3> SUFFICES ASSUME Sorted(z), NEW a \in 1..Len(r), NEW b \in 1..Len(r), a < b
                 PROVE  ~Less(r[b], r[a])
      BY DEF Sorted
    <3>1. a \in 1..Len(x)
      BY <2>1, <2>5
    <3>2. CASE b = Len(x) + 1
      BY <2>5, <2>7, <3>1, <3>2
    <3>3. CASE b \in 1..Len(x)
      BY <2>0, <2>5, <3>1, <3>3 DEF Sorted
    <3> QED BY <2>6, <3>2, <3>3
  <2>10. ASSUME NEW a \in 1..Len(r) PROVE \E b \in 1..i : r[a] = z[b]
    <3>1. CASE a = Len(x) + 1
      <4>1. i \in 1..i
        OBVIOUS
      <4> QED BY <2>5, <3>1, <4>1
    <3>2. CASE a \in 1..Len(x)
      <4>1. PICK b \in 1..(i - 1) : x[a] = z[b]
        BY <2>3, <3>2
      <4> QED BY <2>2, <2>5, <3>2, <4>1
    <3> QED BY <2>6, <3>1, <3>2
  <2>11. good(i, r)
    <3>1. Len(r) <= i
      BY <2>1, <2>5
    <3> QED BY <2>5, <2>8, <2>9, <2>10, <3>1
  <2> HIDE DEF good
  <2> QED BY <2>4, <2>11 DEF r
<1> HIDE DEF good
<1>5. ASSUME NEW i \in 1..Len(z), i - 1 \in S PROVE i \in S
  <2>1. i \in 0..Len(z) /\ good(i - 1, f[i - 1])
    BY <1>2, <1>5
  <2>2. good(i, f[i - 1]) /\ good(i, Append(f[i - 1], z[i]))
    BY <1>4, <2>1
  <2>3. f[i] = f[i - 1] \/ f[i] = Append(f[i - 1], z[i])
    BY <1>1, Zenon
  <2>4. good(i, f[i])
    BY <2>2, <2>3, Zenon
  <2> QED BY <2>1, <2>4
<1>6. Len(z) \in S
  <2> HIDE DEF S
  <2>1. \A i \in 1..Len(z) : i - 1 \in S => i \in S
    BY <1>5
  <2>2. \A i \in 0..Len(z) : i \in S
    BY <1>2, <1>3, <2>1, Induction, Zenon
  <2> QED BY <1>2, <2>2
<1>7. good(Len(z), zrem(z, remove))
  BY <1>1, <1>6
<1> QED BY <1>7 DEF good

-----------------------------------------------------------------------------
(***************************************************************************)
(* The two modes.  Standalone, a command adds or removes values of its own *)
(* type.  On a cluster node it replaces the only value of a key, so that   *)
(* nothing is lost only if it has looked at the type.                      *)
(***************************************************************************)

\* The values of a type.
ZSet == {z \in Seq(Member) \ {<<>>} : Distinct(z) /\ (NaN \notin Score => Sorted(z))}
Good(t, v) ==
  /\ t = "string" => v \in String
  /\ t = "list" => v \in Seq(Element) /\ v # <<>> /\ Len(v) <= MaxList
  /\ t = "hash" => v \in Fields
  /\ t = "set" => v \in SUBSET Element /\ v # {}
  /\ t = "zset" => v \in ZSet

\* db is a function from keys to values, and a key of a cluster node has one value.
DbInv ==
  /\ DOMAIN db = Key /\ db = [k \in Key |-> db[k]]
  /\ \A k \in Key :
       /\ DOMAIN db[k] \subseteq Type
       /\ clusterEnabled => \A t, u \in DOMAIN db[k] : t = u
       /\ \A t \in DOMAIN db[k] : Good(t, db[k][t])

\* No value disappears but those the last command may make disappear.
Kept == \A k \in Key : DOMAIN db[k] \ DOMAIN db'[k] \subseteq Disappearing(last'.cmd)

\* The key's other values after a command on type t.
LEMMA PutEffect ==
  ASSUME DbInv, NEW k \in Key, NEW t, NEW v, db' = Put(k, t, v)
  PROVE  /\ DOMAIN db' = Key /\ db' = [j \in Key |-> db'[j]]
         /\ \A j \in Key : j # k => db'[j] = db[j]
         /\ DOMAIN db'[k] = {t} \cup (IF clusterEnabled THEN {} ELSE DOMAIN db[k])
         /\ db'[k][t] = v
         /\ \A u \in DOMAIN db'[k] : u # t => u \in DOMAIN db[k] /\ db'[k][u] = db[k][u]
<1> DEFINE D == {t} \cup (IF clusterEnabled THEN {} ELSE DOMAIN db[k])
           w == [u \in D |-> IF u = t THEN v ELSE db[k][u]]
<1>1. db' = [db EXCEPT ![k] = w]
  BY DEF Put
<1>2. DOMAIN w = D /\ w[t] = v /\ \A u \in D : u # t => w[u] = db[k][u]
  OBVIOUS
<1>3. \A u \in D : u # t => u \in DOMAIN db[k]
  OBVIOUS
<1> HIDE DEF w, D
<1>4. /\ DOMAIN db' = Key /\ db' = [j \in Key |-> db'[j]]
      /\ db'[k] = w /\ \A j \in Key : j # k => db'[j] = db[j]
  BY <1>1 DEF DbInv
<1> QED BY <1>2, <1>3, <1>4 DEF D

LEMMA DropEffect ==
  ASSUME DbInv, NEW k \in Key, NEW t, db' = Drop(k, t)
  PROVE  /\ DOMAIN db' = Key /\ db' = [j \in Key |-> db'[j]]
         /\ \A j \in Key : j # k => db'[j] = db[j]
         /\ DOMAIN db'[k] = DOMAIN db[k] \ {t}
         /\ \A u \in DOMAIN db'[k] : db'[k][u] = db[k][u]
<1> DEFINE w == [u \in DOMAIN db[k] \ {t} |-> db[k][u]]
<1>1. db' = [db EXCEPT ![k] = w]
  BY DEF Drop
<1>2. DOMAIN w = DOMAIN db[k] \ {t} /\ \A u \in DOMAIN db[k] \ {t} : w[u] = db[k][u]
  OBVIOUS
<1> HIDE DEF w
<1>3. /\ DOMAIN db' = Key /\ db' = [j \in Key |-> db'[j]]
      /\ db'[k] = w /\ \A j \in Key : j # k => db'[j] = db[j]
  BY <1>1 DEF DbInv
<1> QED BY <1>2, <1>3

LEMMA PutStep ==
  ASSUME DbInv, NEW k \in Key, NEW t \in Type, NEW v, db' = Put(k, t, v),
         UNCHANGED clusterEnabled, Good(t, v),
         clusterEnabled => DOMAIN db[k] \subseteq {t} \/ Disappearing(last'.cmd) = Type
  PROVE  DbInv' /\ Kept
<1>1. /\ DOMAIN db' = Key /\ db' = [j \in Key |-> db'[j]]
      /\ \A j \in Key : j # k => db'[j] = db[j]
      /\ DOMAIN db'[k] = {t} \cup (IF clusterEnabled THEN {} ELSE DOMAIN db[k])
      /\ db'[k][t] = v
      /\ \A u \in DOMAIN db'[k] : u # t => u \in DOMAIN db[k] /\ db'[k][u] = db[k][u]
  BY PutEffect
<1>2. DOMAIN db[k] \subseteq Type
  BY DEF DbInv
<1>3. ASSUME NEW j \in Key
      PROVE  /\ DOMAIN db'[j] \subseteq Type
             /\ clusterEnabled => \A a, b \in DOMAIN db'[j] : a = b
             /\ \A u \in DOMAIN db'[j] : Good(u, db'[j][u])
  <2>1. CASE j = k
    <3>1. DOMAIN db'[k] \subseteq Type
      BY <1>1, <1>2
    <3>2. clusterEnabled => \A a, b \in DOMAIN db'[k] : a = b
      BY <1>1
    <3>3. \A u \in DOMAIN db'[k] : Good(u, db'[k][u])
      BY <1>1 DEF DbInv
    <3> QED BY <2>1, <3>1, <3>2, <3>3
  <2>2. CASE j # k
    BY <1>1, <2>2 DEF DbInv
  <2> QED BY <2>1, <2>2
<1>4. Kept
  <2> SUFFICES ASSUME NEW j \in Key
               PROVE  DOMAIN db[j] \ DOMAIN db'[j] \subseteq Disappearing(last'.cmd)
    BY DEF Kept
  <2>1. CASE j = k
    BY <1>1, <1>2, <2>1
  <2>2. CASE j # k
    BY <1>1, <2>2
  <2> QED BY <2>1, <2>2
<1> QED BY <1>1, <1>3, <1>4 DEF DbInv

LEMMA DropStep ==
  ASSUME DbInv, NEW k \in Key, NEW t, db' = Drop(k, t),
         UNCHANGED clusterEnabled, t \in Disappearing(last'.cmd)
  PROVE  DbInv' /\ Kept
<1>1. /\ DOMAIN db' = Key /\ db' = [j \in Key |-> db'[j]]
      /\ \A j \in Key : j # k => db'[j] = db[j]
      /\ DOMAIN db'[k] = DOMAIN db[k] \ {t}
      /\ \A u \in DOMAIN db'[k] : db'[k][u] = db[k][u]
  BY DropEffect
<1>2. ASSUME NEW j \in Key
      PROVE  /\ DOMAIN db'[j] \subseteq DOMAIN db[j]
             /\ DOMAIN db[j] \ DOMAIN db'[j] \subseteq Disappearing(last'.cmd)
             /\ \A u \in DOMAIN db'[j] : db'[j][u] = db[j][u]
  <2>1. CASE j = k
    BY <1>1, <2>1
  <2>2. CASE j # k
    BY <1>1, <2>2
  <2> QED BY <2>1, <2>2
<1>3. ASSUME NEW j \in Key
      PROVE  /\ DOMAIN db'[j] \subseteq Type
             /\ clusterEnabled => \A a, b \in DOMAIN db'[j] : a = b
             /\ \A u \in DOMAIN db'[j] : Good(u, db'[j][u])
  <2>1. /\ DOMAIN db[j] \subseteq Type
        /\ clusterEnabled => \A a, b \in DOMAIN db[j] : a = b
        /\ \A u \in DOMAIN db[j] : Good(u, db[j][u])
    BY DEF DbInv
  <2> QED BY <1>2, <2>1
<1> QED BY <1>1, <1>2, <1>3 DEF DbInv, Kept

\* A command that fails or only reads.
LEMMA SameStep ==
  ASSUME DbInv, db' = db, UNCHANGED clusterEnabled
  PROVE  DbInv' /\ Kept
BY DEF DbInv, Kept

\* DEL and FLUSHALL.
LEMMA ClearStep ==
  ASSUME DbInv, NEW K \in SUBSET Key, db' = [k \in Key |-> IF k \in K THEN <<>> ELSE db[k]],
         UNCHANGED clusterEnabled, Disappearing(last'.cmd) = Type
  PROVE  DbInv' /\ Kept
<1>1. DOMAIN db' = Key /\ db' = [j \in Key |-> db'[j]]
  OBVIOUS
<1>2. \A j \in Key : db'[j] = db[j] \/ DOMAIN db'[j] = {}
  OBVIOUS
<1>3. Kept
  BY DEF DbInv, Kept
<1>4. ASSUME NEW j \in Key
      PROVE  /\ DOMAIN db'[j] \subseteq Type
             /\ clusterEnabled => \A a, b \in DOMAIN db'[j] : a = b
             /\ \A u \in DOMAIN db'[j] : Good(u, db'[j][u])
  BY <1>2 DEF DbInv
<1> QED BY <1>1, <1>3, <1>4 DEF DbInv

\* What looking at the type tells about a key of a cluster node.
LEMMA TypeSeen ==
  ASSUME DbInv, NEW k \in Key, NEW t \in Type, ~WrongType(k, t) \/ Has(k, t)
  PROVE  clusterEnabled => DOMAIN db[k] \subseteq {t}
BY DEF DbInv, WrongType, Has

\* A command either leaves everything as it was, or has seen that the key has no value
\* of another type, or that it has one of its own.
LEMMA ValueStep ==
  ASSUME DbInv, NEW k \in Key, NEW t \in Type, NEW v,
         UNCHANGED clusterEnabled,
         \/ db' = db
         \/ (~WrongType(k, t) \/ Has(k, t)) /\ Good(t, v) /\ db' = Put(k, t, v)
         \/ t \in Disappearing(last'.cmd) /\ db' = Drop(k, t)
  PROVE  DbInv' /\ Kept
<1>1. CASE db' = db
  BY <1>1, SameStep
<1>2. CASE (~WrongType(k, t) \/ Has(k, t)) /\ Good(t, v) /\ db' = Put(k, t, v)
  BY <1>2, PutStep, TypeSeen
<1>3. CASE t \in Disappearing(last'.cmd) /\ db' = Drop(k, t)
  BY <1>3, DropStep
<1> QED BY <1>1, <1>2, <1>3

-----------------------------------------------------------------------------
(* The commands on strings, and on lists *)

LEMMA IntBounds == MinInt \in Int /\ MaxInt \in Int /\ MinInt <= 0 /\ MaxInt >= 0
<1>1. 2 ^ (Width - 1) \in Int /\ 2 ^ (Width - 1) > 0
  BY StoreAssumption
<1> QED BY <1>1 DEF MinInt, MaxInt

\* Int arithmetic stays in range.
LEMMA WrapRange == \A n \in Int : Wrap(n) \in MinInt..MaxInt
<1> SUFFICES ASSUME NEW n \in Int PROVE Wrap(n) \in MinInt..MaxInt
  OBVIOUS
<1> DEFINE m == MaxInt - MinInt + 1
<1>1. m \in Nat /\ m > 0 /\ n - MinInt \in Int
  BY IntBounds
<1> HIDE DEF m
<1>2. (n - MinInt) % m \in 0..(m - 1)
  BY <1>1
<1>3. Wrap(n) = ((n - MinInt) % m) + MinInt /\ m = MaxInt - MinInt + 1
  BY DEF Wrap, m
<1> QED BY <1>2, <1>3, IntBounds

LEMMA StringCases ==
  ASSUME NEW s \in String
  PROVE  s[2] \in Int /\ (s[1] = "int" => s[2] \in MinInt..MaxInt)
BY IntBounds DEF String, IntText, Text

LEMMA StringStep ==
  ASSUME DbInv, NEW k \in Key, NEW s \in String,
         \/ handleSet(k, s) \/ handleAppend(k, s) \/ handleIncrBy(k, s) \/ handleDecrBy(k, s)
         \/ handleIncr(k) \/ handleDecr(k)
  PROVE  DbInv' /\ Kept
<1>0. "string" \in Type /\ \A v \in String : Good("string", v)
  BY Zenon DEF Type, Good
<1>1. CASE handleSet(k, s)
  <2>1. db' = Put(k, "string", s) /\ UNCHANGED clusterEnabled /\ last'.cmd = "set"
    BY <1>1 DEF handleSet, Done
  <2>2. Disappearing("set") = Type
    BY DEF Disappearing
  <2> QED BY <1>0, <2>1, <2>2, PutStep, Zenon
<1>2. ASSUME NEW v, db' = db \/ (~WrongType(k, "string") /\ v \in String /\ db' = Put(k, "string", v)),
             UNCHANGED clusterEnabled
      PROVE  DbInv' /\ Kept
  BY <1>0, <1>2, ValueStep
<1>3. CASE handleAppend(k, s)
  <2> DEFINE v == IF Has(k, "string") THEN Concat(db[k]["string"], s) ELSE s
  <2>1. db' = (IF WrongType(k, "string") THEN db ELSE Put(k, "string", v))
        /\ UNCHANGED clusterEnabled
    BY <1>3, Zenon DEF handleAppend, Done
  <2>2. \A x : Concat(x, s) \in String
    BY DEF Concat, String
  <2>3. v \in String
    BY <2>2
  <2> HIDE DEF v
  <2> QED BY <1>2, <2>1, <2>3
<1>4. ASSUME NEW cmd, NEW delta \in Int, changeInteger(cmd, k, delta) PROVE DbInv' /\ Kept
  <2> DEFINE current == At(k, "string", IntText(0))
             v == applyDelta(current, delta)
  <2>1. (db' = db \/ (~WrongType(k, "string") /\ db' = Put(k, "string", v)))
        /\ UNCHANGED clusterEnabled
    BY <1>4 DEF changeInteger, Done
  <2>2. current \in String
    <3>1. 0 \in MinInt..MaxInt
      BY IntBounds
    <3>2. IntText(0) \in String
      BY <3>1, Zenon DEF String
    <3> QED BY <3>2 DEF At, Has, DbInv, Good
  <2> HIDE DEF current
  <2>3. current[2] + delta \in Int
    BY <2>2, StringCases
  <2>4. v \in String
    BY <2>3, WrapRange DEF applyDelta, String
  <2> HIDE DEF v
  <2> QED BY <1>2, <2>1, <2>4, Zenon
<1>5. ASSUME NEW cmd, NotAnInt(cmd, k) PROVE DbInv' /\ Kept
  BY <1>5, SameStep DEF NotAnInt, Done
<1>6. 1 \in Int /\ -1 \in Int /\ s[2] \in Int /\ Wrap(-s[2]) \in Int
  <2>1. s[2] \in Int /\ -s[2] \in Int
    BY StringCases
  <2> QED BY <2>1, WrapRange, IntBounds
<1> QED BY <1>1, <1>3, <1>4, <1>5, <1>6, Zenon DEF handleIncr, handleDecr, handleIncrBy, handleDecrBy

\* The elements given to a command.
LEMMA ArgsType == \A a \in Args : a \in Seq(Element) /\ a # <<>>
<1>1. \A n \in Nat : \A a \in [1..n -> Element] : a \in Seq(Element)
  OBVIOUS
<1>2. \A n \in 0..MaxArgs : n \in Nat
  BY StoreAssumption
<1> QED BY <1>1, <1>2 DEF Args, SeqsUpTo

LEMMA Shorter ==
  ASSUME NEW seq \in Seq(Element), seq # <<>>
  PROVE  /\ Tail(seq) \in Seq(Element) /\ Len(Tail(seq)) = Len(seq) - 1
         /\ SubSeq(seq, 1, Len(seq) - 1) \in Seq(Element)
         /\ Len(SubSeq(seq, 1, Len(seq) - 1)) = Len(seq) - 1
<1>1. Tail(seq) \in Seq(Element) /\ Len(Tail(seq)) = Len(seq) - 1
  OBVIOUS
<1>2. Len(seq) \in Nat /\ Len(seq) > 0
  OBVIOUS
<1> DEFINE m == Len(seq) - 1
<1>3. SubSeq(seq, 1, m) \in Seq(Element)
  BY <1>2
<1>4. Len(SubSeq(seq, 1, m)) = IF 1 <= m THEN m - 1 + 1 ELSE 0
  <2>1. m \in Nat /\ m <= Len(seq)
    BY <1>2
  <2> HIDE DEF m
  <2> QED BY <1>2, <2>1
<1>5. Len(SubSeq(seq, 1, m)) = m
  <2>1. m \in Nat
    BY <1>2
  <2> HIDE DEF m
  <2> QED BY <1>4, <2>1
<1> QED BY <1>1, <1>3, <1>5

LEMMA ListStep ==
  ASSUME DbInv, NEW k \in Key, NEW left \in BOOLEAN,
         handlePop(k, left) \/ \E a \in Args : handlePush(k, a, left)
  PROVE  DbInv' /\ Kept
<1> DEFINE list == At(k, "list", <<>>)
<1>0. "list" \in Type
  BY DEF Type
<1>1. list \in Seq(Element) /\ (Has(k, "list") => Len(list) <= MaxList) /\ MaxList \in Nat
  BY StoreAssumption DEF DbInv, At, Has, Good
<1>2. ASSUME NEW a \in Args, handlePush(k, a, left) PROVE DbInv' /\ Kept
  <2> DEFINE new == IF left THEN a \o list ELSE list \o a
  <2>1. a \in Seq(Element) /\ a # <<>>
    BY ArgsType
  <2>2. new \in Seq(Element) /\ new # <<>>
    <3> HIDE DEF list
    <3> QED BY <1>1, <2>1
  <2>3. /\ db' = db \/ (~WrongType(k, "list") /\ db' = Put(k, "list", new))
        /\ UNCHANGED clusterEnabled /\ Len(new) <= MaxList
    BY <1>2 DEF handlePush, Done
  <2> HIDE DEF new, list
  <2>4. Good("list", new)
    BY <2>2, <2>3 DEF Good
  <2> QED BY <1>0, <2>3, <2>4, ValueStep
<1>3. CASE handlePop(k, left)
  <2> DEFINE rest == IF left THEN Tail(list) ELSE SubSeq(list, 1, Len(list) - 1)
  <2>1. UNCHANGED clusterEnabled /\ last'.cmd = "pop"
    BY <1>3 DEF handlePop, Done
  <2>2. CASE list = <<>>
    BY <1>3, <2>1, <2>2, SameStep DEF handlePop
  <2>3. CASE list # <<>>
    <3>1. Has(k, "list")
      BY <2>3 DEF At
    <3>2. rest \in Seq(Element) /\ Len(rest) = Len(list) - 1
      <4> HIDE DEF list
      <4> QED BY <1>1, <2>3, Shorter
    <3>3. db' = IF Len(list) = 1 THEN Drop(k, "list") ELSE Put(k, "list", rest)
      BY <1>3, <2>3 DEF handlePop
    <3>4. "list" \in Disappearing("pop")
      BY DEF Disappearing
    <3> HIDE DEF list, rest
    <3>5. Len(list) # 1 => rest # <<>> /\ Len(rest) <= MaxList
      BY <1>1, <2>3, <3>1, <3>2
    <3>6. Len(list) # 1 => Good("list", rest)
      BY <3>2, <3>5 DEF Good
    <3> QED BY <1>0, <2>1, <3>1, <3>3, <3>4, <3>6, ValueStep, Zenon
  <2> QED BY <2>2, <2>3, Zenon
<1> QED BY <1>2, <1>3

-----------------------------------------------------------------------------
(* The commands on hashes, sets and sorted sets, and what they count *)

SizeOf(t, v) == Cardinality(IF t = "set" THEN v ELSE DOMAIN v)

\* The number that a command answers, and what it means.
Answer == last'.replies[1][2]
Change == IF last'.cmd \in {"sadd", "zadd"} THEN Answer ELSE -Answer
Told ==
  Counted(last'.cmd) # "none" =>
    \A k \in Key, t \in Type \ {"string"} :
      Count(k, t)' = IF k \in last'.keys /\ t = Counted(last'.cmd)
                       THEN Count(k, t) + Change ELSE Count(k, t)

LEMMA AnswerIs ==
  ASSUME NEW n, last'.replies = <<Number(n)>>
  PROVE  Answer = n
BY DEF Answer, Number

LEMMA ErrorAnswer ==
  ASSUME last'.replies = <<Error>>
  PROVE  Answer = 0
BY DEF Answer, Error

\* A command that changes only the value of type t under key k.
LEMMA CountStep ==
  ASSUME DbInv, NEW k \in Key, NEW t \in Type \ {"string"}, NEW v, NEW change,
         clusterEnabled => DOMAIN db[k] \subseteq {t},
         \/ db' = Put(k, t, v) /\ SizeOf(t, v) = Count(k, t) + change
         \/ db' = Drop(k, t) /\ 0 = Count(k, t) + change
  PROVE  \A j \in Key, u \in Type \ {"string"} :
           Count(j, u)' = IF j = k /\ u = t THEN Count(j, u) + change ELSE Count(j, u)
<1> SUFFICES ASSUME NEW j \in Key, NEW u \in Type \ {"string"}
             PROVE  Count(j, u)' = IF j = k /\ u = t THEN Count(j, u) + change ELSE Count(j, u)
  OBVIOUS
<1>1. CASE db' = Put(k, t, v) /\ SizeOf(t, v) = Count(k, t) + change
  <2>1. /\ \A i \in Key : i # k => db'[i] = db[i]
        /\ DOMAIN db'[k] = {t} \cup (IF clusterEnabled THEN {} ELSE DOMAIN db[k])
        /\ db'[k][t] = v
        /\ \A w \in DOMAIN db'[k] : w # t => w \in DOMAIN db[k] /\ db'[k][w] = db[k][w]
    BY <1>1, PutEffect
  <2>2. CASE j = k /\ u = t
    BY <1>1, <2>1, <2>2, Zenon DEF Count, Has, SizeOf
  <2>3. CASE j = k /\ u # t
    <3>1. u \in DOMAIN db'[k] <=> u \in DOMAIN db[k]
      BY <2>1, <2>3, Zenon
    <3> QED BY <2>1, <2>3, <3>1, Zenon DEF Count, Has
  <2>4. CASE j # k
    BY <2>1, <2>4, Zenon DEF Count, Has
  <2> QED BY <2>2, <2>3, <2>4, Zenon
<1>2. CASE db' = Drop(k, t) /\ 0 = Count(k, t) + change
  <2>1. /\ \A i \in Key : i # k => db'[i] = db[i]
        /\ DOMAIN db'[k] = DOMAIN db[k] \ {t}
        /\ \A w \in DOMAIN db'[k] : db'[k][w] = db[k][w]
    BY <1>2, DropEffect, Zenon
  <2>2. CASE j = k /\ u = t
    BY <1>2, <2>1, <2>2, Zenon DEF Count, Has
  <2>3. CASE j = k /\ u # t
    BY <2>1, <2>3, Zenon DEF Count, Has
  <2>4. CASE j # k
    BY <2>1, <2>4 DEF Count, Has
  <2> QED BY <2>2, <2>3, <2>4
<1> QED BY <1>1, <1>2, Zenon

\* One that changes nothing, and says so.
LEMMA CountSame ==
  ASSUME db' = db, NEW k, NEW t
  PROVE  Count(k, t)' = Count(k, t)
BY DEF Count, Has

LEMMA CountType ==
  ASSUME DbInv, NEW k \in Key, NEW t \in {"hash", "set", "zset"}
  PROVE  /\ Count(k, t) \in Nat
         /\ Has(k, t) => Count(k, t) = SizeOf(t, db[k][t])
         /\ ~Has(k, t) => Count(k, t) = 0
<1>1. \A S \in SUBSET Element : Cardinality(S) \in Nat
  BY Sizes
<1>2. ASSUME NEW z \in Seq(Member) PROVE Cardinality(DOMAIN z) = Len(z) /\ Len(z) \in Nat
  <2>1. DOMAIN z = 1..Len(z) /\ Len(z) \in Nat
    OBVIOUS
  <2>2. Cardinality(1..Len(z)) = IF 1 > Len(z) THEN 0 ELSE Len(z) - 1 + 1
    BY <2>1, FS_Interval
  <2> QED BY <2>1, <2>2
<1>3. Has(k, t) => Good(t, db[k][t])
  BY DEF DbInv, Has
<1>4. \A v \in Fields : DOMAIN v \in SUBSET Element
  BY DEF Fields
<1>5. CASE t = "zset"
  BY <1>2, <1>3, <1>5, Zenon DEF Count, SizeOf, Good, ZSet
<1>6. CASE t = "set"
  BY <1>1, <1>3, <1>6, Zenon DEF Count, SizeOf, Good
<1>7. CASE t = "hash"
  BY <1>1, <1>3, <1>4, <1>7 DEF Count, SizeOf, Good
<1> QED BY <1>5, <1>6, <1>7

LEMMA NoChange == \A n \in Nat : n = 0 => -n = 0
<1> TAKE n \in Nat
<1>1. 0 - n = -n
  OBVIOUS
<1>2. n = 0 => 0 - n = 0
  OBVIOUS
<1> QED BY <1>1, <1>2

\* The number in the reply and the change of the value of type t under key k agree.
LEMMA ToldStep ==
  ASSUME DbInv, NEW k \in Key, NEW t \in {"hash", "set", "zset"}, NEW v,
         last'.keys = {k}, Counted(last'.cmd) = t, Answer \in Nat,
         \/ db' = db /\ Answer = 0
         \/ /\ ~WrongType(k, t) \/ Has(k, t)
            /\ db' = Put(k, t, v) /\ SizeOf(t, v) = Count(k, t) + Change
         \/ Has(k, t) /\ db' = Drop(k, t) /\ 0 = Count(k, t) + Change
  PROVE  Told
<1>0. t \in Type \ {"string"}
  BY DEF Type
<1> SUFFICES \A j \in Key, u \in Type \ {"string"} :
               Count(j, u)' = IF j = k /\ u = t THEN Count(j, u) + Change ELSE Count(j, u)
  BY DEF Told
<1>1. CASE db' = db /\ Answer = 0
  <2>1. Change = 0
    <3>1. -Answer = 0
      BY <1>1, NoChange, Zenon
    <3> QED BY <1>1, <3>1, Zenon DEF Change
  <2>2. Count(k, t) + Change = Count(k, t)
    BY <2>1, CountType
  <2> QED BY <1>1, <2>2, CountSame
<1>2. CASE ~(db' = db /\ Answer = 0)
  <2>1. clusterEnabled => DOMAIN db[k] \subseteq {t}
    BY <1>0, <1>2, TypeSeen
  <2> QED BY <1>0, <1>2, <2>1, CountStep
<1> QED BY <1>1, <1>2

LEMMA HashStep ==
  ASSUME DbInv, NEW k \in Key,
         \/ \E fields \in Fields : handleHMSet("hmset", k, fields) \/ handleHMSet("hset", k, fields)
         \/ \E a \in Args : handleHDel(k, a)
  PROVE  DbInv' /\ Kept /\ Told
<1> DEFINE hash == At(k, "hash", <<>>)
<1>0. "hash" \in Type /\ "hash" \in {"hash", "set", "zset"}
  BY DEF Type
<1>1. DOMAIN hash \in SUBSET Element /\ \A f \in DOMAIN hash : hash[f] \in Element
  BY DEF DbInv, At, Has, Good, Fields
<1>2. ASSUME NEW v, DOMAIN v \in SUBSET Element, DOMAIN v # {}, v = [f \in DOMAIN v |-> v[f]],
             \A f \in DOMAIN v : v[f] \in Element
      PROVE  Good("hash", v)
  BY <1>2 DEF Good, Fields
<1>3. ASSUME NEW cmd \in {"hmset", "hset"}, NEW fields \in Fields, handleHMSet(cmd, k, fields)
      PROVE  DbInv' /\ Kept /\ Told
  <2> DEFINE D == DOMAIN fields \cup DOMAIN hash
             new == [f \in D |-> IF f \in DOMAIN fields THEN fields[f] ELSE hash[f]]
  <2>1. /\ db' = (IF WrongType(k, "hash") THEN db ELSE Put(k, "hash", new))
        /\ UNCHANGED clusterEnabled /\ last'.cmd = cmd
    BY <1>3, Zenon DEF handleHMSet, Done
  <2>2. DOMAIN fields \in SUBSET Element /\ DOMAIN fields # {}
        /\ \A f \in DOMAIN fields : fields[f] \in Element
    BY Zenon DEF Fields
  <2> HIDE DEF hash
  <2>3. DOMAIN new = D /\ D \in SUBSET Element /\ D # {} /\ new = [f \in D |-> new[f]]
    BY <1>1, <2>2
  <2>4. \A f \in D : new[f] \in Element
    BY <1>1, <2>2
  <2> HIDE DEF new, D
  <2>5. Good("hash", new)
    BY <1>2, <2>3, <2>4
  <2>6. Counted(cmd) = "none"
    BY <1>3, Zenon DEF Counted
  <2>7. Told
    BY <2>1, <2>6 DEF Told
  <2> QED BY <1>0, <2>1, <2>5, <2>7, ValueStep, Zenon
<1>4. ASSUME NEW a \in Args, handleHDel(k, a) PROVE DbInv' /\ Kept /\ Told
  <2> DEFINE left == removeMembers(DOMAIN hash, a)
             new == [f \in left.set |-> hash[f]]
  <2>1. /\ db' = IF ~Has(k, "hash") THEN db
                 ELSE IF left.set = {} THEN Drop(k, "hash") ELSE Put(k, "hash", new)
        /\ UNCHANGED clusterEnabled /\ last'.cmd = "hdel" /\ last'.keys = {k}
        /\ last'.replies = <<Number(left.n)>>
    BY <1>4, Zenon DEF handleHDel, Done
  <2>2. "hash" \in Disappearing("hdel") /\ Counted("hdel") = "hash"
    BY Zenon DEF Disappearing, Counted
  <2>3. Count(k, "hash") = Cardinality(DOMAIN hash) /\ Count(k, "hash") \in Nat
    <3>1. ~Has(k, "hash") => DOMAIN hash = {}
      BY DEF At
    <3>2. Has(k, "hash") => Count(k, "hash") = SizeOf("hash", db[k]["hash"])
      BY <1>0, CountType, Zenon
    <3>3. Has(k, "hash") => db[k]["hash"] = hash
      BY DEF At
    <3>4. \A v : SizeOf("hash", v) = Cardinality(DOMAIN v)
      BY DEF SizeOf
    <3>5. (~Has(k, "hash") => Count(k, "hash") = 0) /\ Count(k, "hash") \in Nat
      BY <1>0, CountType, Zenon
    <3> HIDE DEF hash
    <3> QED BY <3>1, <3>2, <3>3, <3>4, <3>5, FS_EmptySet, Zenon
  <2>4. ~Has(k, "hash") => Cardinality(DOMAIN hash) = 0
    BY <1>0, <2>3, CountType
  <2> HIDE DEF hash
  <2>5. /\ left.set \in SUBSET DOMAIN hash /\ left.n \in Nat
        /\ Cardinality(left.set) = Cardinality(DOMAIN hash) - left.n
    BY <1>1, Removed, ArgsType, Zenon
  <2> HIDE DEF left
  <2>6. DOMAIN new = left.set /\ new = [f \in DOMAIN new |-> new[f]]
        /\ \A f \in DOMAIN new : new[f] \in Element
    BY <1>1, <2>5
  <2>7. left.set # {} => Good("hash", new)
    <3> HIDE DEF new
    <3> QED BY <1>1, <1>2, <2>5, <2>6, Zenon
  <2>8. SizeOf("hash", new) = Count(k, "hash") + (-left.n)
    <3> HIDE DEF new
    <3> QED BY <2>3, <2>5, <2>6, Zenon DEF SizeOf
  <2>9. left.set = {} => 0 = Count(k, "hash") + (-left.n)
    BY <2>3, <2>5, FS_EmptySet
  <2>10. ~Has(k, "hash") => left.n = 0
    <3>1. left.set \in SUBSET Element
      BY <1>1, <2>5, Zenon
    <3>2. Cardinality(left.set) \in Nat
      BY <3>1, Sizes, Zenon
    <3> QED BY <2>4, <2>5, <3>2
  <2> HIDE DEF new
  <2>11. DbInv' /\ Kept
    BY <1>0, <2>1, <2>2, <2>7, ValueStep, Zenon
  <2>12. Answer = left.n
    BY <2>1, AnswerIs, Zenon
  <2>13. Change = -left.n
    BY <2>1, <2>12 DEF Change
  <2>14. Told
    BY <1>0, <2>1, <2>2, <2>5, <2>8, <2>9, <2>10, <2>12, <2>13, ToldStep, Zenon
  <2> QED BY <2>11, <2>14
<1> QED BY <1>3, <1>4

LEMMA SetStep ==
  ASSUME DbInv, NEW k \in Key, NEW a \in Args, handleSAdd(k, a) \/ handleSRem(k, a)
  PROVE  DbInv' /\ Kept /\ Told
<1> DEFINE set == At(k, "set", {})
<1>0. "set" \in Type /\ "set" \in {"hash", "set", "zset"}
  BY DEF Type
<1>1. set \in SUBSET Element
  BY Zenon DEF DbInv, At, Has, Good
<1>2. Count(k, "set") = Cardinality(set) /\ Count(k, "set") \in Nat
  <2>1. ~Has(k, "set") => set = {}
    BY Zenon DEF At
  <2>2. Has(k, "set") => Count(k, "set") = SizeOf("set", set)
    BY <1>0, CountType DEF At
  <2>3. SizeOf("set", set) = Cardinality(set)
    BY DEF SizeOf
  <2>4. (~Has(k, "set") => Count(k, "set") = 0) /\ Count(k, "set") \in Nat
    BY <1>0, CountType
  <2> HIDE DEF set
  <2> QED BY <2>1, <2>2, <2>3, <2>4, FS_EmptySet, Zenon
<1>3. ~Has(k, "set") => Cardinality(set) = 0
  BY <1>0, <1>2, CountType, Zenon
<1>4. a \in Seq(Element) /\ a # <<>>
  BY ArgsType
<1>6. CASE handleSAdd(k, a)
  <2> DEFINE new == addMembers(set, a)
  <2>1. /\ IF WrongType(k, "set") THEN db' = db /\ last'.replies = <<Number(0)>>
           ELSE db' = Put(k, "set", new.set) /\ last'.replies = <<Number(new.n)>>
        /\ UNCHANGED clusterEnabled /\ last'.cmd = "sadd" /\ last'.keys = {k}
    BY <1>6 DEF handleSAdd, Done
  <2>2. Counted("sadd") = "set"
    BY DEF Counted
  <2> HIDE DEF set
  <2>3. /\ new.set \in SUBSET Element /\ new.n \in Nat /\ new.set # {}
        /\ Cardinality(new.set) = Cardinality(set) + new.n
    BY <1>1, <1>4, Added, Zenon
  <2> HIDE DEF new
  <2>4. Good("set", new.set)
    BY <2>3, Zenon DEF Good
  <2>5. SizeOf("set", new.set) = Count(k, "set") + new.n
    BY <1>2, <2>3, Zenon DEF SizeOf
  <2>6. DbInv' /\ Kept
    BY <1>0, <2>1, <2>4, ValueStep, Zenon
  <2>7. CASE WrongType(k, "set")
    <3>1. db' = db /\ last'.replies = <<Number(0)>>
      BY <2>1, <2>7, Zenon
    <3>2. Answer = 0
      BY <3>1, AnswerIs
    <3>3. Told
      BY <1>0, <2>1, <2>2, <3>1, <3>2, ToldStep, Zenon
    <3> QED BY <2>6, <3>3, Zenon
  <2>8. CASE ~WrongType(k, "set")
    <3>1. db' = Put(k, "set", new.set) /\ last'.replies = <<Number(new.n)>>
      BY <2>1, <2>8, Zenon
    <3>2. Answer = new.n
      BY <3>1, AnswerIs, Zenon
    <3>3. Change = new.n
      BY <2>1, <3>2 DEF Change
    <3>4. Told
      BY <1>0, <2>1, <2>2, <2>3, <2>5, <2>8, <3>1, <3>2, <3>3, ToldStep, Zenon
    <3> QED BY <2>6, <3>4
  <2> QED BY <2>7, <2>8, Zenon
<1>7. CASE handleSRem(k, a)
  <2> DEFINE left == removeMembers(set, a)
  <2>1. /\ db' = IF ~Has(k, "set") THEN db
                 ELSE IF left.set = {} THEN Drop(k, "set") ELSE Put(k, "set", left.set)
        /\ UNCHANGED clusterEnabled /\ last'.cmd = "srem" /\ last'.keys = {k}
        /\ last'.replies = <<Number(left.n)>>
    BY <1>7, Zenon DEF handleSRem, Done
  <2>2. "set" \in Disappearing("srem") /\ Counted("srem") = "set"
    BY DEF Disappearing, Counted
  <2> HIDE DEF set
  <2>3. /\ left.set \in SUBSET set /\ left.n \in Nat
        /\ Cardinality(left.set) = Cardinality(set) - left.n
    BY <1>1, <1>4, Removed, Zenon
  <2> HIDE DEF left
  <2>4. left.set # {} => Good("set", left.set)
    BY <1>1, <2>3, Zenon DEF Good
  <2>5. SizeOf("set", left.set) = Count(k, "set") + (-left.n)
    BY <1>2, <2>3 DEF SizeOf
  <2>6. left.set = {} => 0 = Count(k, "set") + (-left.n)
    BY <1>2, <2>3, FS_EmptySet, Zenon
  <2>7. ~Has(k, "set") => left.n = 0
    <3>1. Cardinality(left.set) \in Nat
      BY <1>1, <2>3, Sizes, Zenon
    <3> QED BY <1>3, <2>3, <3>1
  <2>8. DbInv' /\ Kept
    BY <1>0, <2>1, <2>2, <2>4, ValueStep, Zenon
  <2>9. Answer = left.n
    BY <2>1, AnswerIs
  <2>10. Change = -left.n
    BY <2>1, <2>9, Zenon DEF Change
  <2>11. Told
    BY <1>0, <2>1, <2>2, <2>3, <2>5, <2>6, <2>7, <2>9, <2>10, ToldStep, Zenon
  <2> QED BY <2>8, <2>11
<1> QED BY <1>6, <1>7

\* The pairs of a ZADD, when none of the scores is refused.
LEMMA PairsType ==
  ASSUME NEW pairs \in Pairs, \A i \in DOMAIN pairs : pairs[i].score # NoScore
  PROVE  pairs \in Seq(Member) /\ pairs # <<>>
<1> DEFINE Pair == [score : Score \cup {NoScore}, member : Element]
<1>1. PICK n \in 0..MaxArgs : pairs \in [1..n -> Pair]
  BY Zenon DEF Pairs, SeqsUpTo
<1>2. n \in Nat /\ pairs # <<>>
  BY StoreAssumption DEF Pairs
<1>3. \A i \in 1..n : pairs[i] \in Member
  <2> SUFFICES ASSUME NEW i \in 1..n PROVE pairs[i] \in Member
    OBVIOUS
  <2>1. pairs[i] \in Pair /\ pairs[i].score # NoScore
    BY <1>1
  <2> QED BY <2>1 DEF Member
<1>4. pairs \in [1..n -> Member]
  BY <1>1, <1>3
<1> QED BY <1>2, <1>4

LEMMA ZSetStep ==
  ASSUME DbInv, NEW k \in Key,
         (\E a \in Args : handleZRem(k, a)) \/ \E pairs \in Pairs : handleZAdd(k, pairs)
  PROVE  DbInv' /\ Kept /\ Told
<1> DEFINE z == At(k, "zset", <<>>)
<1>0. "zset" \in Type /\ "zset" \in {"hash", "set", "zset"}
  BY DEF Type
<1>1. z \in Seq(Member) /\ Distinct(z) /\ (NaN \notin Score => Sorted(z)) /\ Len(z) \in Nat
  <2>1. CASE Has(k, "zset")
    BY <2>1 DEF DbInv, At, Has, Good, ZSet
  <2>2. CASE ~Has(k, "zset")
    <3>1. z = <<>>
      BY <2>2 DEF At
    <3> HIDE DEF z
    <3>2. Len(z) = 0 /\ z \in Seq(Member)
      BY <3>1
    <3> QED BY <3>2 DEF Distinct, Sorted
  <2> QED BY <2>1, <2>2
<1>2. \A s \in Seq(Member) : SizeOf("zset", s) = Len(s) /\ Len(s) \in Nat
  <2> SUFFICES ASSUME NEW s \in Seq(Member) PROVE SizeOf("zset", s) = Len(s) /\ Len(s) \in Nat
    OBVIOUS
  <2>1. DOMAIN s = 1..Len(s) /\ Len(s) \in Nat
    OBVIOUS
  <2>2. Cardinality(1..Len(s)) = IF 1 > Len(s) THEN 0 ELSE Len(s) - 1 + 1
    BY <2>1, FS_Interval
  <2> QED BY <2>1, <2>2 DEF SizeOf
<1>3. Count(k, "zset") = Len(z) /\ (~Has(k, "zset") => Len(z) = 0)
  <2>1. ~Has(k, "zset") => z = <<>>
    BY Zenon DEF At
  <2>2. Has(k, "zset") => z = db[k]["zset"]
    BY DEF At
  <2> HIDE DEF z
  <2> QED BY <1>0, <1>1, <1>2, <2>1, <2>2, CountType, Zenon
<1>5. ASSUME NEW a \in Args, handleZRem(k, a) PROVE DbInv' /\ Kept /\ Told
  <2> DEFINE kept == zrem(z, Range(a))
             removed == Len(z) - Len(kept)
  <2>1. /\ db' = IF ~Has(k, "zset") \/ removed = 0 THEN db
                 ELSE IF kept = <<>> THEN Drop(k, "zset") ELSE Put(k, "zset", kept)
        /\ UNCHANGED clusterEnabled /\ last'.cmd = "zrem" /\ last'.keys = {k}
        /\ last'.replies = <<Number(removed)>>
    BY <1>5 DEF handleZRem, Done
  <2>2. "zset" \in Disappearing("zrem") /\ Counted("zrem") = "zset"
    BY DEF Disappearing, Counted
  <2> HIDE DEF z
  <2>3. /\ kept \in Seq(Member) /\ Len(kept) <= Len(z) /\ Distinct(kept)
        /\ NaN \notin Score => Sorted(kept)
    BY <1>1, ZremIs
  <2> HIDE DEF kept
  <2>4. Len(kept) \in Nat /\ removed \in Nat /\ Len(kept) = Len(z) + (-removed)
    BY <1>1, <2>3
  <2>5. ~Has(k, "zset") => removed = 0
    BY <1>3, <2>3, <2>4
  <2>6. kept = <<>> => 0 = Count(k, "zset") + (-removed)
    BY <1>1, <1>3
  <2> HIDE DEF removed
  <2>7. kept # <<>> => Good("zset", kept)
    BY <2>3 DEF Good, ZSet
  <2>8. SizeOf("zset", kept) = Count(k, "zset") + (-removed)
    BY <1>2, <1>3, <2>3, <2>4
  <2>9. DbInv' /\ Kept
    BY <1>0, <2>1, <2>2, <2>7, ValueStep, Zenon
  <2>10. Answer = removed
    BY <2>1, AnswerIs, Zenon
  <2>11. Change = -removed
    BY <2>1, <2>10, Zenon DEF Change
  <2>12. Told
    BY <1>0, <2>1, <2>2, <2>4, <2>5, <2>6, <2>8, <2>10, <2>11, ToldStep, Zenon
  <2> QED BY <2>9, <2>12, Zenon
<1>6. ASSUME NEW pairs \in Pairs, handleZAdd(k, pairs) PROVE DbInv' /\ Kept /\ Told
  <2> DEFINE refused == WrongType(k, "zset") \/ \E i \in DOMAIN pairs : pairs[i].score = NoScore
             new == zadd(z, pairs)
  <2>1. /\ IF refused THEN db' = db /\ last'.replies = <<Error>>
           ELSE db' = Put(k, "zset", new.next) /\ last'.replies = <<Number(new.added)>>
        /\ UNCHANGED clusterEnabled /\ last'.cmd = "zadd" /\ last'.keys = {k}
    BY <1>6 DEF handleZAdd, Done
  <2>2. Counted("zadd") = "zset"
    BY DEF Counted
  <2>3. CASE refused
    <3>0. db' = db /\ last'.replies = <<Error>>
      BY <2>1, <2>3, Zenon
    <3> HIDE DEF z, refused, new
    <3>1. DbInv' /\ Kept
      BY <2>1, <3>0, SameStep, Zenon
    <3>2. Answer = 0
      BY <3>0, ErrorAnswer, Zenon
    <3>3. Told
      BY <1>0, <2>1, <2>2, <3>0, <3>2, ToldStep, Zenon
    <3> QED BY <3>1, <3>3
  <2>4. CASE ~refused
    <3>1. pairs \in Seq(Member) /\ pairs # <<>>
      BY <2>4, PairsType
    <3>2. ~WrongType(k, "zset")
      BY <2>4, Zenon
    <3> HIDE DEF z, refused
    <3>3. /\ new.next \in Seq(Member) \ {<<>>} /\ Distinct(new.next)
          /\ NaN \notin Score => Sorted(new.next)
          /\ new.added \in Nat /\ Len(new.next) = Len(z) + new.added
      BY <1>1, <3>1, ZaddIs, Zenon
    <3> HIDE DEF new
    <3>4. Good("zset", new.next)
      BY <3>3 DEF Good, ZSet
    <3>5. SizeOf("zset", new.next) = Count(k, "zset") + new.added
      BY <1>2, <1>3, <3>3, Zenon
    <3>6. DbInv' /\ Kept
      BY <1>0, <2>1, <2>4, <3>2, <3>4, ValueStep, Zenon
    <3>7. db' = Put(k, "zset", new.next) /\ Answer = new.added
      BY <2>1, <2>4, AnswerIs, Zenon
    <3>8. Change = new.added
      BY <2>1, <3>7 DEF Change
    <3>9. Told
      BY <1>0, <2>1, <2>2, <3>2, <3>3, <3>5, <3>7, <3>8, ToldStep, Zenon
    <3> QED BY <3>6, <3>9
  <2> QED BY <2>3, <2>4, Zenon
<1> QED BY <1>5, <1>6

-----------------------------------------------------------------------------
(* The commands on keys, and all of them *)

LEMMA KeysStep ==
  ASSUME DbInv,
         \/ FlushAll \/ handlePing \/ Reject
         \/ \E keys \in SeqsUpTo(Key, 2) : handleDelete(keys)
  PROVE  DbInv' /\ Kept /\ Told
<1>1. CASE handlePing \/ Reject
  <2>1. db' = db /\ UNCHANGED clusterEnabled /\ last'.cmd \in {"ping", "reject"}
    <3>1. \A q : Done("ping", {}, q) \/ Done("reject", {}, q) =>
                   UNCHANGED clusterEnabled /\ last'.cmd \in {"ping", "reject"}
      BY DEF Done
    <3>2. db' = db /\ \E q : Done("ping", {}, q) \/ Done("reject", {}, q)
      BY <1>1, Zenon DEF handlePing, Reject
    <3> QED BY <3>1, <3>2, Zenon
  <2>2. Counted("ping") = "none" /\ Counted("reject") = "none"
    BY DEF Counted
  <2>3. Told
    BY <2>1, <2>2, Zenon DEF Told
  <2> QED BY <2>1, <2>3, SameStep, Zenon
<1>2. CASE FlushAll
  <2>1. UNCHANGED clusterEnabled /\ last'.cmd = "flushall"
    BY <1>2 DEF FlushAll, Done
  <2>2. db' = [k \in Key |-> IF k \in Key THEN <<>> ELSE db[k]]
    BY <1>2, Zenon DEF FlushAll
  <2>3. Disappearing("flushall") = Type /\ Counted("flushall") = "none"
    BY Zenon DEF Disappearing, Counted
  <2>4. Told
    BY <2>1, <2>3 DEF Told
  <2> QED BY <2>1, <2>2, <2>3, <2>4, ClearStep, Zenon
<1>3. ASSUME NEW keys \in SeqsUpTo(Key, 2), handleDelete(keys) PROVE DbInv' /\ Kept /\ Told
  <2> DEFINE K == {k \in Key : k \in Range(keys)}
  <2>1. UNCHANGED clusterEnabled /\ last'.cmd = "del"
    BY <1>3, Zenon DEF handleDelete, Done
  <2>2. db' = [k \in Key |-> IF k \in K THEN <<>> ELSE db[k]]
    BY <1>3, Zenon DEF handleDelete
  <2>3. Disappearing("del") = Type /\ Counted("del") = "none"
    BY DEF Disappearing, Counted
  <2> HIDE DEF K
  <2>4. K \in SUBSET Key
    BY Zenon DEF K
  <2>5. Told
    BY <2>1, <2>3, Zenon DEF Told
  <2> QED BY <2>1, <2>2, <2>3, <2>4, <2>5, ClearStep, Zenon
<1> QED BY <1>1, <1>2, <1>3

LEMMA StringTold ==
  ASSUME NEW k \in Key, NEW s,
         \/ handleSet(k, s) \/ handleAppend(k, s) \/ handleIncrBy(k, s) \/ handleDecrBy(k, s)
         \/ handleIncr(k) \/ handleDecr(k)
         \/ \E left \in BOOLEAN : handlePop(k, left) \/ \E a \in Args : handlePush(k, a, left)
  PROVE  Told
<1>1. last'.cmd \in {"set", "append", "incr", "decr", "incrby", "decrby", "pop", "push"}
  <2>1. \A c, K, q : Done(c, K, q) => last'.cmd = c
    BY DEF Done
  <2>2. CASE handleSet(k, s) \/ handleAppend(k, s)
    BY <2>1, <2>2, Zenon DEF handleSet, handleAppend
  <2>3. ASSUME NEW c, NEW delta, changeInteger(c, k, delta) \/ NotAnInt(c, k) PROVE last'.cmd = c
    BY <2>1, <2>3 DEF changeInteger, NotAnInt
  <2>4. CASE handleIncrBy(k, s) \/ handleDecrBy(k, s) \/ handleIncr(k) \/ handleDecr(k)
    BY <2>3, <2>4, Zenon DEF handleIncr, handleDecr, handleIncrBy, handleDecrBy
  <2>5. ASSUME NEW left \in BOOLEAN, handlePop(k, left) PROVE last'.cmd = "pop"
    BY <2>1, <2>5, Zenon DEF handlePop
  <2>6. ASSUME NEW left \in BOOLEAN, NEW a \in Args, handlePush(k, a, left) PROVE last'.cmd = "push"
    BY <2>1, <2>6, Zenon DEF handlePush
  <2> QED BY <2>2, <2>4, <2>5, <2>6, Zenon
<1>2. Counted(last'.cmd) = "none"
  BY <1>1 DEF Counted
<1> QED BY <1>2 DEF Told

LEMMA DbStep == DbInv /\ Next => DbInv' /\ Kept /\ Told
<1> SUFFICES ASSUME DbInv, Next PROVE DbInv' /\ Kept /\ Told
  OBVIOUS
<1>1. String # {}
  BY DEF String
<1>2. ASSUME NEW f \in Element, NEW v \in Element PROVE [x \in {f} |-> v] \in Fields
  <2>1. {f} \in (SUBSET Element) \ {{}} /\ [x \in {f} |-> v] \in [{f} -> Element]
    BY Zenon
  <2> QED BY <2>1, Zenon DEF Fields
<1> QED BY <1>1, <1>2, StringStep, ListStep, StringTold, HashStep, SetStep, ZSetStep, KeysStep, Zenon DEF Next

LEMMA DbInit == Init => DbInv
BY DEF Init, DbInv

LEMMA DbInvariant == Spec => []DbInv
<1>1. DbInv /\ [Next]_vars => DbInv'
  <2>1. DbInv /\ UNCHANGED vars => DbInv'
    BY SameStep DEF vars
  <2> QED BY <2>1, DbStep
<1> QED BY <1>1, DbInit, PTL DEF Spec

\* The values under a key have their types and are never empty ones, and a key of a
\* cluster node has one of them: the handlers of utils/kvstore delete what they leave
\* empty, and keep an int within its width.
THEOREM TypeCorrect == Spec => []TypeOK
<1>1. DbInv => TypeOK
  <2> SUFFICES ASSUME DbInv, NEW k \in Key
               PROVE  /\ DOMAIN db[k] \subseteq Type
                      /\ clusterEnabled => Cardinality(DOMAIN db[k]) <= 1
                      /\ Has(k, "string") => db[k]["string"] \in String
                      /\ Has(k, "list") => db[k]["list"] \in SeqsUpTo(Element, MaxList) \ {<<>>}
                      /\ Has(k, "hash") => db[k]["hash"] \in Fields
                      /\ Has(k, "set") => db[k]["set"] \in (SUBSET Element) \ {{}}
                      /\ Has(k, "zset") => db[k]["zset"] \in Seq([score : Score, member : Element]) \ {<<>>}
    BY Zenon DEF TypeOK
  <2>1. DOMAIN db[k] \subseteq Type /\ \A t \in DOMAIN db[k] : Good(t, db[k][t])
    BY DEF DbInv
  <2>2. clusterEnabled => Cardinality(DOMAIN db[k]) <= 1
    <3> SUFFICES ASSUME clusterEnabled PROVE Cardinality(DOMAIN db[k]) <= 1
      OBVIOUS
    <3>1. CASE DOMAIN db[k] = {}
      BY <3>1, FS_EmptySet
    <3>2. ASSUME NEW t \in DOMAIN db[k] PROVE Cardinality(DOMAIN db[k]) <= 1
      <4>1. DOMAIN db[k] = {t}
        BY DEF DbInv
      <4>2. Cardinality({t}) = 1
        BY FS_Singleton, Zenon
      <4> QED BY <4>1, <4>2
    <3> QED BY <3>1, <3>2, Zenon
  <2>3. \A l \in Seq(Element) : l # <<>> /\ Len(l) <= MaxList => l \in SeqsUpTo(Element, MaxList) \ {<<>>}
    <3> SUFFICES ASSUME NEW l \in Seq(Element), l # <<>>, Len(l) <= MaxList
                 PROVE  l \in SeqsUpTo(Element, MaxList)
      OBVIOUS
    <3>1. Len(l) \in 0..MaxList /\ l \in [1..Len(l) -> Element]
      BY StoreAssumption
    <3> QED BY <3>1, Zenon DEF SeqsUpTo
  <2>4. Has(k, "list") => db[k]["list"] \in SeqsUpTo(Element, MaxList) \ {<<>>}
    BY <2>1, <2>3 DEF Has, Good
  <2>5. Has(k, "zset") => db[k]["zset"] \in Seq([score : Score, member : Element]) \ {<<>>}
    BY <2>1, Zenon DEF Has, Good, ZSet, Member
  <2>6. Has(k, "set") => db[k]["set"] \in (SUBSET Element) \ {{}}
    BY <2>1, Zenon DEF Has, Good
  <2>7. Has(k, "string") => db[k]["string"] \in String
    BY <2>1, Zenon DEF Has, Good
  <2>8. Has(k, "hash") => db[k]["hash"] \in Fields
    BY <2>1 DEF Has, Good
  <2> QED BY <2>1, <2>2, <2>4, <2>5, <2>6, <2>7, <2>8, Zenon
<1> QED BY <1>1, DbInvariant, PTL

\* A sorted set has a member once and is in the order of its scores, after any ZADDs
\* and ZREMs (zadd, zrem and the sort of sortedsets.go), if no score is NaN: nothing is
\* less than NaN, and an insertion past one stops there.
THEOREM ZSetCorrect == ASSUME NaN \notin Score PROVE Spec => []ZSetSorted
<1>1. DbInv => ZSetSorted
  <2> SUFFICES ASSUME DbInv, NEW k \in Key, Has(k, "zset")
               PROVE  LET z == db[k]["zset"]
                      IN  \A i, j \in DOMAIN z : i < j => z[i].member # z[j].member /\ ~Less(z[j], z[i])
    BY DEF ZSetSorted
  <2> DEFINE z == db[k]["zset"]
  <2>1. z \in Seq(Member) /\ Distinct(z) /\ Sorted(z)
    BY DEF DbInv, Has, Good, ZSet
  <2> HIDE DEF z
  <2>2. DOMAIN z = 1..Len(z)
    BY <2>1
  <2>3. \A i, j \in DOMAIN z : i < j => z[i].member # z[j].member /\ ~Less(z[j], z[i])
    BY <2>1, <2>2 DEF Distinct, Sorted
  <2> QED BY <2>3, Zenon DEF z
<1> QED BY <1>1, DbInvariant, PTL

\* A value goes away only by a command on its own type, by SET, DEL or FLUSHALL: the
\* commands of utils/kvstore look at the tag of a cluster node's value before they
\* replace it, and keep apart the maps of a standalone one.
THEOREM OtherTypesCorrect == Spec => OtherTypesKept
<1>1. DbInv /\ [Next]_vars =>
        [\A k \in Key : DOMAIN db[k] \ DOMAIN db'[k] \subseteq Disappearing(last'.cmd)]_vars
  BY DbStep DEF Kept
<1> QED BY <1>1, DbInvariant, PTL DEF Spec, OtherTypesKept

\* SADD, SREM, HDEL, ZADD and ZREM answer the number of elements that came or went
\* under their key, and nothing else came or went, for any number of arguments.
THEOREM CountsCorrect == Spec => CountsExact
<1>1. DbInv /\ [Next]_vars => [Told]_vars
  BY DbStep
<1>2. [][Told]_vars => CountsExact
  BY PTL DEF CountsExact, Told, Change, Answer
<1> QED BY <1>1, <1>2, DbInvariant, PTL DEF Spec

-----------------------------------------------------------------------------
(* Ranges *)

\* A range of positions, with its size and its first one.
LEMMA Interval ==
  ASSUME NEW a \in Int, NEW b \in Int, a <= b
  PROVE  Cardinality(a..b) = b - a + 1 /\ Min(a..b) = a
<1>1. Cardinality(a..b) = b - a + 1
  BY FS_Interval
<1>2. a \in a..b /\ \A y \in a..b : a <= y
  OBVIOUS
<1>3. \A x \in a..b : (\A y \in a..b : x <= y) => x = a
  BY <1>2
<1>4. Min(a..b) \in a..b /\ \A y \in a..b : Min(a..b) <= y
  BY <1>2, Zenon DEF Min
<1> QED BY <1>1, <1>3, <1>4, Zenon

\* The position x names in a sequence of n elements, and those from one to another.
Position(n, x) == IF x < 0 THEN x + n ELSE x
Inside(n, start, end) == {i \in 0..(n - 1) : Position(n, start) <= i /\ i <= Position(n, end)}

\* rangeBounds for any sequence and any two positions.
LEMMA RangeIs ==
  ASSUME NEW X, NEW seq \in Seq(X), NEW start \in Int, NEW end \in Int
  PROVE  Range0(seq, start, end) =
           [i \in 1..Cardinality(Inside(Len(seq), start, end)) |->
              seq[Min(Inside(Len(seq), start, end)) + i]]
<1> DEFINE n == Len(seq)
           p == Position(n, start)
           q == Position(n, end)
           inside == Inside(n, start, end)
           s2 == IF p < 0 THEN 0 ELSE p
           e2 == IF q >= n THEN n - 1 ELSE q
           ok == ~(s2 > e2 \/ s2 >= n \/ e2 < 0)
<1>0. n \in Nat /\ p \in Int /\ q \in Int
  BY DEF Position
<1>1. n \in Nat /\ s2 \in Int /\ e2 \in Int
  <2> HIDE DEF p, q, n
  <2> QED BY <1>0
<1>2. rangeBounds(n, start, end) = [start |-> s2, end |-> e2, ok |-> ok]
  BY DEF rangeBounds, Position
<1>3. Range0(seq, start, end) = IF ok THEN SubSeq(seq, s2 + 1, e2 + 1) ELSE <<>>
  <2> DEFINE b == rangeBounds(n, start, end)
  <2>1. Range0(seq, start, end) = IF b.ok THEN SubSeq(seq, b.start + 1, b.end + 1) ELSE <<>>
    BY DEF Range0
  <2> HIDE DEF s2, e2, ok
  <2>2. b.start = s2 /\ b.end = e2
    BY <1>2
  <2>3. b.ok = ok
    BY <1>2
  <2> QED BY <2>1, <2>2, <2>3
<1>4. CASE ok
  <2>1. inside = s2..e2 /\ s2 <= e2 /\ s2 \in 0..(n - 1) /\ e2 \in 0..(n - 1)
    <3>1. inside = {i \in 0..(n - 1) : p <= i /\ i <= q}
      BY DEF Inside
    <3> HIDE DEF p, q, n, inside
    <3> QED BY <1>0, <1>4, <3>1
  <2> HIDE DEF s2, e2, n, ok, inside
  <2>2. Cardinality(inside) = e2 - s2 + 1 /\ Min(inside) = s2
    BY <1>1, <2>1, Interval
  <2>3. n = Len(seq)
    BY DEF n
  <2>4. SubSeq(seq, s2 + 1, e2 + 1) = [i \in 1..(e2 - s2 + 1) |-> seq[s2 + i]]
    <3> DEFINE sub == SubSeq(seq, s2 + 1, e2 + 1)
    <3>1. s2 + 1 \in 1..Len(seq) /\ e2 + 1 \in 1..Len(seq) /\ s2 + 1 <= e2 + 1
      BY <1>1, <2>1, <2>3
    <3>2. sub \in Seq(X)
      BY <3>1
    <3>3. Len(sub) = (e2 + 1) - (s2 + 1) + 1
      BY <3>1
    <3>4. \A i \in 1..((e2 + 1) - (s2 + 1) + 1) : sub[i] = seq[(s2 + 1) + i - 1]
      BY <3>1
    <3> HIDE DEF sub
    <3>5. (e2 + 1) - (s2 + 1) + 1 = e2 - s2 + 1 /\ \A i \in Int : (s2 + 1) + i - 1 = s2 + i
      BY <1>1
    <3>6. Len(sub) = e2 - s2 + 1 /\ \A i \in 1..(e2 - s2 + 1) : sub[i] = seq[s2 + i]
      <4>1. Len(sub) = e2 - s2 + 1
        BY <3>3, <3>5, Zenon
      <4>2. ASSUME NEW i \in 1..(e2 - s2 + 1) PROVE sub[i] = seq[s2 + i]
        <5>1. i \in 1..((e2 + 1) - (s2 + 1) + 1) /\ i \in Int
          BY <3>5
        <5> QED BY <3>4, <3>5, <5>1, Zenon
      <4> QED BY <4>1, <4>2
    <3>7. sub = [i \in 1..(e2 - s2 + 1) |-> seq[s2 + i]]
      BY <1>1, <3>2, <3>6
    <3> QED BY <3>7 DEF sub
  <2>5. Range0(seq, start, end) = [i \in 1..Cardinality(inside) |-> seq[Min(inside) + i]]
    BY <1>3, <1>4, <2>2, <2>4, Zenon
  <2> QED BY <2>5 DEF inside, n
<1>5. CASE ~ok
  <2>1. inside = {}
    <3>1. inside = {i \in 0..(n - 1) : p <= i /\ i <= q}
      BY DEF Inside
    <3> HIDE DEF p, q, n, inside
    <3> QED BY <1>0, <1>5, <3>1
  <2>2. Cardinality(inside) = 0
    BY <2>1, FS_EmptySet
  <2> HIDE DEF ok
  <2>3. 1..0 = {}
    OBVIOUS
  <2>4. [i \in 1..0 |-> seq[Min(inside) + i]] = <<>>
    BY <2>3
  <2> QED BY <1>3, <1>5, <2>2, <2>4, Zenon
<1> QED BY <1>4, <1>5

\* LRANGE and ZRANGE return what is between the two positions (rangeBounds of lists.go),
\* for a list or sorted set of any length and any two positions around it, negative ones
\* and ones beyond its ends.
THEOREM RangeCorrect == Spec => []RangeExact
<1>1. DbInv => RangeExact
  <2> SUFFICES ASSUME DbInv, NEW k \in Key, NEW t \in {"list", "zset"},
                      NEW start \in -(MaxList + 2)..(MaxList + 2),
                      NEW end \in -(MaxList + 2)..(MaxList + 2)
               PROVE  LET all == At(k, t, <<>>)
                          n == Len(all)
                          pos(x) == IF x < 0 THEN x + n ELSE x
                          answer == IF t = "list" THEN LRange(k, start, end) ELSE ZRange(k, start, end)
                          shown(i) == IF t = "list" THEN all[i] ELSE all[i].member
                          inside == {i \in 0..(n - 1) : pos(start) <= i /\ i <= pos(end)}
                      IN  answer = [i \in 1..Cardinality(inside) |-> shown(Min(inside) + i)]
    BY Zenon DEF RangeExact
  <2> DEFINE all == At(k, t, <<>>)
             inside == Inside(Len(all), start, end)
  <2>1. start \in Int /\ end \in Int
    BY StoreAssumption
  <2>2. all \in Seq(Element) \/ all \in Seq(Member)
    BY DEF DbInv, At, Has, Good, ZSet
  <2>3. Range0(all, start, end) = [i \in 1..Cardinality(inside) |-> all[Min(inside) + i]]
    <3> HIDE DEF all
    <3>1. CASE all \in Seq(Element)
      BY <2>1, <3>1, RangeIs
    <3>2. CASE all \in Seq(Member)
      BY <2>1, <3>2, RangeIs
    <3> QED BY <2>2, <3>1, <3>2
  <2>4. CASE t = "list"
    BY <2>3, <2>4, Zenon DEF LRange, Inside, Position
  <2>5. CASE t = "zset"
    <3>1. ZRange(k, start, end) = [i \in DOMAIN Range0(all, start, end) |-> Range0(all, start, end)[i].member]
      BY <2>5, Zenon DEF ZRange
    <3> HIDE DEF all, inside
    <3>2. ZRange(k, start, end) = [i \in 1..Cardinality(inside) |-> all[Min(inside) + i].member]
      BY <2>3, <3>1
    <3> QED BY <2>5, <3>2, Zenon DEF Inside, Position, all, inside
  <2> QED BY <2>4, <2>5
<1> QED BY <1>1, DbInvariant, PTL

-----------------------------------------------------------------------------
(***************************************************************************)
(* The elements of a collection after a command.  Each loop of a command   *)
(* is followed element by element: what is there after the first i         *)
(* arguments is what there was, but for those the arguments name.          *)
(***************************************************************************)
In(y, seq) == \E i \in 1..Len(seq) : seq[i] = y

LEMMA RangeIn ==
  ASSUME NEW X, NEW seq \in Seq(X)
  PROVE  \A y : y \in Range(seq) <=> In(y, seq)
BY DEF Range, In

\* SREM and HDEL.
LEMMA RemovedSet ==
  ASSUME NEW set \in SUBSET Element, NEW args \in Seq(Element)
  PROVE  removeMembers(set, args).set = set \ Range(args)
<1>1. PICK f : /\ f[0] = [set |-> set, n |-> 0]
               /\ \A i \in 1..Len(args) : f[i] = removeMember(f[i - 1], args[i])
               /\ removeMembers(set, args) = f[Len(args)]
  BY RemoveLoop
<1> DEFINE good(i) == f[i].set = {m \in set : \A j \in 1..i : args[j] # m}
           S == {i \in 0..Len(args) : good(i)}
<1>2. Len(args) \in Nat
  OBVIOUS
<1>3. 0 \in S
  BY <1>1, <1>2
<1>4. ASSUME NEW i \in 1..Len(args), i - 1 \in S PROVE i \in S
  <2>0. ASSUME NEW x, NEW m PROVE removeMember(x, m).set = x.set \ {m}
    <3>1. CASE m \in x.set
      BY <3>1 DEF removeMember
    <3>2. CASE m \notin x.set
      <4>1. x.set = x.set \ {m}
        BY <3>2, Zenon
      <4> QED BY <3>2, <4>1 DEF removeMember
    <3> QED BY <3>1, <3>2
  <2>1. f[i].set = f[i - 1].set \ {args[i]}
    <3>1. f[i] = removeMember(f[i - 1], args[i])
      BY <1>1
    <3>2. removeMember(f[i - 1], args[i]).set = f[i - 1].set \ {args[i]}
      BY <2>0
    <3> QED BY <3>1, <3>2
  <2>2. i \in 0..Len(args) /\ \A j : j \in 1..i <=> (j = i \/ j \in 1..(i - 1))
    BY <1>2
  <2>3. good(i - 1)
    BY <1>4
  <2> QED BY <2>1, <2>2, <2>3
<1> HIDE DEF good
<1>5. Len(args) \in S
  <2> HIDE DEF S
  <2>1. \A i \in 1..Len(args) : i - 1 \in S => i \in S
    BY <1>4
  <2>2. \A i \in 0..Len(args) : i \in S
    BY <1>2, <1>3, <2>1, Induction, Zenon
  <2> QED BY <1>2, <2>2
<1>6. f[Len(args)].set = {m \in set : \A j \in 1..Len(args) : args[j] # m}
  BY <1>5, Zenon DEF good
<1>7. \A m : m \in Range(args) <=> \E j \in 1..Len(args) : args[j] = m
  BY RangeIn, Zenon DEF In
<1> QED BY <1>1, <1>6, <1>7

\* SADD.
LEMMA AddedSet ==
  ASSUME NEW set \in SUBSET Element, NEW args \in Seq(Element)
  PROVE  addMembers(set, args).set = set \cup Range(args)
<1>1. PICK f : /\ f[0] = [set |-> set, n |-> 0]
               /\ \A i \in 1..Len(args) : f[i] = addMember(f[i - 1], args[i])
               /\ addMembers(set, args) = f[Len(args)]
  BY AddLoop
<1> DEFINE good(i) == \A m : m \in f[i].set <=> m \in set \/ \E j \in 1..i : args[j] = m
           S == {i \in 0..Len(args) : good(i)}
<1>2. Len(args) \in Nat
  OBVIOUS
<1>3. 0 \in S
  BY <1>1, <1>2
<1>4. ASSUME NEW i \in 1..Len(args), i - 1 \in S PROVE i \in S
  <2>0. ASSUME NEW x, NEW m PROVE addMember(x, m).set = x.set \cup {m}
    <3>1. CASE m \notin x.set
      BY <3>1 DEF addMember
    <3>2. CASE m \in x.set
      <4>1. x.set = x.set \cup {m}
        BY <3>2, Zenon
      <4> QED BY <3>2, <4>1 DEF addMember
    <3> QED BY <3>1, <3>2
  <2>1. f[i].set = f[i - 1].set \cup {args[i]}
    BY <1>1, <2>0, Zenon
  <2>2. i \in 0..Len(args) /\ \A j : j \in 1..i <=> (j = i \/ j \in 1..(i - 1))
    BY <1>2
  <2>3. good(i - 1)
    BY <1>4
  <2>4. good(i)
    BY <2>1, <2>2, <2>3, Zenon
  <2> QED BY <2>2, <2>4
<1> HIDE DEF good
<1>5. Len(args) \in S
  <2> HIDE DEF S
  <2>1. \A i \in 1..Len(args) : i - 1 \in S => i \in S
    BY <1>4
  <2>2. \A i \in 0..Len(args) : i \in S
    BY <1>2, <1>3, <2>1, Induction, Zenon
  <2> QED BY <1>2, <2>2
<1>6. \A m : m \in f[Len(args)].set <=> m \in set \/ \E j \in 1..Len(args) : args[j] = m
  BY <1>5, Zenon DEF good
<1>7. \A m : m \in Range(args) <=> \E j \in 1..Len(args) : args[j] = m
  BY RangeIn, Zenon DEF In
<1> QED BY <1>1, <1>6, <1>7, Zenon

\* The sort of ZADD.
LEMMA InsertElems ==
  ASSUME NEW z \in Seq(Member), NEW x \in Member
  PROVE  \A y : In(y, Insert(z, x)) <=> y = x \/ In(y, z)
<1> DEFINE r == Insert(z, x)
<1>1. PICK p \in 1..(Len(z) + 1) : Between(r, z, p, x)
  BY InsertIs
<1>2. /\ Len(r) = Len(z) + 1
      /\ \A i \in 1..(Len(z) + 1) : r[i] = x \/ \E j \in 1..Len(z) : r[i] = z[j]
  BY InsertKeeps
<1> HIDE DEF r
<1>3. ASSUME NEW i \in 1..Len(z) PROVE In(z[i], r)
  <2>0. Len(z) \in Nat
    OBVIOUS
  <2>1. CASE i < p
    <3>1. i \in 1..(p - 1) /\ i \in 1..Len(r)
      BY <1>2, <2>0, <2>1
    <3>2. r[i] = z[i]
      BY <1>1, <3>1, Zenon DEF Between
    <3> QED BY <3>1, <3>2, Zenon DEF In
  <2>2. CASE i >= p
    <3>1. i + 1 \in (p + 1)..(Len(z) + 1) /\ i + 1 \in 1..Len(r) /\ i + 1 - 1 = i
      BY <1>2, <2>0, <2>2
    <3>2. \A j \in (p + 1)..(Len(z) + 1) : r[j] = z[j - 1]
      BY <1>1, Zenon DEF Between
    <3>3. r[i + 1] = z[i]
      BY <3>1, <3>2
    <3> QED BY <3>1, <3>3, Zenon DEF In
  <2> QED BY <2>0, <2>1, <2>2
<1>4. In(x, r)
  <2>1. r[p] = x
    BY <1>1, Zenon DEF Between
  <2> QED BY <1>2, <2>1, Zenon DEF In
<1>5. \A y : In(y, r) => y = x \/ In(y, z)
  BY <1>2, Zenon DEF In
<1>6. \A y : In(y, z) => In(y, r)
  BY <1>3, Zenon DEF In
<1> QED BY <1>4, <1>5, <1>6, Zenon DEF r

LEMMA SortElems ==
  ASSUME NEW z \in Seq(Member)
  PROVE  \A y : In(y, SliceStable(z)) <=> In(y, z)
<1>1. PICK f : /\ f[0] = <<>>
               /\ \A i \in 1..Len(z) : f[i] = Insert(f[i - 1], z[i])
               /\ SliceStable(z) = f[Len(z)]
  BY InsertLoop
<1> DEFINE good(i) == f[i] \in Seq(Member) /\ \A y : In(y, f[i]) <=> \E j \in 1..i : z[j] = y
           S == {i \in 0..Len(z) : good(i)}
<1>2. Len(z) \in Nat /\ \A i \in 1..Len(z) : z[i] \in Member
  OBVIOUS
<1>3. 0 \in S
  <2>1. 0 \in 0..Len(z) /\ <<>> \in Seq(Member) /\ Len(<<>>) = 0 /\ 1..0 = {}
    BY <1>2
  <2>2. good(0)
    BY <1>1, <2>1 DEF In
  <2> HIDE DEF good
  <2> QED BY <2>1, <2>2
<1>4. ASSUME NEW i \in 1..Len(z), i - 1 \in S PROVE i \in S
  <2>1. good(i - 1) /\ i \in 0..Len(z) /\ \A j : j \in 1..i <=> (j = i \/ j \in 1..(i - 1))
    BY <1>2, <1>4
  <2>2. f[i] = Insert(f[i - 1], z[i]) /\ f[i - 1] \in Seq(Member) /\ z[i] \in Member
    BY <1>1, <1>2, <2>1, Zenon
  <2>3. f[i] \in Seq(Member) /\ \A y : In(y, f[i]) <=> y = z[i] \/ In(y, f[i - 1])
    <3> DEFINE g == f[i - 1]
               x == z[i]
    <3>1. g \in Seq(Member) /\ x \in Member /\ f[i] = Insert(g, x)
      BY <2>2
    <3> HIDE DEF g, x
    <3>2. Insert(g, x) \in Seq(Member)
      BY <3>1, InsertKeeps
    <3>3. \A y : In(y, Insert(g, x)) <=> y = x \/ In(y, g)
      BY <3>1, InsertElems
    <3> QED BY <3>1, <3>2, <3>3 DEF g, x
  <2>4. good(i)
    BY <2>1, <2>3, Zenon
  <2> HIDE DEF good
  <2> QED BY <2>1, <2>4
<1> HIDE DEF good
<1>5. Len(z) \in S
  <2> HIDE DEF S
  <2>1. \A i \in 1..Len(z) : i - 1 \in S => i \in S
    BY <1>4
  <2>2. \A i \in 0..Len(z) : i \in S
    BY <1>2, <1>3, <2>1, Induction, Zenon
  <2> QED BY <1>2, <2>2
<1>6. \A y : In(y, f[Len(z)]) <=> \E j \in 1..Len(z) : z[j] = y
  BY <1>5, Zenon DEF good
<1> QED BY <1>1, <1>6, Zenon DEF In

\* One pair of a ZADD, and all of them: an element is there if it is the last word on
\* its member, or was there and no pair names its member.
LEMMA ZaddOneElems ==
  ASSUME NEW acc \in Next1, Distinct(acc.next), NEW x \in Member
  PROVE  \A y : In(y, zaddOne(acc, x).next) <=> y = x \/ (y.member # x.member /\ In(y, acc.next))
<1> DEFINE z == acc.next
           P == Places(z, x.member)
           q == zaddOne(acc, x)
<1>0. z \in Seq(Member) /\ Len(z) \in Nat
  BY DEF Next1
<1>1. P \in SUBSET (1..Len(z)) /\ \A i \in 1..Len(z) : i \in P <=> z[i].member = x.member
  BY <1>0 DEF Places
<1>2. CASE P = {}
  <2>1. q.next = Append(z, x)
    BY <1>2 DEF zaddOne
  <2>2. \A i \in 1..Len(z) : z[i].member # x.member
    BY <1>1, <1>2
  <2> HIDE DEF z, P, q
  <2>3. /\ Len(Append(z, x)) = Len(z) + 1 /\ Append(z, x)[Len(z) + 1] = x
        /\ \A i \in 1..Len(z) : Append(z, x)[i] = z[i]
    BY <1>0
  <2>4. \A i : i \in 1..(Len(z) + 1) <=> (i = Len(z) + 1 \/ i \in 1..Len(z))
    BY <1>0
  <2>5. \A y : In(y, Append(z, x)) <=> y = x \/ In(y, z)
    BY <2>3, <2>4, Zenon DEF In
  <2>6. \A y : In(y, z) => y.member # x.member
    BY <2>2, Zenon DEF In
  <2> QED BY <2>1, <2>5, <2>6, Zenon DEF z, q
<1>3. CASE P # {}
  <2> DEFINE p == Min(P)
             w == [z EXCEPT ![p] = x]
  <2>1. p \in 1..Len(z) /\ z[p].member = x.member
    <3>1. P \in SUBSET Nat
      BY <1>1
    <3> HIDE DEF P
    <3>2. p \in P
      BY <1>3, <3>1, Least
    <3> QED BY <1>1, <3>2, Zenon
  <2>2. q.next = w
    <3>1. q = [acc EXCEPT !.next[p] = x]
      BY <1>3 DEF zaddOne
    <3> HIDE DEF p
    <3>2. acc = [next |-> z, added |-> acc.added]
      BY DEF Next1
    <3> QED BY <3>1, <3>2
  <2> HIDE DEF p
  <2>3. \A i \in 1..Len(z) : i # p => z[i].member # x.member
    <3> SUFFICES ASSUME NEW i \in 1..Len(z), i # p PROVE z[i].member # z[p].member
      BY <2>1
    <3>1. Distinct(z)
      OBVIOUS
    <3> HIDE DEF z
    <3> QED BY <1>0, <2>1, <3>1 DEF Distinct
  <2> HIDE DEF z, P, q
  <2>4. Len(w) = Len(z) /\ w[p] = x /\ \A i \in 1..Len(z) : i # p => w[i] = z[i]
    BY <1>0, <2>1
  <2> HIDE DEF w
  <2>5. \A y : In(y, w) <=> y = x \/ \E i \in 1..Len(z) : i # p /\ z[i] = y
    BY <2>1, <2>4, Zenon DEF In
  <2>6. \A y : (\E i \in 1..Len(z) : i # p /\ z[i] = y) <=> y.member # x.member /\ In(y, z)
    BY <2>1, <2>3, Zenon DEF In
  <2> QED BY <2>2, <2>5, <2>6, Zenon DEF z, q
<1> QED BY <1>2, <1>3, Zenon

\* What is there after the first i pairs.
After(z, pairs, i, y) ==
  \/ In(y, z) /\ \A j \in 1..i : pairs[j].member # y.member
  \/ \E j \in 1..i : pairs[j] = y /\ \A l \in 1..i : j < l => pairs[l].member # y.member

LEMMA AfterStep ==
  ASSUME NEW z \in Seq(Member), NEW pairs \in Seq(Member), NEW i \in 1..Len(pairs), NEW y
  PROVE  After(z, pairs, i, y) <=>
           y = pairs[i] \/ (y.member # pairs[i].member /\ After(z, pairs, i - 1, y))
<1>1. /\ \A j : j \in 1..i <=> (j = i \/ j \in 1..(i - 1))
      /\ i \in 1..i /\ ~(i < i) /\ \A j \in 1..(i - 1) : j < i /\ ~(i < j)
  <2>1. i \in Nat /\ Len(pairs) \in Nat
    OBVIOUS
  <2> QED BY <2>1
<1>2. ASSUME y = pairs[i] PROVE After(z, pairs, i, y)
  BY <1>1, <1>2, Zenon DEF After
<1>3. ASSUME y.member # pairs[i].member, After(z, pairs, i - 1, y) PROVE After(z, pairs, i, y)
  BY <1>1, <1>3, Zenon DEF After
<1>4. ASSUME After(z, pairs, i, y), y # pairs[i]
      PROVE  y.member # pairs[i].member /\ After(z, pairs, i - 1, y)
  BY <1>1, <1>4, Zenon DEF After
<1> QED BY <1>2, <1>3, <1>4, Zenon

LEMMA ZaddElems ==
  ASSUME NEW z \in Seq(Member), Distinct(z), NEW pairs \in Seq(Member)
  PROVE  \A y : In(y, zadd(z, pairs).next) <=> After(z, pairs, Len(pairs), y)
<1>1. PICK f : /\ f[0] = [next |-> z, added |-> 0]
               /\ \A i \in 1..Len(pairs) : f[i] = zaddOne(f[i - 1], pairs[i])
               /\ zaddAll(z, pairs) = f[Len(pairs)]
  BY ZaddLoop
<1> DEFINE good(i) == /\ f[i] \in Next1 /\ Distinct(f[i].next)
                      /\ \A y : In(y, f[i].next) <=> After(z, pairs, i, y)
           S == {i \in 0..Len(pairs) : good(i)}
<1>2. Len(pairs) \in Nat /\ \A i \in 1..Len(pairs) : pairs[i] \in Member
  OBVIOUS
<1>3. 0 \in S
  <2>1. f[0] \in Next1 /\ f[0].next = z /\ 0 \in 0..Len(pairs)
    BY <1>1, <1>2 DEF Next1
  <2>2. 1..0 = {}
    OBVIOUS
  <2>3. \A y : After(z, pairs, 0, y) <=> In(y, z)
    BY <2>2, Zenon DEF After
  <2>4. good(0)
    BY <2>1, <2>3, Zenon
  <2> HIDE DEF good
  <2> QED BY <2>1, <2>4
<1>4. ASSUME NEW i \in 1..Len(pairs), i - 1 \in S PROVE i \in S
  <2> DEFINE g == f[i - 1]
             x == pairs[i]
  <2>1. i \in 0..Len(pairs) /\ good(i - 1)
    BY <1>2, <1>4
  <2>2. /\ g \in Next1 /\ Distinct(g.next) /\ x \in Member /\ f[i] = zaddOne(g, x)
        /\ \A y : In(y, g.next) <=> After(z, pairs, i - 1, y)
    BY <1>1, <1>2, <2>1, Zenon
  <2>3. \A y : After(z, pairs, i, y) <=> y = x \/ (y.member # x.member /\ After(z, pairs, i - 1, y))
    BY AfterStep, Zenon
  <2> HIDE DEF g, x
  <2>4. zaddOne(g, x) \in Next1 /\ Distinct(zaddOne(g, x).next)
    BY <2>2, ZaddOneKeeps
  <2>5. \A y : In(y, zaddOne(g, x).next) <=> y = x \/ (y.member # x.member /\ In(y, g.next))
    BY <2>2, ZaddOneElems
  <2>6. good(i)
    BY <2>2, <2>3, <2>4, <2>5, Zenon
  <2> HIDE DEF good
  <2> QED BY <2>1, <2>6
<1> HIDE DEF good
<1>5. Len(pairs) \in S
  <2> HIDE DEF S
  <2>1. \A i \in 1..Len(pairs) : i - 1 \in S => i \in S
    BY <1>4
  <2>2. \A i \in 0..Len(pairs) : i \in S
    BY <1>2, <1>3, <2>1, Induction, Zenon
  <2> QED BY <1>2, <2>2
<1> DEFINE all == zaddAll(z, pairs)
<1>6. zadd(z, pairs).next = SliceStable(all.next)
  BY DEF zadd, zaddAll
<1>7. all \in Next1 /\ \A y : In(y, all.next) <=> After(z, pairs, Len(pairs), y)
  BY <1>1, <1>5 DEF good
<1> HIDE DEF all
<1>8. \A y : In(y, SliceStable(all.next)) <=> In(y, all.next)
  <2>1. all.next \in Seq(Member)
    BY <1>7 DEF Next1
  <2> QED BY <2>1, SortElems
<1> QED BY <1>6, <1>7, <1>8, Zenon

\* ZREM.
LEMMA ZremElems ==
  ASSUME NEW z \in Seq(Member), NEW remove
  PROVE  \A y : In(y, zrem(z, remove)) <=> In(y, z) /\ y.member \notin remove
<1>1. PICK f : /\ f[0] = <<>>
               /\ \A i \in 1..Len(z) : f[i] = IF z[i].member \in remove THEN f[i - 1]
                                              ELSE Append(f[i - 1], z[i])
               /\ zrem(z, remove) = f[Len(z)]
  BY ZremLoop
<1> DEFINE good(i) ==
             /\ f[i] \in Seq(Member)
             /\ \A y : In(y, f[i]) <=> y.member \notin remove /\ \E j \in 1..i : z[j] = y
           S == {i \in 0..Len(z) : good(i)}
<1>2. Len(z) \in Nat /\ \A i \in 1..Len(z) : z[i] \in Member
  OBVIOUS
<1>3. 0 \in S
  <2>1. 0 \in 0..Len(z) /\ <<>> \in Seq(Member) /\ Len(<<>>) = 0 /\ 1..0 = {}
    BY <1>2
  <2>2. good(0)
    BY <1>1, <2>1 DEF In
  <2> HIDE DEF good
  <2> QED BY <2>1, <2>2
<1>4. ASSUME NEW i \in 1..Len(z), i - 1 \in S PROVE i \in S
  <2> DEFINE g == f[i - 1]
             x == z[i]
  <2>1. i \in 0..Len(z) /\ good(i - 1) /\ \A j : j \in 1..i <=> (j = i \/ j \in 1..(i - 1))
    BY <1>2, <1>4
  <2>2. /\ g \in Seq(Member) /\ x \in Member
        /\ f[i] = IF x.member \in remove THEN g ELSE Append(g, x)
        /\ \A y : In(y, g) <=> y.member \notin remove /\ \E j \in 1..(i - 1) : z[j] = y
    BY <1>1, <1>2, <2>1, Zenon
  <2>3. \A y : (\E j \in 1..i : z[j] = y) <=> y = x \/ \E j \in 1..(i - 1) : z[j] = y
    BY <2>1, Zenon
  <2> HIDE DEF g, x
  <2>4. CASE x.member \in remove
    <3>1. f[i] = g
      BY <2>2, <2>4, Zenon
    <3>2. good(i)
      BY <2>2, <2>3, <2>4, <3>1, Zenon
    <3> HIDE DEF good
    <3> QED BY <2>1, <3>2
  <2>5. CASE x.member \notin remove
    <3>1. /\ Append(g, x) \in Seq(Member) /\ Len(Append(g, x)) = Len(g) + 1
          /\ Append(g, x)[Len(g) + 1] = x /\ \A a \in 1..Len(g) : Append(g, x)[a] = g[a]
          /\ \A a : a \in 1..(Len(g) + 1) <=> (a = Len(g) + 1 \/ a \in 1..Len(g))
      BY <2>2
    <3>2. \A y : In(y, Append(g, x)) <=> y = x \/ In(y, g)
      BY <3>1, Zenon DEF In
    <3>3. f[i] = Append(g, x)
      BY <2>2, <2>5, Zenon
    <3>4. good(i)
      BY <2>2, <2>3, <2>5, <3>1, <3>2, <3>3, Zenon
    <3> HIDE DEF good
    <3> QED BY <2>1, <3>4
  <2> QED BY <2>1, <2>4, <2>5
<1> HIDE DEF good
<1>5. Len(z) \in S
  <2> HIDE DEF S
  <2>1. \A i \in 1..Len(z) : i - 1 \in S => i \in S
    BY <1>4
  <2>2. \A i \in 0..Len(z) : i \in S
    BY <1>2, <1>3, <2>1, Induction, Zenon
  <2> QED BY <1>2, <2>2
<1>6. \A y : In(y, f[Len(z)]) <=> y.member \notin remove /\ \E j \in 1..Len(z) : z[j] = y
  BY <1>5, Zenon DEF good
<1> QED BY <1>1, <1>6, Zenon DEF In

\* A ZREM that leaves as many elements as there were found none.
LEMMA ZremAll ==
  ASSUME NEW z \in Seq(Member), NEW remove, Len(z) - Len(zrem(z, remove)) = 0
  PROVE  \A x \in Range(z) : x.member \notin remove
<1>1. PICK f : /\ f[0] = <<>>
               /\ \A i \in 1..Len(z) : f[i] = IF z[i].member \in remove THEN f[i - 1]
                                              ELSE Append(f[i - 1], z[i])
               /\ zrem(z, remove) = f[Len(z)]
  BY ZremLoop
<1> DEFINE good(i) == /\ f[i] \in Seq(Member) /\ Len(f[i]) <= i
                      /\ Len(f[i]) = i => \A j \in 1..i : z[j].member \notin remove
           S == {i \in 0..Len(z) : good(i)}
<1>2. Len(z) \in Nat /\ \A i \in 1..Len(z) : z[i] \in Member
  OBVIOUS
<1>3. 0 \in S
  <2>1. 0 \in 0..Len(z) /\ <<>> \in Seq(Member) /\ Len(<<>>) <= 0 /\ 1..0 = {}
    BY <1>2
  <2>2. good(0)
    BY <1>1, <2>1
  <2> HIDE DEF good
  <2> QED BY <2>1, <2>2
<1>4. ASSUME NEW i \in 1..Len(z), i - 1 \in S PROVE i \in S
  <2> DEFINE g == f[i - 1]
             x == z[i]
  <2>1. i \in 0..Len(z) /\ \A j : j \in 1..i <=> (j = i \/ j \in 1..(i - 1))
    BY <1>2
  <2>2. /\ g \in Seq(Member) /\ Len(g) <= i - 1 /\ x \in Member
        /\ Len(g) = i - 1 => \A j \in 1..(i - 1) : z[j].member \notin remove
        /\ f[i] = IF x.member \in remove THEN g ELSE Append(g, x)
    BY <1>1, <1>2, <1>4
  <2>3. CASE x.member \in remove
    <3>1. f[i] = g
      BY <2>2, <2>3, Zenon
    <3> HIDE DEF g, x
    <3>2. Len(g) <= i /\ Len(g) # i
      BY <2>2
    <3>3. good(i)
      BY <2>2, <3>1, <3>2, Zenon
    <3> HIDE DEF good
    <3> QED BY <2>1, <3>3
  <2>4. CASE x.member \notin remove
    <3>1. f[i] = Append(g, x)
      BY <2>2, <2>4, Zenon
    <3>2. z[i].member \notin remove
      BY <2>4
    <3> HIDE DEF g, x
    <3>3. /\ Append(g, x) \in Seq(Member) /\ Len(Append(g, x)) <= i
          /\ Len(Append(g, x)) = i => Len(g) = i - 1
      BY <2>2
    <3>4. good(i)
      BY <2>1, <2>2, <3>1, <3>2, <3>3, Zenon
    <3> HIDE DEF good
    <3> QED BY <2>1, <3>4
  <2> QED BY <2>3, <2>4
<1> HIDE DEF good
<1>5. Len(z) \in S
  <2> HIDE DEF S
  <2>1. \A i \in 1..Len(z) : i - 1 \in S => i \in S
    BY <1>4
  <2>2. \A i \in 0..Len(z) : i \in S
    BY <1>2, <1>3, <2>1, Induction, Zenon
  <2> QED BY <1>2, <2>2
<1>6. /\ f[Len(z)] \in Seq(Member)
      /\ Len(f[Len(z)]) = Len(z) => \A j \in 1..Len(z) : z[j].member \notin remove
  BY <1>5, Zenon DEF good
<1>7. Len(f[Len(z)]) = Len(z)
  BY <1>1, <1>2, <1>6
<1> QED BY <1>6, <1>7, RangeIn, Zenon DEF In

\* The value of the type after a command on it.
LEMMA AtAfter ==
  ASSUME DbInv, NEW k \in Key, NEW t, NEW v, NEW none
  PROVE  /\ db' = Put(k, t, v) => At(k, t, none)' = v
         /\ db' = Drop(k, t) => At(k, t, none)' = none
         /\ db' = db => At(k, t, none)' = At(k, t, none)
<1>1. ASSUME db' = Put(k, t, v) PROVE At(k, t, none)' = v
  <2>1. t \in DOMAIN db'[k] /\ db'[k][t] = v
    BY <1>1, PutEffect
  <2> QED BY <2>1 DEF At, Has
<1>2. ASSUME db' = Drop(k, t) PROVE At(k, t, none)' = none
  <2>1. t \notin DOMAIN db'[k]
    BY <1>2, DropEffect
  <2> QED BY <2>1 DEF At, Has
<1>3. ASSUME db' = db PROVE At(k, t, none)' = At(k, t, none)
  BY <1>3 DEF At, Has
<1> QED BY <1>1, <1>2, <1>3

LEMMA SetElems ==
  ASSUME DbInv, NEW k \in Key, NEW a \in Args
  PROVE  /\ handleSAdd(k, a) /\ ~WrongType(k, "set") =>
              \A m \in Element : SIsMember(k, m)' <=> SIsMember(k, m) \/ m \in Range(a)
         /\ handleSRem(k, a) =>
              \A m \in Element : SIsMember(k, m)' <=> SIsMember(k, m) /\ m \notin Range(a)
<1> DEFINE set == At(k, "set", {})
<1>1. set \in SUBSET Element /\ a \in Seq(Element) /\ (~Has(k, "set") => set = {})
  BY ArgsType, Zenon DEF DbInv, At, Has, Good
<1>2. \A m : (SIsMember(k, m) <=> m \in set) /\ (SIsMember(k, m)' <=> m \in set')
  BY DEF SIsMember
<1>3. ASSUME handleSAdd(k, a), ~WrongType(k, "set") PROVE set' = set \cup Range(a)
  <2>1. db' = Put(k, "set", addMembers(set, a).set)
    BY <1>3 DEF handleSAdd
  <2>2. addMembers(set, a).set = set \cup Range(a)
    <3> HIDE DEF set
    <3> QED BY <1>1, AddedSet, Zenon
  <2>3. set' = addMembers(set, a).set
    BY <2>1, AtAfter, Zenon
  <2> HIDE DEF set
  <2> QED BY <2>2, <2>3, Zenon
<1>4. ASSUME handleSRem(k, a) PROVE set' = set \ Range(a)
  <2> DEFINE left == removeMembers(set, a)
  <2>1. db' = IF ~Has(k, "set") THEN db
              ELSE IF left.set = {} THEN Drop(k, "set") ELSE Put(k, "set", left.set)
    BY <1>4, Zenon DEF handleSRem
  <2>2. left.set = set \ Range(a)
    <3> HIDE DEF set
    <3> QED BY <1>1, RemovedSet, Zenon
  <2> HIDE DEF left
  <2>3. CASE ~Has(k, "set")
    <3>1. set' = set
      BY <2>1, <2>3, AtAfter, Zenon
    <3> HIDE DEF set
    <3> QED BY <1>1, <2>3, <3>1
  <2>4. CASE Has(k, "set")
    <3>1. set' = left.set
      BY <2>1, <2>4, AtAfter, Zenon
    <3> HIDE DEF set
    <3> QED BY <2>2, <3>1, Zenon
  <2> QED BY <2>3, <2>4, Zenon
<1> HIDE DEF set
<1> QED BY <1>2, <1>3, <1>4, Zenon

LEMMA HashElems ==
  ASSUME DbInv, NEW k \in Key, NEW a \in Args, handleHDel(k, a), NEW f \in Element
  PROVE  HGet(k, f)' = IF f \in Range(a) THEN <<>> ELSE HGet(k, f)
<1> DEFINE hash == At(k, "hash", <<>>)
           left == removeMembers(DOMAIN hash, a)
           new == [x \in left.set |-> hash[x]]
<1>1. DOMAIN hash \in SUBSET Element /\ a \in Seq(Element) /\ (~Has(k, "hash") => DOMAIN hash = {})
  BY ArgsType DEF DbInv, At, Has, Good, Fields
<1>2. /\ HGet(k, f) = IF f \in DOMAIN hash THEN <<hash[f]>> ELSE <<>>
      /\ HGet(k, f)' = IF f \in DOMAIN hash' THEN <<hash'[f]>> ELSE <<>>
  BY Zenon DEF HGet
<1>3. db' = IF ~Has(k, "hash") THEN db
            ELSE IF left.set = {} THEN Drop(k, "hash") ELSE Put(k, "hash", new)
  BY Zenon DEF handleHDel
<1>4. left.set = DOMAIN hash \ Range(a)
  <2> HIDE DEF hash
  <2> QED BY <1>1, RemovedSet, Zenon
<1>5. CASE ~Has(k, "hash")
  <2>1. hash' = hash
    BY <1>3, <1>5, AtAfter, Zenon
  <2> HIDE DEF hash
  <2> QED BY <1>1, <1>2, <1>5, <2>1
<1>6. CASE Has(k, "hash") /\ left.set = {}
  <2>1. hash' = <<>>
    BY <1>3, <1>6, AtAfter, Zenon
  <2> HIDE DEF hash, left
  <2>2. DOMAIN hash' = {}
    BY <2>1
  <2> QED BY <1>2, <1>4, <1>6, <2>2, Zenon
<1>7. CASE Has(k, "hash") /\ left.set # {}
  <2>1. hash' = new
    <3> HIDE DEF new
    <3> QED BY <1>3, <1>7, AtAfter, Zenon
  <2> HIDE DEF hash, left
  <2>2. DOMAIN new = left.set /\ \A x \in left.set : new[x] = hash[x]
    OBVIOUS
  <2> HIDE DEF new
  <2> QED BY <1>2, <1>4, <2>1, <2>2, Zenon
<1> QED BY <1>5, <1>6, <1>7, Zenon

LEMMA ZSetAt ==
  ASSUME DbInv, NEW k \in Key
  PROVE  /\ At(k, "zset", <<>>) \in Seq(Member) /\ Distinct(At(k, "zset", <<>>))
         /\ ~Has(k, "zset") => At(k, "zset", <<>>) = <<>>
<1>1. CASE Has(k, "zset")
  BY <1>1 DEF DbInv, At, Has, Good, ZSet
<1>2. CASE ~Has(k, "zset")
  <2>1. At(k, "zset", <<>>) = <<>>
    BY <1>2 DEF At
  <2>2. <<>> \in Seq(Member) /\ Distinct(<<>>)
    BY DEF Distinct
  <2> QED BY <2>1, <2>2
<1> QED BY <1>1, <1>2

LEMMA ZRemElems ==
  ASSUME DbInv, NEW k \in Key, NEW a \in Args, handleZRem(k, a)
  PROVE  Scored(k)' = {x \in Scored(k) : x.member \notin Range(a)}
<1> DEFINE z == At(k, "zset", <<>>)
           kept == zrem(z, Range(a))
<1>1. z \in Seq(Member) /\ Distinct(z) /\ (~Has(k, "zset") => z = <<>>)
  BY ZSetAt, Zenon
<1>2. db' = IF ~Has(k, "zset") \/ Len(z) - Len(kept) = 0 THEN db
            ELSE IF kept = <<>> THEN Drop(k, "zset") ELSE Put(k, "zset", kept)
  BY DEF handleZRem
<1>3. Scored(k) = Range(z) /\ Scored(k)' = Range(z')
  BY Zenon DEF Scored
<1>4. ASSUME z' = kept PROVE Scored(k)' = {x \in Scored(k) : x.member \notin Range(a)}
  <2> HIDE DEF z
  <2>1. kept \in Seq(Member)
    BY <1>1, ZremIs
  <2>2. \A y : In(y, kept) <=> In(y, z) /\ y.member \notin Range(a)
    BY <1>1, ZremElems
  <2> HIDE DEF kept
  <2>3. \A y : (y \in Range(kept) <=> In(y, kept)) /\ (y \in Range(z) <=> In(y, z))
    BY <1>1, <2>1, RangeIn, Zenon
  <2>4. Range(kept) = {x \in Range(z) : x.member \notin Range(a)}
    BY <2>2, <2>3, Zenon
  <2> QED BY <1>3, <1>4, <2>4, Zenon
<1>5. CASE ~Has(k, "zset")
  <2>1. z' = z
    BY <1>2, <1>5, AtAfter, Zenon
  <2> HIDE DEF z
  <2>2. z = <<>>
    BY <1>1, <1>5
  <2>3. Range(z) = {}
    BY <2>2 DEF Range
  <2> QED BY <1>3, <2>1, <2>3, Zenon
<1>6. CASE Has(k, "zset") /\ Len(z) - Len(kept) = 0
  <2>1. z' = z
    BY <1>2, <1>6, AtAfter, Zenon
  <2>2. \A x \in Range(z) : x.member \notin Range(a)
    <3> HIDE DEF z
    <3> QED BY <1>1, <1>6, ZremAll, Zenon
  <2> HIDE DEF z
  <2> QED BY <1>3, <2>1, <2>2, Zenon
<1>7. CASE Has(k, "zset") /\ Len(z) - Len(kept) # 0
  <2>1. z' = kept
    <3> HIDE DEF kept
    <3> QED BY <1>2, <1>7, AtAfter, Zenon
  <2> QED BY <1>4, <2>1, Zenon
<1> QED BY <1>5, <1>6, <1>7, Zenon

LEMMA AfterAll ==
  ASSUME NEW z \in Seq(Member), NEW pairs \in Seq(Member), NEW y
  PROVE  After(z, pairs, Len(pairs), y) <=>
           y \in {x \in Range(z) : \A w \in Range(pairs) : w.member # x.member} \cup LastWord(pairs)
<1>1. DOMAIN pairs = 1..Len(pairs)
  OBVIOUS
<1>2. y \in Range(z) <=> In(y, z)
  BY RangeIn, Zenon
<1>3. (\A w \in Range(pairs) : w.member # y.member) <=> \A j \in 1..Len(pairs) : pairs[j].member # y.member
  <2>1. \A w : w \in Range(pairs) <=> \E j \in 1..Len(pairs) : pairs[j] = w
    BY RangeIn, Zenon DEF In
  <2> QED BY <2>1, Zenon
<1>4. y \in LastWord(pairs) <=>
        \E j \in 1..Len(pairs) : /\ pairs[j] = y
                                 /\ \A l \in 1..Len(pairs) : j < l => pairs[l].member # pairs[j].member
  BY <1>1, Zenon DEF LastWord
<1> QED BY <1>2, <1>3, <1>4, Zenon DEF After

LEMMA ZAddElems ==
  ASSUME DbInv, NEW k \in Key, NEW pairs \in Pairs, handleZAdd(k, pairs)
  PROVE  IF last'.replies = <<Error>> THEN db' = db
         ELSE Scored(k)' = {x \in Scored(k) : \A y \in Range(pairs) : y.member # x.member}
                           \cup LastWord(pairs)
<1> DEFINE z == At(k, "zset", <<>>)
           new == zadd(z, pairs)
           refused == WrongType(k, "zset") \/ \E i \in DOMAIN pairs : pairs[i].score = NoScore
<1>1. IF refused THEN db' = db /\ last'.replies = <<Error>>
      ELSE db' = Put(k, "zset", new.next) /\ last'.replies = <<Number(new.added)>>
  BY DEF handleZAdd, Done
<1>2. CASE refused
  BY <1>1, <1>2, Zenon
<1>3. CASE ~refused
  <2>1. pairs \in Seq(Member) /\ pairs # <<>>
    BY <1>3, PairsType
  <2>2. z \in Seq(Member) /\ Distinct(z)
    BY ZSetAt, Zenon
  <2>3. db' = Put(k, "zset", new.next) /\ last'.replies = <<Number(new.added)>>
    BY <1>1, <1>3, Zenon
  <2>4. last'.replies # <<Error>>
    <3> HIDE DEF new
    <3> QED BY <2>3 DEF Number, Error
  <2>5. Scored(k) = Range(z) /\ Scored(k)' = Range(z')
    BY Zenon DEF Scored
  <2>6. z' = new.next
    <3> DEFINE v == new.next
    <3>1. db' = Put(k, "zset", v)
      BY <2>3, Zenon
    <3> HIDE DEF v, new
    <3>2. z' = v
      BY <3>1, AtAfter, Zenon
    <3> QED BY <3>2, Zenon DEF v
  <2> HIDE DEF z, refused
  <2>7. new.next \in Seq(Member)
    BY <2>1, <2>2, ZaddIs
  <2>8. \A y : In(y, new.next) <=> After(z, pairs, Len(pairs), y)
    BY <2>1, <2>2, ZaddElems
  <2> HIDE DEF new
  <2>9. \A y : y \in Range(new.next) <=> In(y, new.next)
    BY <2>7, RangeIn, Zenon
  <2> DEFINE E == {x \in Range(z) : \A w \in Range(pairs) : w.member # x.member} \cup LastWord(pairs)
  <2>10. \A y : After(z, pairs, Len(pairs), y) <=> y \in E
    BY <2>1, <2>2, AfterAll, Zenon
  <2>11. Range(new.next) = E
    <3> HIDE DEF E
    <3> QED BY <2>8, <2>9, <2>10, Zenon
  <2> QED BY <2>4, <2>5, <2>6, <2>11
<1> QED BY <1>2, <1>3, Zenon

\* SADD, SREM, HDEL, ZADD and ZREM leave exactly the elements they should, with the
\* values and scores they should have, for any number of arguments in any order and with
\* any repetitions, NaN scores included: the loops of sets.go, hashes.go and sortedsets.go
\* and the sort lose no element and bring none back.
THEOREM CollectionsCorrect == Spec => CollectionsExact
<1>1. ASSUME DbInv, NEW k \in Key PROVE ElementsExact(k)
  <2>1. ASSUME NEW a \in Args
        PROVE  /\ handleSAdd(k, a) /\ ~WrongType(k, "set") =>
                    \A m \in Element : SIsMember(k, m)' <=> SIsMember(k, m) \/ m \in Range(a)
               /\ handleSRem(k, a) =>
                    \A m \in Element : SIsMember(k, m)' <=> SIsMember(k, m) /\ m \notin Range(a)
    BY <1>1, SetElems, Zenon
  <2>2. ASSUME NEW a \in Args, handleHDel(k, a)
        PROVE  \A f \in Element : HGet(k, f)' = IF f \in Range(a) THEN <<>> ELSE HGet(k, f)
    BY <1>1, <2>2, HashElems, Zenon
  <2>3. ASSUME NEW a \in Args, handleZRem(k, a)
        PROVE  Scored(k)' = {x \in Scored(k) : x.member \notin Range(a)}
    BY <1>1, <2>3, ZRemElems, Zenon
  <2>4. ASSUME NEW pairs \in Pairs, handleZAdd(k, pairs)
        PROVE  IF last'.replies = <<Error>> THEN db' = db
               ELSE Scored(k)' = {x \in Scored(k) : \A y \in Range(pairs) : y.member # x.member}
                                 \cup LastWord(pairs)
    BY <1>1, <2>4, ZAddElems, Zenon
  <2> QED BY <2>1, <2>2, <2>3, <2>4, Zenon DEF ElementsExact
<1>2. DbInv /\ [Next]_vars => [\A k \in Key : ElementsExact(k)]_vars
  BY <1>1, Zenon
<1> QED BY <1>2, DbInvariant, PTL DEF Spec, CollectionsExact
=============================================================================
