--------------------------------- MODULE Store ---------------------------------
(***************************************************************************)
(* The data types of utils/kvstore and the commands on them, as one client *)
(* sees them: each command runs under a lock (StoreLocks), so a step is a  *)
(* whole command.  Standalone keeps one map per data type; a cluster node  *)
(* keeps one tagged value per key.                                         *)
(***************************************************************************)
EXTENDS Integers, Sequences, FiniteSetsExt

CONSTANTS Key,
          Width,      \* bits of an int, 64 in the code
          Element,    \* list elements, hash fields and values, set members: numbers
          Score,      \* scores of sorted sets; NaN may be one
          MaxArgs,    \* bound: elements per command
          MaxList,    \* bound: length of a list
          MaxTypes    \* bound: types a key has values of at once, standalone

\* ParseFloat accepts "NaN", and takes other texts for no score at all.
NaN == -1
NoScore == -2

ASSUME StoreAssumption ==
  /\ Width \in Nat \ {0} /\ 2 ^ (Width - 1) > 0    \* which no prover here knows
  /\ Element \subseteq Nat /\ IsFiniteSet(Element)
  /\ Score \subseteq Nat \cup {NaN}
  /\ MaxArgs \in Nat \ {0} /\ MaxList \in Nat
  /\ MaxTypes \in Nat \ {0}

Type == {"string", "list", "hash", "set", "zset"}

\* A string is the decimal of an int, or no int at all.
MinInt == -(2 ^ (Width - 1))
MaxInt == 2 ^ (Width - 1) - 1
Wrap(n) == ((n - MinInt) % (MaxInt - MinInt + 1)) + MinInt
IntText(n) == <<"int", n>>
Text == <<"text", 0>>
String == {IntText(n) : n \in MinInt..MaxInt} \cup {Text}

\* Replies: a status, an error, a null, a string, or a number.
Ok == <<"ok", 0>>
Error == <<"error", 0>>
Null == <<"null", 0>>
Bulk == <<"bulk", 0>>
Number(n) == <<"number", n>>

\* The sequences of at most n elements of S.
SeqsUpTo(S, n) == UNION {[1..m -> S] : m \in 0..n}
Args == SeqsUpTo(Element, MaxArgs) \ {<<>>}

\* A loop over args that starts from base and takes a step for each of them.
ForEach(step(_, _), base, args) ==
  LET acc[i \in 0..Len(args)] == IF i = 0 THEN base ELSE step(acc[i - 1], args[i])
  IN acc[Len(args)]

VARIABLES clusterEnabled,  \* how the server was started
          db,     \* per key: what it holds, a function on some of the types
          last    \* the last command: its name, its key or keys and its replies

vars == <<clusterEnabled, db, last>>

Init ==
  /\ clusterEnabled \in BOOLEAN
  /\ db = [k \in Key |-> <<>>]
  /\ last = [cmd |-> "none", keys |-> {}, replies |-> <<>>]

\* The end of every command.
Done(cmd, keys, replies) ==
  /\ last' = [cmd |-> cmd, keys |-> keys, replies |-> replies]
  /\ \A k \in Key : Cardinality(DOMAIN db'[k]) <= MaxTypes
  /\ UNCHANGED clusterEnabled

Has(k, t) == t \in DOMAIN db[k]
At(k, t, none) == IF Has(k, t) THEN db[k][t] ELSE none
WrongType(k, t) == clusterEnabled /\ \E u \in Type \ {t} : Has(k, u)

\* Mutant: a value that is dropped takes those of the other types with it.
MutDrop(k, t) == [db EXCEPT ![k] = <<>>]

\* db with value v of type t under key k, and without it.
Put(k, t, v) ==
  [db EXCEPT ![k] = [u \in {t} \cup (IF clusterEnabled THEN {} ELSE DOMAIN @) |->
                       IF u = t THEN v ELSE @[u]]]
Drop(k, t) == [db EXCEPT ![k] = [u \in DOMAIN @ \ {t} |-> @[u]]]
-----------------------------------------------------------------------------
(* Reads of a part of a collection *)

\* Mutant: a negative end counts from the last element but one.
MutRangeBounds(n, start, end) ==
  LET s1 == IF start < 0 THEN start + n ELSE start
      e1 == IF end < 0 THEN end + n - 1 ELSE end
      s2 == IF s1 < 0 THEN 0 ELSE s1
      e2 == IF e1 >= n THEN n - 1 ELSE e1
  IN [start |-> s2, end |-> e2, ok |-> ~(s2 > e2 \/ s2 >= n \/ e2 < 0)]

\* Positions count from 0; the result is empty when ok is FALSE.
rangeBounds(n, start, end) ==
  LET s1 == IF start < 0 THEN start + n ELSE start
      e1 == IF end < 0 THEN end + n ELSE end
      s2 == IF s1 < 0 THEN 0 ELSE s1
      e2 == IF e1 >= n THEN n - 1 ELSE e1
  IN [start |-> s2, end |-> e2, ok |-> ~(s2 > e2 \/ s2 >= n \/ e2 < 0)]

Range0(seq, start, end) ==
  LET b == rangeBounds(Len(seq), start, end)
  IN IF b.ok THEN SubSeq(seq, b.start + 1, b.end + 1) ELSE <<>>

LRange(k, start, end) == Range0(At(k, "list", <<>>), start, end)

HGet(k, f) ==
  LET hash == At(k, "hash", <<>>)
  IN IF f \in DOMAIN hash THEN <<hash[f]>> ELSE <<>>      \* a value, if there is one
SIsMember(k, m) == m \in At(k, "set", {})

ZRange(k, start, end) ==
  LET z == Range0(At(k, "zset", <<>>), start, end)
  IN [i \in DOMAIN z |-> z[i].member]
-----------------------------------------------------------------------------
(* Strings *)

handleSet(k, v) ==
  /\ db' = Put(k, "string", v)
  /\ Done("set", {k}, <<Ok>>)

\* A digit appended to the decimal of an int gives the decimal of another one, while
\* that is in range; no text becomes one.
Concat(s, suffix) ==
  LET n == IF s[2] < 0 THEN s[2] * 10 - suffix[2] ELSE s[2] * 10 + suffix[2]
  IN IF s[1] = "int" /\ suffix[1] = "int" /\ suffix[2] \in 0..9 /\ n \in MinInt..MaxInt
       THEN IntText(n) ELSE Text

\* The error of Append is not looked at.
handleAppend(k, suffix) ==
  /\ db' = IF WrongType(k, "string") THEN db
           ELSE Put(k, "string", IF Has(k, "string") THEN Concat(db[k]["string"], suffix)
                                                     ELSE suffix)
  /\ Done("append", {k}, <<Ok>>)

\* applyDelta: int addition wraps.
applyDelta(s, delta) == IntText(Wrap(s[2] + delta))

\* changeInteger, and the handlers of INCR, DECR, INCRBY and DECRBY, which answer OK
\* after an error too.
changeInteger(cmd, k, delta) ==
  LET current == At(k, "string", IntText(0))
      fails == WrongType(k, "string") \/ current[1] # "int"
  IN /\ db' = IF fails THEN db ELSE Put(k, "string", applyDelta(current, delta))
     /\ Done(cmd, {k}, IF fails THEN <<Error, Ok>> ELSE <<Ok>>)

handleIncr(k) == changeInteger("incr", k, 1)
handleDecr(k) == changeInteger("decr", k, -1)

NotAnInt(cmd, k) == UNCHANGED db /\ Done(cmd, {k}, <<Error, Ok>>)
handleIncrBy(k, x) ==
  IF x[1] = "int" THEN changeInteger("incrby", k, x[2]) ELSE NotAnInt("incrby", k)
handleDecrBy(k, x) ==
  IF x[1] = "int" THEN changeInteger("decrby", k, Wrap(-x[2])) ELSE NotAnInt("decrby", k)
-----------------------------------------------------------------------------
(* Lists *)

\* LPUSH keeps the order of its arguments.
handlePush(k, values, left) ==
  LET list == At(k, "list", <<>>)
      new == IF left THEN values \o list ELSE list \o values
  IN /\ Len(new) <= MaxList
     /\ IF WrongType(k, "list")
          THEN UNCHANGED db /\ Done("push", {k}, <<Number(0)>>)
          ELSE /\ db' = Put(k, "list", new)
               /\ Done("push", {k}, <<Number(Len(new))>>)

\* Mutant: the last element leaves an empty list behind.
MutHandlePop(k, left) ==
  LET list == At(k, "list", <<>>)
      rest == IF left THEN Tail(list) ELSE SubSeq(list, 1, Len(list) - 1)
  IN IF list = <<>>
       THEN UNCHANGED db /\ Done("pop", {k}, <<Null>>)
       ELSE db' = Put(k, "list", rest) /\ Done("pop", {k}, <<Bulk>>)

handlePop(k, left) ==
  LET list == At(k, "list", <<>>)
      rest == IF left THEN Tail(list) ELSE SubSeq(list, 1, Len(list) - 1)
  IN IF list = <<>>
       THEN UNCHANGED db /\ Done("pop", {k}, <<Null>>)
       ELSE /\ db' = IF Len(list) = 1 THEN Drop(k, "list") ELSE Put(k, "list", rest)
            /\ Done("pop", {k}, <<Bulk>>)
-----------------------------------------------------------------------------
(* Hashes and sets *)

\* HMSet; HSET is HMSET with one field.  The client is told OK in any case.
handleHMSet(cmd, k, fields) ==
  LET hash == At(k, "hash", <<>>)
      new == [f \in DOMAIN fields \cup DOMAIN hash |->
                IF f \in DOMAIN fields THEN fields[f] ELSE hash[f]]
  IN /\ db' = IF WrongType(k, "hash") THEN db ELSE Put(k, "hash", new)
     /\ Done(cmd, {k}, <<Ok>>)

\* What is left of a set of members (or fields) and how many the arguments removed;
\* one that is named twice is removed once.
removeMember(acc, m) ==
  IF m \in acc.set THEN [set |-> acc.set \ {m}, n |-> acc.n + 1] ELSE acc
removeMembers(set, args) == ForEach(removeMember, [set |-> set, n |-> 0], args)

handleHDel(k, fields) ==
  LET hash == At(k, "hash", <<>>)
      left == removeMembers(DOMAIN hash, fields)
  IN /\ db' = IF ~Has(k, "hash") THEN db
              ELSE IF left.set = {} THEN Drop(k, "hash")
              ELSE Put(k, "hash", [f \in left.set |-> hash[f]])
     /\ Done("hdel", {k}, <<Number(left.n)>>)

\* Mutant: a member that is there already counts as added.
MutAddMembers(set, args) == [set |-> set \cup Range(args), n |-> Len(args)]

addMember(acc, m) ==
  IF m \in acc.set THEN acc ELSE [set |-> acc.set \cup {m}, n |-> acc.n + 1]
addMembers(set, args) == ForEach(addMember, [set |-> set, n |-> 0], args)

handleSAdd(k, members) ==
  LET new == addMembers(At(k, "set", {}), members)
  IN IF WrongType(k, "set")
       THEN UNCHANGED db /\ Done("sadd", {k}, <<Number(0)>>)
       ELSE db' = Put(k, "set", new.set) /\ Done("sadd", {k}, <<Number(new.n)>>)

handleSRem(k, members) ==
  LET left == removeMembers(At(k, "set", {}), members)
  IN /\ db' = IF ~Has(k, "set") THEN db
              ELSE IF left.set = {} THEN Drop(k, "set") ELSE Put(k, "set", left.set)
     /\ Done("srem", {k}, <<Number(left.n)>>)
-----------------------------------------------------------------------------
(* Sorted sets: sequences of members with their scores *)

Less(x, y) == x.score # NaN /\ y.score # NaN /\ x.score < y.score

\* sort.SliceStable, which sorts up to 20 elements by insertion: an element moves to
\* the left past those it is less than.
Insert(z, x) ==
  LET stays == {i \in DOMAIN z : ~Less(x, z[i])}
      place == IF stays = {} THEN 0 ELSE Max(stays)
  IN SubSeq(z, 1, place) \o <<x>> \o SubSeq(z, place + 1, Len(z))
SliceStable(z) == ForEach(Insert, <<>>, z)

Places(z, m) == {i \in DOMAIN z : z[i].member = m}

\* Mutant: the sequence is not sorted after a change of score.
MutZaddUnsorted(z, pairs) ==
  LET step(acc, x) ==
        IF Places(acc.next, x.member) = {}
          THEN [next |-> Insert(acc.next, x), added |-> acc.added + 1]
          ELSE [acc EXCEPT !.next[Min(Places(acc.next, x.member))] = x]
  IN ForEach(step, [next |-> z, added |-> 0], pairs)

\* Mutant: a member that is there keeps its score.
MutZaddOne(acc, x) ==
  IF Places(acc.next, x.member) = {}
    THEN [next |-> Append(acc.next, x), added |-> acc.added + 1]
    ELSE acc

\* A member that is there gets its new score in place, others go to the end; then
\* everything is sorted.
zaddOne(acc, x) ==
  IF Places(acc.next, x.member) = {}
    THEN [next |-> Append(acc.next, x), added |-> acc.added + 1]
    ELSE [acc EXCEPT !.next[Min(Places(acc.next, x.member))] = x]
zadd(z, pairs) ==
  LET all == ForEach(zaddOne, [next |-> z, added |-> 0], pairs)
  IN [next |-> SliceStable(all.next), added |-> all.added]

Pairs == SeqsUpTo([score : Score \cup {NoScore}, member : Element], MaxArgs) \ {<<>>}

handleZAdd(k, pairs) ==
  LET new == zadd(At(k, "zset", <<>>), pairs)
  IN IF WrongType(k, "zset") \/ \E i \in DOMAIN pairs : pairs[i].score = NoScore
       THEN UNCHANGED db /\ Done("zadd", {k}, <<Error>>)
       ELSE db' = Put(k, "zset", new.next) /\ Done("zadd", {k}, <<Number(new.added)>>)

zrem(z, remove) ==
  ForEach(LAMBDA kept, x : IF x.member \in remove THEN kept ELSE Append(kept, x), <<>>, z)

handleZRem(k, members) ==
  LET z == At(k, "zset", <<>>)
      kept == zrem(z, Range(members))
      removed == Len(z) - Len(kept)
  IN /\ db' = IF ~Has(k, "zset") \/ removed = 0 THEN db
              ELSE IF kept = <<>> THEN Drop(k, "zset") ELSE Put(k, "zset", kept)
     /\ Done("zrem", {k}, <<Number(removed)>>)
-----------------------------------------------------------------------------
(* Keys and connections *)

\* DEL of one key answers once, DEL of several answers for each key that is missing
\* and then OK.
handleDelete(keys) ==
  LET missing(i) == db[keys[i]] = <<>> \/ \E j \in 1..(i - 1) : keys[j] = keys[i]
      errors == [i \in 1..Cardinality({j \in DOMAIN keys : missing(j)}) |-> Error]
  IN /\ db' = [k \in Key |-> IF k \in Range(keys) THEN <<>> ELSE db[k]]
     /\ Done("del", Range(keys), IF Len(keys) = 1 /\ errors # <<>> THEN errors
                                 ELSE Append(errors, Ok))

FlushAll ==
  /\ db' = [k \in Key |-> <<>>]
  /\ Done("flushall", Key, <<Ok>>)

handlePing ==
  /\ UNCHANGED db
  /\ Done("ping", {}, IF clusterEnabled THEN <<Ok, Ok, Ok>> ELSE <<Ok>>)

\* An unknown command, or a wrong number of arguments.
Reject ==
  /\ UNCHANGED db
  /\ Done("reject", {}, <<Error>>)
-----------------------------------------------------------------------------
Fields == UNION {[F -> Element] : F \in (SUBSET Element) \ {{}}}

Next ==
  \/ FlushAll \/ handlePing \/ Reject
  \/ \E keys \in SeqsUpTo(Key, 2) : handleDelete(keys)
  \/ \E k \in Key :
       \/ \E s \in String : \/ handleSet(k, s) \/ handleAppend(k, s)
                            \/ handleIncrBy(k, s) \/ handleDecrBy(k, s)
       \/ handleIncr(k) \/ handleDecr(k)
       \/ \E left \in BOOLEAN : handlePop(k, left) \/ \E a \in Args : handlePush(k, a, left)
       \/ \E f, v \in Element : handleHMSet("hset", k, [x \in {f} |-> v])
       \/ \E fields \in Fields : handleHMSet("hmset", k, fields)
       \/ \E a \in Args : handleHDel(k, a) \/ handleSAdd(k, a) \/ handleSRem(k, a)
                            \/ handleZRem(k, a)
       \/ \E pairs \in Pairs : handleZAdd(k, pairs)

Spec == Init /\ [][Next]_vars
-----------------------------------------------------------------------------
(* Properties *)

\* Type invariant.  The value of a type is never the empty one: a list, hash, set or
\* sorted set that loses its last element goes away, whatever command took it.
TypeOK ==
  \A k \in Key :
    /\ DOMAIN db[k] \subseteq Type
    /\ clusterEnabled => Cardinality(DOMAIN db[k]) <= 1
    /\ Has(k, "string") => db[k]["string"] \in String
    /\ Has(k, "list") => db[k]["list"] \in SeqsUpTo(Element, MaxList) \ {<<>>}
    /\ Has(k, "hash") => db[k]["hash"] \in Fields
    /\ Has(k, "set") => db[k]["set"] \in (SUBSET Element) \ {{}}
    /\ Has(k, "zset") => db[k]["zset"] \in Seq([score : Score, member : Element]) \ {<<>>}

\* A sorted set is in the order of its scores and has a member once, after any
\* sequence of ZADDs that add members and change scores, and of ZREMs.
ZSetSorted ==
  \A k \in Key : Has(k, "zset") =>
    LET z == db[k]["zset"]
    IN \A i, j \in DOMAIN z : i < j => z[i].member # z[j].member /\ ~Less(z[j], z[i])

\* LRANGE and ZRANGE return the elements whose position is between start and end, a
\* negative one counting from the end, for every length and every start and end
\* around it.
RangeExact ==
  \A k \in Key, t \in {"list", "zset"} :
    LET all == At(k, t, <<>>)
        n == Len(all)
        pos(x) == IF x < 0 THEN x + n ELSE x
        answer(start, end) == IF t = "list" THEN LRange(k, start, end) ELSE ZRange(k, start, end)
        shown(i) == IF t = "list" THEN all[i] ELSE all[i].member
    IN \A start, end \in -(MaxList + 2)..(MaxList + 2) :
         LET inside == {i \in 0..(n - 1) : pos(start) <= i /\ i <= pos(end)}
         IN answer(start, end) =
              [i \in 1..Cardinality(inside) |-> shown(Min(inside) + i)]

\* The members of a sorted set with their scores.
Scored(k) == Range(At(k, "zset", <<>>))

\* The pairs of a ZADD that no later pair of the same member overrides.
LastWord(pairs) ==
  {pairs[i] : i \in {j \in DOMAIN pairs :
     \A l \in DOMAIN pairs : j < l => pairs[l].member # pairs[j].member}}

\* What a command on the elements a, or on some pairs, may do to those of key k.
ElementsExact(k) ==
  /\ last'.cmd \in {"sadd", "srem", "hdel", "zrem"} => \A a \in Args :
       /\ handleSAdd(k, a) /\ ~WrongType(k, "set") =>
            \A m \in Element : SIsMember(k, m)' <=> SIsMember(k, m) \/ m \in Range(a)
       /\ handleSRem(k, a) =>
            \A m \in Element : SIsMember(k, m)' <=> SIsMember(k, m) /\ m \notin Range(a)
       /\ handleHDel(k, a) =>
            \A f \in Element : HGet(k, f)' = IF f \in Range(a) THEN <<>> ELSE HGet(k, f)
       /\ handleZRem(k, a) => Scored(k)' = {x \in Scored(k) : x.member \notin Range(a)}
  /\ last'.cmd = "zadd" => \A pairs \in Pairs : handleZAdd(k, pairs) =>
       IF last'.replies = <<Error>> THEN db' = db
       ELSE Scored(k)' = {x \in Scored(k) : \A y \in Range(pairs) : y.member # x.member}
                         \cup LastWord(pairs)

\* After a command that changes a collection each element is there or not there, with
\* the value or score it should have, whatever the order of the arguments, however
\* often one is named, and wherever the sort has moved the others: SADD, SREM, HDEL and
\* ZREM touch the elements they name and no others, the last score a ZADD gives a
\* member is the one it has, and a ZADD that answers an error has changed nothing.
CollectionsExact == [][\A k \in Key : ElementsExact(k)]_vars

\* The elements of the collection of type t under key k.
Count(k, t) ==
  IF ~Has(k, t) THEN 0
  ELSE Cardinality(IF t = "set" THEN db[k][t] ELSE DOMAIN db[k][t])

\* The type whose elements a command counts.
Counted(cmd) ==
  CASE cmd \in {"sadd", "srem"} -> "set" [] cmd \in {"zadd", "zrem"} -> "zset"
    [] cmd = "hdel" -> "hash" [] OTHER -> "none"

\* The number a client is told is the number of elements that came or went under its
\* key, and nothing else came or went: with members named twice in a command, scores
\* changed, and keys of another type.
CountsExact ==
  [][LET n == last'.replies[1][2]
         change == IF last'.cmd \in {"sadd", "zadd"} THEN n ELSE -n
     IN Counted(last'.cmd) # "none" =>
          \A k \in Key, t \in Type \ {"string"} :
            Count(k, t)' = IF k \in last'.keys /\ t = Counted(last'.cmd)
                             THEN Count(k, t) + change ELSE Count(k, t)]_vars

\* The types whose values a command may make disappear.
Disappearing(cmd) ==
  CASE cmd = "pop" -> {"list"} [] cmd = "hdel" -> {"hash"} [] cmd = "srem" -> {"set"}
    [] cmd = "zrem" -> {"zset"} [] cmd \in {"set", "del", "flushall"} -> Type
    [] OTHER -> {}

\* A value disappears only by a command on its type, by SET, DEL or FLUSHALL: a command
\* that meets a value of another type destroys nothing.
OtherTypesKept ==
  [][\A k \in Key : DOMAIN db[k] \ DOMAIN db'[k] \subseteq Disappearing(last'.cmd)]_vars
================================================================================
