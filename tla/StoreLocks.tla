------------------------------ MODULE StoreLocks ------------------------------
(***************************************************************************)
(* The locks of utils/kvstore.  Standalone has one lock over everything, a *)
(* cluster node one per hash slot.  The calls of several connections run   *)
(* key by key under a lock; values are opaque.                             *)
(***************************************************************************)
EXTENDS Integers

CONSTANTS Client,   \* connections
          Key,
          Lock,     \* numbers of the locks: slots, or a single one
          LockOf,   \* the lock of each key: SlotForKey, or the single one
          Value,
          None,     \* no value
          Modify    \* what Append, or changeInteger, makes of a value

ASSUME StoreLocksAssumption ==
  /\ Lock \subseteq Nat
  /\ LockOf \in [Key -> Lock]
  /\ None \notin Value
  /\ Modify \in [Value \cup {None} -> Value \cup {None}]

Values == Value \cup {None}
Nothing == [k \in Key |-> None]

VARIABLES db,     \* per key: its value
          pc,     \* per client: "idle", waiting in "lock" or "rlock", in "write" or "read"
          kind,   \* per client: "write", "modify", "read" or "flush"
          keys,   \* per client: keys of the call
          arg,    \* per client: the values of the call
          lk,     \* per client: the lock it takes
          left,   \* per client: the locks its FlushAll has still to take
          todo,   \* per client: the keys it has still to write or to read
          buf     \* per client: the values it will write, or those it has read

vars == <<db, pc, kind, keys, arg, lk, left, todo, buf>>

First(l, S) == l \in S /\ \A m \in S : l <= m

Init ==
  /\ db = Nothing
  /\ pc = [c \in Client |-> "idle"]
  /\ kind = [c \in Client |-> "read"]
  /\ keys = [c \in Client |-> {}]
  /\ arg = [c \in Client |-> Nothing]
  /\ lk \in {[c \in Client |-> l] : l \in Lock}
  /\ left = [c \in Client |-> {}]
  /\ todo = [c \in Client |-> {}]
  /\ buf = [c \in Client |-> Nothing]
-----------------------------------------------------------------------------
(* Calls *)

Call(c, kd, K, f, l, at) ==
  /\ pc[c] = "idle"
  /\ pc' = [pc EXCEPT ![c] = at]
  /\ kind' = [kind EXCEPT ![c] = kd]
  /\ keys' = [keys EXCEPT ![c] = K]
  /\ arg' = [arg EXCEPT ![c] = f]
  /\ lk' = [lk EXCEPT ![c] = l]
  /\ left' = [left EXCEPT ![c] = Lock]
  /\ UNCHANGED <<db, todo, buf>>

\* CROSSSLOT: the keys of a call share a slot.
OneSlot(K, l) == K # {} /\ \A k \in K : LockOf[k] = l

\* Mset; Set is the case of one key, Delete the case of one key and no value.
Mset(c) ==
  \E K \in SUBSET Key, l \in Lock :
    /\ OneSlot(K, l)
    /\ \E f \in [K -> Values] :
         Call(c, "write", K, [k \in Key |-> IF k \in K THEN f[k] ELSE None], l, "lock")

\* Append, and Incr and its relatives: what is written depends on what is there.
ChangeInteger(c) ==
  \E k \in Key : Call(c, "modify", {k}, Nothing, LockOf[k], "lock")

\* Mget; Get is the case of one key, GetKeysInSlot that of all keys of a slot.
Mget(c) ==
  \E K \in SUBSET Key, l \in Lock :
    OneSlot(K, l) /\ Call(c, "read", K, Nothing, l, "rlock")

FlushAll(c) ==
  \E l \in Lock : First(l, Lock) /\ Call(c, "flush", {}, Nothing, l, "lock")
\* The return of a call.
Return(c) ==
  /\ pc' = [pc EXCEPT ![c] = "idle"]
  /\ kind' = [kind EXCEPT ![c] = "read"]
  /\ keys' = [keys EXCEPT ![c] = {}]
  /\ arg' = [arg EXCEPT ![c] = Nothing]
  /\ left' = [left EXCEPT ![c] = {}]
  /\ buf' = [buf EXCEPT ![c] = Nothing]
  /\ UNCHANGED <<db, lk>>
-----------------------------------------------------------------------------
(* Under the lock *)

Holding(c, l) == pc[c] \in {"write", "read"} /\ lk[c] = l
Writing(c, l) == pc[c] = "write" /\ lk[c] = l

\* mu.Lock; changeInteger reads the value it changes.
AcquireLock(c) ==
  /\ pc[c] = "lock"
  /\ \A d \in Client : ~Holding(d, lk[c])
  /\ pc' = [pc EXCEPT ![c] = "write"]
  /\ todo' = [todo EXCEPT ![c] =
       IF kind[c] = "flush" THEN {k \in Key : LockOf[k] = lk[c]} ELSE keys[c]]
  /\ buf' = [buf EXCEPT ![c] =
       IF kind[c] = "modify"
         THEN [k \in Key |-> IF k \in keys[c] THEN Modify[db[k]] ELSE None]
         ELSE arg[c]]
  /\ left' = [left EXCEPT ![c] = IF kind[c] = "flush" THEN @ \ {lk[c]} ELSE @]
  /\ UNCHANGED <<db, kind, keys, arg, lk>>

\* Mset goes from key to key.
WriteKey(c, k) ==
  /\ pc[c] = "write" /\ kind[c] # "flush" /\ k \in todo[c]
  /\ db' = [db EXCEPT ![k] = buf[c][k]]
  /\ todo' = [todo EXCEPT ![c] = @ \ {k}]
  /\ UNCHANGED <<pc, kind, keys, arg, lk, left, buf>>

\* FlushAll drops the map of a slot, or all maps.
Clear(c) ==
  /\ pc[c] = "write" /\ kind[c] = "flush" /\ todo[c] # {}
  /\ db' = [k \in Key |-> IF k \in todo[c] THEN None ELSE db[k]]
  /\ todo' = [todo EXCEPT ![c] = {}]
  /\ UNCHANGED <<pc, kind, keys, arg, lk, left, buf>>

\* mu.Unlock, before the next slot of FlushAll and before the return.
NextSlot(c) ==
  /\ pc[c] = "write" /\ todo[c] = {}
  /\ kind[c] = "flush"
  /\ \E l \in left[c] : First(l, left[c]) /\ lk' = [lk EXCEPT ![c] = l]
  /\ pc' = [pc EXCEPT ![c] = "lock"]
  /\ UNCHANGED <<db, kind, keys, arg, left, todo, buf>>

\* Mutant: an update of a counter does not give the lock back.
MutUnlockKept(c) ==
  /\ pc[c] = "write" /\ todo[c] = {} /\ kind[c] # "modify"
  /\ kind[c] = "flush" => left[c] = {}
  /\ Return(c)
  /\ UNCHANGED todo

Unlock(c) ==
  /\ pc[c] = "write" /\ todo[c] = {}
  /\ kind[c] = "flush" => left[c] = {}
  /\ Return(c)
  /\ UNCHANGED todo

\* Mutant: a reader does not wait for the writer.
MutAcquireRLock(c) ==
  /\ pc[c] = "rlock"
  /\ pc' = [pc EXCEPT ![c] = "read"]
  /\ todo' = [todo EXCEPT ![c] = keys[c]]
  /\ UNCHANGED <<db, kind, keys, arg, lk, left, buf>>

AcquireRLock(c) ==
  /\ pc[c] = "rlock"
  /\ \A d \in Client : ~Writing(d, lk[c])
  /\ pc' = [pc EXCEPT ![c] = "read"]
  /\ todo' = [todo EXCEPT ![c] = keys[c]]
  /\ UNCHANGED <<db, kind, keys, arg, lk, left, buf>>

ReadKey(c, k) ==
  /\ pc[c] = "read" /\ k \in todo[c]
  /\ buf' = [buf EXCEPT ![c][k] = db[k]]
  /\ todo' = [todo EXCEPT ![c] = @ \ {k}]
  /\ UNCHANGED <<db, pc, kind, keys, arg, lk, left>>

RUnlock(c) ==
  /\ pc[c] = "read" /\ todo[c] = {}
  /\ Return(c)
  /\ UNCHANGED todo
-----------------------------------------------------------------------------
Proceed(c) ==
  \/ Clear(c) \/ NextSlot(c) \/ Unlock(c) \/ RUnlock(c)
  \/ \E k \in Key : WriteKey(c, k) \/ ReadKey(c, k)

Next ==
  \E c \in Client :
    \/ Mset(c) \/ ChangeInteger(c) \/ Mget(c) \/ FlushAll(c)
    \/ AcquireLock(c) \/ AcquireRLock(c)
    \/ Proceed(c)

Spec == Init /\ [][Next]_vars

\* A goroutine that holds a lock goes on; sync.RWMutex lets neither a waiting writer
\* nor a waiting reader starve.
FairSpec ==
  /\ Spec
  /\ \A c \in Client :
       WF_vars(Proceed(c)) /\ SF_vars(AcquireLock(c)) /\ SF_vars(AcquireRLock(c))
-----------------------------------------------------------------------------
(* Properties *)

Kinds == {"write", "modify", "read", "flush"}

\* Type invariant.  A call touches only the keys its lock protects.
TypeOK ==
  /\ db \in [Key -> Values]
  /\ pc \in [Client -> {"idle", "lock", "rlock", "write", "read"}]
  /\ kind \in [Client -> Kinds]
  /\ keys \in [Client -> SUBSET Key]
  /\ arg \in [Client -> [Key -> Values]]
  /\ lk \in [Client -> Lock]
  /\ left \in [Client -> SUBSET Lock]
  /\ todo \in [Client -> SUBSET Key]
  /\ buf \in [Client -> [Key -> Values]]
  /\ \A c \in Client : \A k \in todo[c] : LockOf[k] = lk[c]

\* The store as AtomicStore sees it.  The instant of a call is that of its lock: what
\* a writer has still to write counts as written, what a reader has still to read as
\* read.
Pending(k) == {c \in Client : pc[c] = "write" /\ k \in todo[c]}
ValueOf(k) == IF Pending(k) = {} THEN db[k] ELSE buf[CHOOSE c \in Pending(k) : TRUE][k]
PhaseOf(c) ==
  IF pc[c] = "idle" THEN "idle"
  ELSE IF pc[c] \in {"lock", "rlock"} \/ (kind[c] = "flush" /\ left[c] # {})
         THEN "invoked" ELSE "performed"
ResultOf(c) ==
  IF pc[c] # "read" THEN Nothing
  ELSE [k \in Key |-> IF k \in todo[c] THEN db[k] ELSE buf[c][k]]

Atomic == INSTANCE AtomicStore WITH
  val <- [k \in Key |-> ValueOf(k)],
  phase <- [c \in Client |-> PhaseOf(c)],
  res <- [c \in Client |-> ResultOf(c)]

\* The calls behave as if each took effect in one instant: an Mget never sees a part
\* of an Mset, no update of a counter is lost, and FlushAll clears slot after slot.
Linearizable == Atomic!Spec

\* Every call returns: no reader or writer waits for a lock for ever.
CallsReturn == \A c \in Client : pc[c] # "idle" ~> pc[c] = "idle"
=============================================================================
