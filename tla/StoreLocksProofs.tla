--------------------------- MODULE StoreLocksProofs ---------------------------
(***************************************************************************)
(* The calls of utils/kvstore are linearizable, for any number of clients, *)
(* keys and locks.                                                         *)
(***************************************************************************)
EXTENDS StoreLocks, TLAPS

\* The time, in seconds, that each prover is given for a leaf.
USE SMTT(20), ZenonT(20)

\* A writer is alone with its lock; a client that holds no lock has nothing to do
\* under it; what a call touches is under its lock; a FlushAll waits for a lock it has
\* not taken yet and writes nothing but absence.
Protocol ==
  \A c \in Client :
    /\ pc[c] \in {"rlock", "read"} => kind[c] = "read"
    /\ pc[c] \in {"lock", "write"} => kind[c] # "read"
    /\ pc[c] \notin {"write", "read"} => todo[c] = {}
    /\ pc[c] \in {"idle", "rlock"} => buf[c] = Nothing
    /\ pc[c] # "idle" /\ kind[c] # "flush" => \A k \in keys[c] : LockOf[k] = lk[c]
    /\ pc[c] = "lock" /\ kind[c] = "flush" => lk[c] \in left[c]
    /\ kind[c] = "flush" => arg[c] = Nothing /\ buf[c] = Nothing
Exclusive ==
  \A c, d \in Client : c # d /\ pc[c] = "write" => ~Holding(d, lk[c])

IInv == TypeOK /\ Protocol /\ Exclusive

-----------------------------------------------------------------------------
\* The invariant holds at the start.
LEMMA InitIInv == Init => IInv
  BY StoreLocksAssumption DEF Init, IInv, TypeOK, Protocol, Exclusive, Holding, Nothing,
     Values, Kinds

\* A call leaves the invariant alone: its keys are under the lock it will ask for.
LEMMA CallIInv ==
  ASSUME IInv, NEW c \in Client, NEW kd \in Kinds, NEW K \in SUBSET Key,
         NEW f \in [Key -> Values], NEW l \in Lock, NEW at \in {"lock", "rlock"},
         Call(c, kd, K, f, l, at),
         at = "rlock" <=> kd = "read",
         kd # "flush" => \A k \in K : LockOf[k] = l,
         kd = "flush" => f = Nothing
  PROVE  IInv'
<1>1. TypeOK'
  BY DEF IInv, TypeOK, Call, Protocol
<1>2. Protocol'
  BY DEF IInv, TypeOK, Call, Protocol, Kinds, Nothing
<1>3. Exclusive'
  BY DEF IInv, TypeOK, Call, Exclusive, Holding
<1> QED BY <1>1, <1>2, <1>3 DEF IInv

\* Nor does a return.
LEMMA ReturnIInv ==
  ASSUME IInv, NEW c \in Client, Return(c), todo[c] = {}, todo' = todo
  PROVE  IInv'
<1>0. Nothing \in [Key -> Values]
  BY DEF Nothing, Values
<1>1. TypeOK'
  BY <1>0 DEF IInv, TypeOK, Return, Kinds
<1>2. Protocol'
  BY DEF IInv, TypeOK, Return, Protocol, Nothing
<1>3. Exclusive'
  BY DEF IInv, TypeOK, Return, Exclusive, Holding
<1> QED BY <1>1, <1>2, <1>3 DEF IInv

\* The invariant is inductive.
LEMMA NextIInv == IInv /\ [Next]_vars => IInv'
<1> SUFFICES ASSUME IInv, [Next]_vars PROVE IInv'
  OBVIOUS
<1>0. Nothing \in [Key -> Values]
  BY DEF Nothing, Values
<1>1. ASSUME NEW c \in Client, Mset(c) PROVE IInv'
  <2> PICK K \in SUBSET Key, l \in Lock :
        /\ OneSlot(K, l)
        /\ \E f \in [K -> Values] :
             Call(c, "write", K, [k \in Key |-> IF k \in K THEN f[k] ELSE None], l, "lock")
    BY <1>1, Zenon DEF Mset
  <2> PICK f \in [K -> Values] :
        Call(c, "write", K, [k \in Key |-> IF k \in K THEN f[k] ELSE None], l, "lock")
    OBVIOUS
  <2> DEFINE g == [k \in Key |-> IF k \in K THEN f[k] ELSE None]
  <2>1. g \in [Key -> Values]
    BY DEF Values
  <2> HIDE DEF g
  <2> QED BY <2>1, CallIInv DEF OneSlot, Kinds, g
<1>2. ASSUME NEW c \in Client, ChangeInteger(c) PROVE IInv'
  BY <1>0, <1>2, CallIInv, StoreLocksAssumption, Zenon DEF ChangeInteger, Kinds
<1>3. ASSUME NEW c \in Client, Mget(c) PROVE IInv'
  BY <1>0, <1>3, CallIInv DEF Mget, OneSlot, Kinds
<1>4. ASSUME NEW c \in Client, FlushAll(c) PROVE IInv'
  BY <1>0, <1>4, CallIInv DEF FlushAll, Kinds
<1>5. ASSUME NEW c \in Client, AcquireLock(c) PROVE IInv'
  <2>1. TypeOK'
    <3>1. buf' \in [Client -> [Key -> Values]]
      BY <1>5, StoreLocksAssumption DEF IInv, TypeOK, AcquireLock, Values
    <3>2. todo' \in [Client -> SUBSET Key]
      BY <1>5 DEF IInv, TypeOK, AcquireLock
    <3>3. \A d \in Client : \A k \in todo'[d] : LockOf[k] = lk'[d]
      BY <1>5 DEF IInv, TypeOK, Protocol, AcquireLock
    <3>4. left' \in [Client -> SUBSET Lock] /\ pc' \in [Client -> {"idle", "lock", "rlock", "write", "read"}]
      BY <1>5 DEF IInv, TypeOK, AcquireLock
    <3> QED BY <1>5, <3>1, <3>2, <3>3, <3>4 DEF IInv, TypeOK, AcquireLock
  <2>2. Protocol'
    BY <1>5 DEF IInv, TypeOK, AcquireLock, Protocol, Kinds
  <2>3. Exclusive'
    BY <1>5 DEF IInv, TypeOK, AcquireLock, Exclusive, Holding
  <2> QED BY <2>1, <2>2, <2>3 DEF IInv
<1>6. ASSUME NEW c \in Client, AcquireRLock(c) PROVE IInv'
  <2>1. TypeOK'
    BY <1>6, Zenon DEF IInv, TypeOK, Protocol, AcquireRLock
  <2>2. Protocol'
    BY <1>6 DEF IInv, TypeOK, AcquireRLock, Protocol
  <2>3. Exclusive'
    BY <1>6 DEF IInv, TypeOK, AcquireRLock, Exclusive, Holding, Writing
  <2> QED BY <2>1, <2>2, <2>3 DEF IInv
<1>7. ASSUME NEW c \in Client, NEW k \in Key, WriteKey(c, k) PROVE IInv'
  <2>1. TypeOK'
    BY <1>7 DEF IInv, TypeOK, WriteKey
  <2>2. Protocol' /\ Exclusive'
    BY <1>7 DEF IInv, TypeOK, WriteKey, Protocol, Exclusive, Holding
  <2> QED BY <2>1, <2>2 DEF IInv
<1>8. ASSUME NEW c \in Client, NEW k \in Key, ReadKey(c, k) PROVE IInv'
  <2>1. TypeOK'
    BY <1>8 DEF IInv, TypeOK, ReadKey
  <2>2. Protocol' /\ Exclusive'
    BY <1>8 DEF IInv, TypeOK, ReadKey, Protocol, Exclusive, Holding
  <2> QED BY <2>1, <2>2 DEF IInv
<1>9. ASSUME NEW c \in Client, Clear(c) PROVE IInv'
  <2>1. TypeOK'
    BY <1>9 DEF IInv, TypeOK, Clear, Values
  <2>2. Protocol' /\ Exclusive'
    BY <1>9 DEF IInv, TypeOK, Clear, Protocol, Exclusive, Holding
  <2> QED BY <2>1, <2>2 DEF IInv
<1>10. ASSUME NEW c \in Client, NextSlot(c) PROVE IInv'
  <2>1. TypeOK'
    BY <1>10 DEF IInv, TypeOK, NextSlot
  <2>2. Protocol'
    BY <1>10 DEF IInv, TypeOK, NextSlot, Protocol, First
  <2>3. Exclusive'
    BY <1>10 DEF IInv, TypeOK, NextSlot, Exclusive, Holding
  <2> QED BY <2>1, <2>2, <2>3 DEF IInv
<1>11. ASSUME NEW c \in Client, Unlock(c) \/ RUnlock(c) PROVE IInv'
  BY <1>11, ReturnIInv DEF Unlock, RUnlock
<1>12. CASE UNCHANGED vars
  BY <1>12 DEF vars, IInv, TypeOK, Protocol, Exclusive, Holding
<1> QED
  BY <1>1, <1>2, <1>3, <1>4, <1>5, <1>6, <1>7, <1>8, <1>9, <1>10, <1>11, <1>12
     DEF Next, Proceed

\* Every reachable state satisfies the invariant.
LEMMA Invariant == Spec => []IInv
  BY InitIInv, NextIInv, PTL DEF Spec

\* The type invariant, with no call ever touching a key outside its lock, for any
\* clients, keys and locks.
THEOREM TypeCorrect == Spec => []TypeOK
<1>1. IInv => TypeOK
  BY DEF IInv
<1> QED BY <1>1, Invariant, PTL

-----------------------------------------------------------------------------
(* The refinement *)

\* A key that a writer has still to write is under the writer's lock, so it has one
\* such writer, and no reader of it.
LEMMA OneWriter ==
  ASSUME IInv, NEW k \in Key, NEW c \in Pending(k)
  PROVE  /\ Pending(k) = {c}
         /\ ValueOf(k) = buf[c][k]
         /\ LockOf[k] = lk[c]
         /\ \A d \in Client : pc[d] = "read" => k \notin todo[d]
<1>1. c \in Client /\ pc[c] = "write" /\ k \in todo[c] /\ LockOf[k] = lk[c]
  BY DEF Pending, IInv, TypeOK
<1>2. ASSUME NEW d \in Client, d # c, pc[d] \in {"write", "read"}, k \in todo[d]
      PROVE  FALSE
  <2>1. LockOf[k] = lk[d]
    BY <1>2 DEF IInv, TypeOK
  <2> QED BY <1>1, <1>2, <2>1, Zenon DEF IInv, Exclusive, Holding
<1>3. Pending(k) = {c}
  BY <1>1, <1>2 DEF Pending
<1>4. ValueOf(k) = buf[c][k]
  BY <1>3 DEF ValueOf
<1> QED BY <1>1, <1>2, <1>3, <1>4

\* A key nobody has still to write has its value.
LEMMA NoWriter == ASSUME NEW k \in Key, Pending(k) = {} PROVE ValueOf(k) = db[k]
  BY DEF ValueOf

\* The value of a key does not change when its writers and its value stay, and no
\* writer changes what it will write.
LEMMA SameValue ==
  ASSUME NEW k \in Key, Pending(k)' = Pending(k), db'[k] = db[k],
         \A c \in Pending(k) : buf'[c] = buf[c]
  PROVE  ValueOf(k)' = ValueOf(k)
<1>1. CASE Pending(k) = {}
  BY <1>1 DEF ValueOf
<1>2. CASE Pending(k) # {}
  <2> DEFINE w == CHOOSE c \in Pending(k) : TRUE
  <2>1. w \in Pending(k)
    BY <1>2
  <2>2. ValueOf(k) = buf[w][k] /\ ValueOf(k)' = buf'[w][k]
    BY <1>2 DEF ValueOf
  <2> QED BY <2>1, <2>2
<1> QED BY <1>1, <1>2

\* A call is an Invoke.
LEMMA CallStep ==
  ASSUME IInv, NEW c \in Client, NEW kd \in Kinds, NEW K \in SUBSET Key,
         NEW f \in [Key -> Values], NEW l \in Lock, NEW at \in {"lock", "rlock"},
         Call(c, kd, K, f, l, at)
  PROVE  Atomic!Invoke(c)
<1>1. \A k \in Key : ValueOf(k)' = ValueOf(k)
  <2> TAKE k \in Key
  <2>1. Pending(k)' = Pending(k)
    BY DEF Call, Pending, IInv, TypeOK
  <2> QED BY <2>1, SameValue DEF Call
<1>2. PhaseOf(c) = "idle" /\ PhaseOf(c)' = "invoked"
  BY DEF Call, PhaseOf, IInv, TypeOK
<1>3. \A d \in Client \ {c} : PhaseOf(d)' = PhaseOf(d)
  BY DEF Call, PhaseOf, IInv, TypeOK
<1>4. \A d \in Client : ResultOf(d)' = ResultOf(d)
  BY DEF Call, ResultOf, IInv, TypeOK
<1> QED
  BY <1>1, <1>2, <1>3, <1>4, Zenon DEF Call, Atomic!Invoke, Atomic!Values, Values, Kinds

\* A return is a Return.
LEMMA ReturnStep ==
  ASSUME IInv, NEW c \in Client, Unlock(c) \/ RUnlock(c)
  PROVE  Atomic!Return(c)
<1>1. Return(c) /\ todo' = todo /\ todo[c] = {} /\ pc[c] \in {"write", "read"}
  BY DEF Unlock, RUnlock
<1>2. \A k \in Key : ValueOf(k)' = ValueOf(k)
  <2> TAKE k \in Key
  <2>1. Pending(k)' = Pending(k) /\ c \notin Pending(k)
    BY <1>1 DEF Return, Pending, IInv, TypeOK
  <2>2. \A d \in Pending(k) : buf'[d] = buf[d]
    BY <1>1, <2>1 DEF Return, Pending, IInv, TypeOK
  <2> QED BY <1>1, <2>1, <2>2, SameValue DEF Return
<1>3. PhaseOf(c) = "performed" /\ PhaseOf(c)' = "idle"
  BY DEF Unlock, RUnlock, Return, PhaseOf, IInv, TypeOK, Protocol
<1>4. \A d \in Client \ {c} : PhaseOf(d)' = PhaseOf(d) /\ ResultOf(d)' = ResultOf(d)
  BY <1>1 DEF Return, PhaseOf, ResultOf, IInv, TypeOK
<1>5. ResultOf(c)' = Nothing
  BY <1>1 DEF Return, ResultOf, IInv, TypeOK
<1> QED
  BY <1>1, <1>2, <1>3, <1>4, <1>5, Zenon DEF Return, Atomic!Return, Atomic!Nothing, Nothing

\* What changes for the abstract store when a writer gets its lock: the keys it will
\* write have the values it will write, and nothing else does.
LEMMA LockValues ==
  ASSUME IInv, IInv', NEW c \in Client, AcquireLock(c), NEW k \in Key
  PROVE  /\ k \in todo'[c] => ValueOf(k) = db[k] /\ ValueOf(k)' = buf'[c][k]
         /\ k \notin todo'[c] => ValueOf(k)' = ValueOf(k)
<1>1. todo'[c] = (IF kind[c] = "flush" THEN {j \in Key : LockOf[j] = lk[c]} ELSE keys[c])
  BY DEF AcquireLock, IInv, TypeOK
<1>2. ASSUME k \in todo'[c] PROVE ValueOf(k) = db[k] /\ ValueOf(k)' = buf'[c][k]
  <2>1. LockOf[k] = lk[c]
    BY <1>1, <1>2 DEF AcquireLock, IInv, Protocol
  <2>2. Pending(k) = {}
    BY <2>1 DEF AcquireLock, Pending, Holding, IInv, TypeOK
  <2>3. c \in Pending(k)'
    BY <1>2 DEF AcquireLock, Pending, IInv, TypeOK
  <2>4. ValueOf(k)' = buf'[c][k]
    <3>1. Pending(k)' = {c}
      BY <2>2, <2>3 DEF AcquireLock, Pending, IInv, TypeOK
    <3> QED BY <3>1 DEF ValueOf
  <2> QED BY <2>2, <2>4, NoWriter
<1>3. ASSUME k \notin todo'[c] PROVE ValueOf(k)' = ValueOf(k)
  <2>1. Pending(k)' = Pending(k) /\ c \notin Pending(k)
    BY <1>3 DEF AcquireLock, Pending, IInv, TypeOK
  <2>2. \A d \in Pending(k) : buf'[d] = buf[d]
    BY <2>1 DEF AcquireLock, Pending, IInv, TypeOK
  <2> QED BY <2>1, <2>2, SameValue DEF AcquireLock
<1> QED BY <1>2, <1>3

\* A writer that gets its lock performs its Write, or one slot of its Flush.
LEMMA LockStep ==
  ASSUME IInv, IInv', NEW c \in Client, AcquireLock(c)
  PROVE  Atomic!Write(c) \/ Atomic!Flush(c)
<1>1. \A d \in Client : ResultOf(d)' = ResultOf(d)
  <2> TAKE d \in Client
  <2>1. CASE d = c
    BY <2>1 DEF AcquireLock, ResultOf, IInv, TypeOK
  <2>2. CASE d # c
    <3>1. pc'[d] = pc[d] /\ todo'[d] = todo[d] /\ buf'[d] = buf[d] /\ db' = db
      BY <2>2 DEF AcquireLock, IInv, TypeOK
    <3> QED BY <3>1 DEF ResultOf
  <2> QED BY <2>1, <2>2
<1>2. \A d \in Client \ {c} : PhaseOf(d)' = PhaseOf(d)
  BY DEF AcquireLock, PhaseOf, IInv, TypeOK
<1>3. PhaseOf(c) = "invoked"
  BY DEF AcquireLock, PhaseOf
<1>4. CASE kind[c] = "flush"
  <2>1. lk[c] \in left[c] /\ left' = [left EXCEPT ![c] = @ \ {lk[c]}]
    BY <1>4 DEF AcquireLock, IInv, Protocol, TypeOK
  <2>2. PhaseOf(c)' = IF left[c] = {lk[c]} THEN "performed" ELSE "invoked"
    BY <1>4, <2>1 DEF AcquireLock, PhaseOf, IInv, TypeOK
  <2>3. \A k \in Key : ValueOf(k)' = IF LockOf[k] = lk[c] THEN None ELSE ValueOf(k)
    <3> TAKE k \in Key
    <3>1. k \in todo'[c] <=> LockOf[k] = lk[c]
      BY <1>4 DEF AcquireLock, IInv, TypeOK
    <3>2. buf'[c][k] = None
      <4>1. arg[c] = Nothing
        BY <1>4 DEF IInv, Protocol
      <4>2. buf'[c] = arg[c]
        BY <1>4 DEF AcquireLock, IInv, TypeOK
      <4> QED BY <4>1, <4>2 DEF Nothing
    <3> QED BY <3>1, <3>2, LockValues
  <2>4. Atomic!Flush(c)
    BY <1>1, <1>2, <1>3, <1>4, <2>1, <2>2, <2>3, ZenonT(40) DEF Atomic!Flush, AcquireLock
  <2> QED BY <2>4
<1>5. CASE kind[c] # "flush"
  <2>1. kind[c] \in {"write", "modify"} /\ left' = left
    BY <1>5 DEF AcquireLock, IInv, Protocol, TypeOK, Kinds
  <2>2. PhaseOf(c)' = "performed"
    BY <1>5 DEF AcquireLock, PhaseOf, IInv, TypeOK
  <2>3. \A k \in Key : ValueOf(k)' =
          IF k \notin keys[c] THEN ValueOf(k)
          ELSE IF kind[c] = "write" THEN arg[c][k] ELSE Modify[ValueOf(k)]
    <3> TAKE k \in Key
    <3>1. k \in todo'[c] <=> k \in keys[c]
      BY <1>5 DEF AcquireLock, IInv, TypeOK
    <3>2. k \in keys[c] =>
            buf'[c][k] = IF kind[c] = "write" THEN arg[c][k] ELSE Modify[db[k]]
      BY <1>5, <2>1 DEF AcquireLock, IInv, TypeOK
    <3> QED BY <3>1, <3>2, LockValues
  <2>4. Atomic!Write(c)
    BY <1>1, <1>2, <1>3, <2>1, <2>2, <2>3, Zenon DEF Atomic!Write, AcquireLock
  <2> QED BY <2>4
<1> QED BY <1>4, <1>5

\* A reader that gets its lock performs its Read: no writer is at its keys.
LEMMA RLockStep ==
  ASSUME IInv, NEW c \in Client, AcquireRLock(c)
  PROVE  Atomic!Read(c)
<1>1. \A k \in Key : ValueOf(k)' = ValueOf(k)
  <2> TAKE k \in Key
  <2>1. Pending(k)' = Pending(k)
    BY DEF AcquireRLock, Pending, IInv, TypeOK
  <2> QED BY <2>1, SameValue DEF AcquireRLock
<1>2. \A k \in keys[c] : ValueOf(k) = db[k]
  <2> TAKE k \in keys[c]
  <2>1. k \in Key /\ LockOf[k] = lk[c]
    BY DEF AcquireRLock, IInv, TypeOK, Protocol
  <2>2. Pending(k) = {}
    BY <2>1 DEF AcquireRLock, Pending, Writing, IInv, TypeOK
  <2> QED BY <2>1, <2>2, NoWriter
<1>3. ResultOf(c)' = [k \in Key |-> IF k \in keys[c] THEN ValueOf(k) ELSE None]
  BY <1>2 DEF AcquireRLock, ResultOf, IInv, TypeOK, Protocol, Nothing
<1>4. \A d \in Client \ {c} : PhaseOf(d)' = PhaseOf(d) /\ ResultOf(d)' = ResultOf(d)
  BY DEF AcquireRLock, PhaseOf, ResultOf, IInv, TypeOK
<1>5. kind[c] = "read" /\ PhaseOf(c) = "invoked" /\ PhaseOf(c)' = "performed"
  BY DEF AcquireRLock, PhaseOf, IInv, TypeOK, Protocol
<1> QED
  BY <1>1, <1>3, <1>4, <1>5, Zenon DEF Atomic!Read, AcquireRLock

\* Under the lock nothing happens, as far as the abstract store is concerned: a key
\* that is written has the value it already counted as having, and nobody reads it.
LEMMA WriteKeyStep ==
  ASSUME IInv, NEW c \in Client, NEW k \in Key, WriteKey(c, k)
  PROVE  UNCHANGED Atomic!vars
<1>1. c \in Pending(k)
  BY DEF WriteKey, Pending
<1>2. ValueOf(k)' = ValueOf(k)
  <2>1. Pending(k)' = {}
    BY <1>1, OneWriter DEF WriteKey, Pending, IInv, TypeOK
  <2>2. ValueOf(k)' = db'[k]
    BY <2>1 DEF ValueOf
  <2> QED BY <1>1, <2>2, OneWriter DEF WriteKey, IInv, TypeOK
<1>3. \A j \in Key \ {k} : ValueOf(j)' = ValueOf(j)
  <2> TAKE j \in Key \ {k}
  <2>1. Pending(j)' = Pending(j) /\ db'[j] = db[j]
    BY DEF WriteKey, Pending, IInv, TypeOK
  <2> QED BY <2>1, SameValue DEF WriteKey
<1>4. \A d \in Client : PhaseOf(d)' = PhaseOf(d)
  BY DEF WriteKey, PhaseOf
<1>5. \A d \in Client : ResultOf(d)' = ResultOf(d)
  <2> TAKE d \in Client
  <2>1. CASE pc[d] # "read"
    BY <2>1 DEF WriteKey, ResultOf
  <2>2. CASE pc[d] = "read"
    <3>1. d # c /\ k \notin todo[d]
      BY <1>1, <2>2, OneWriter DEF WriteKey
    <3>2. todo'[d] = todo[d] /\ \A j \in todo[d] : db'[j] = db[j]
      BY <3>1 DEF WriteKey, IInv, TypeOK
    <3> QED BY <2>2, <3>2 DEF WriteKey, ResultOf
  <2> QED BY <2>1, <2>2
<1> QED BY <1>2, <1>3, <1>4, <1>5 DEF Atomic!vars, WriteKey

\* FlushAll clears keys that already count as cleared.
LEMMA ClearStep ==
  ASSUME IInv, NEW c \in Client, Clear(c)
  PROVE  UNCHANGED Atomic!vars
<1>1. \A k \in todo[c] : ValueOf(k)' = ValueOf(k)
  <2> TAKE k \in todo[c]
  <2>1. k \in Key /\ c \in Pending(k)
    BY DEF Clear, Pending, IInv, TypeOK
  <2>2. Pending(k)' = {}
    BY <2>1, OneWriter DEF Clear, Pending, IInv, TypeOK
  <2>3. ValueOf(k)' = None
    BY <2>1, <2>2 DEF ValueOf, Clear
  <2>4. buf[c][k] = None
    BY <2>1 DEF Clear, IInv, Protocol, Nothing
  <2> QED BY <2>1, <2>3, <2>4, OneWriter
<1>2. \A k \in Key \ todo[c] : ValueOf(k)' = ValueOf(k)
  <2> TAKE k \in Key \ todo[c]
  <2>1. Pending(k)' = Pending(k) /\ db'[k] = db[k]
    BY DEF Clear, Pending, IInv, TypeOK
  <2> QED BY <2>1, SameValue DEF Clear
<1>3. \A d \in Client : PhaseOf(d)' = PhaseOf(d)
  BY DEF Clear, PhaseOf
<1>4. \A d \in Client : ResultOf(d)' = ResultOf(d)
  <2> TAKE d \in Client
  <2>1. CASE pc[d] # "read"
    BY <2>1 DEF Clear, ResultOf
  <2>2. CASE pc[d] = "read"
    <3>1. \A k \in todo[c] : k \in Key /\ k \notin todo[d]
      <4> TAKE k \in todo[c]
      <4>1. k \in Key /\ c \in Pending(k)
        BY DEF Clear, Pending, IInv, TypeOK
      <4> QED BY <2>2, <4>1, OneWriter
    <3>2. todo'[d] = todo[d] /\ \A j \in todo[d] : db'[j] = db[j]
      BY <2>2, <3>1 DEF Clear, IInv, TypeOK
    <3> QED BY <2>2, <3>2 DEF Clear, ResultOf
  <2> QED BY <2>1, <2>2
<1> QED BY <1>1, <1>2, <1>3, <1>4 DEF Atomic!vars, Clear

\* What a reader reads is what it counted as having read.
LEMMA ReadKeyStep ==
  ASSUME IInv, NEW c \in Client, NEW k \in Key, ReadKey(c, k)
  PROVE  UNCHANGED Atomic!vars
<1>1. \A j \in Key : ValueOf(j)' = ValueOf(j)
  <2> TAKE j \in Key
  <2>1. Pending(j)' = Pending(j) /\ c \notin Pending(j)
    BY DEF ReadKey, Pending, IInv, TypeOK
  <2>2. \A d \in Pending(j) : buf'[d] = buf[d]
    BY <2>1 DEF ReadKey, Pending, IInv, TypeOK
  <2> QED BY <2>1, <2>2, SameValue DEF ReadKey
<1>2. \A d \in Client : PhaseOf(d)' = PhaseOf(d)
  BY DEF ReadKey, PhaseOf
<1>3. \A d \in Client : ResultOf(d)' = ResultOf(d)
  <2> TAKE d \in Client
  <2>1. CASE d # c
    <3>1. todo'[d] = todo[d] /\ buf'[d] = buf[d] /\ pc' = pc /\ db' = db
      BY <2>1 DEF ReadKey, IInv, TypeOK
    <3> QED BY <3>1 DEF ResultOf
  <2>2. CASE d = c
    <3>1. /\ todo'[c] = todo[c] \ {k} /\ pc' = pc /\ db' = db
          /\ \A j \in Key : buf'[c][j] = IF j = k THEN db[k] ELSE buf[c][j]
      BY DEF ReadKey, IInv, TypeOK
    <3> QED BY <2>2, <3>1 DEF ReadKey, ResultOf
  <2> QED BY <2>1, <2>2
<1> QED BY <1>1, <1>2, <1>3 DEF Atomic!vars, ReadKey

\* FlushAll between two slots has nothing pending.
LEMMA NextSlotStep ==
  ASSUME IInv, NEW c \in Client, NextSlot(c)
  PROVE  UNCHANGED Atomic!vars
<1>1. \A k \in Key : ValueOf(k)' = ValueOf(k)
  <2> TAKE k \in Key
  <2>1. Pending(k)' = Pending(k)
    BY DEF NextSlot, Pending, IInv, TypeOK
  <2> QED BY <2>1, SameValue DEF NextSlot
<1>2. \A d \in Client : PhaseOf(d)' = PhaseOf(d) /\ ResultOf(d)' = ResultOf(d)
  BY DEF NextSlot, PhaseOf, ResultOf, IInv, TypeOK
<1> QED BY <1>1, <1>2 DEF Atomic!vars, NextSlot

\* Every step is a step of the abstract store, or none.
LEMMA AtomicStep == IInv /\ IInv' /\ [Next]_vars => [Atomic!Next]_(Atomic!vars)
<1> SUFFICES ASSUME IInv, IInv', [Next]_vars PROVE [Atomic!Next]_(Atomic!vars)
  OBVIOUS
<1>0. Nothing \in [Key -> Values]
  BY DEF Nothing, Values
<1>1. ASSUME NEW c \in Client, Mset(c) PROVE Atomic!Invoke(c)
  <2> PICK K \in SUBSET Key, l \in Lock :
        \E f \in [K -> Values] :
          Call(c, "write", K, [k \in Key |-> IF k \in K THEN f[k] ELSE None], l, "lock")
    BY <1>1, Zenon DEF Mset
  <2> PICK f \in [K -> Values] :
        Call(c, "write", K, [k \in Key |-> IF k \in K THEN f[k] ELSE None], l, "lock")
    OBVIOUS
  <2> DEFINE g == [k \in Key |-> IF k \in K THEN f[k] ELSE None]
  <2>1. g \in [Key -> Values] /\ Call(c, "write", K, g, l, "lock")
    BY DEF Values
  <2> HIDE DEF g
  <2> QED BY <2>1, CallStep DEF Kinds
<1>2. ASSUME NEW c \in Client, ChangeInteger(c) PROVE Atomic!Invoke(c)
  BY <1>0, <1>2, CallStep, StoreLocksAssumption, Zenon DEF ChangeInteger, Kinds
<1>3. ASSUME NEW c \in Client, Mget(c) PROVE Atomic!Invoke(c)
  BY <1>0, <1>3, CallStep DEF Mget, Kinds
<1>4. ASSUME NEW c \in Client, FlushAll(c) PROVE Atomic!Invoke(c)
  BY <1>0, <1>4, CallStep DEF FlushAll, Kinds
<1>5. ASSUME UNCHANGED vars PROVE UNCHANGED Atomic!vars
  BY <1>5 DEF vars, Atomic!vars, ValueOf, PhaseOf, ResultOf, Pending
<1> QED
  BY <1>1, <1>2, <1>3, <1>4, <1>5, LockStep, RLockStep, ReturnStep, WriteKeyStep,
     ReadKeyStep, ClearStep, NextSlotStep
     DEF Next, Proceed, Atomic!Next

\* The initial states are empty stores.
LEMMA AtomicInit == Init => Atomic!Init
  BY Zenon DEF Init, Atomic!Init, Atomic!Nothing, Nothing, ValueOf, PhaseOf, ResultOf, Pending

\* Mset, Mget, Set, Get, Delete, Append and Incr are atomic, and FlushAll is atomic
\* slot by slot, for any clients, keys and locks and whatever the calls modify.
THEOREM LinearizableCorrect == Spec => Linearizable
<1> QED BY AtomicInit, AtomicStep, Invariant, PTL DEF Spec, Linearizable, Atomic!Spec

=============================================================================
