----------------------------- MODULE AtomicStore -----------------------------
(***************************************************************************)
(* What utils/kvstore promises its callers: a call of Mset, Set, Delete,   *)
(* Append or Incr, Mget or Get takes effect in one instant between the     *)
(* call and the return; FlushAll does so lock by lock.                     *)
(***************************************************************************)
CONSTANTS Client, Key, Lock, LockOf, Value, None, Modify

Values == Value \cup {None}
Nothing == [k \in Key |-> None]

VARIABLES val,      \* per key: its value
          phase,    \* per client: "idle", "invoked" or "performed"
          kind,     \* per client: "write", "modify", "read" or "flush"
          keys,     \* per client: the keys of its call
          arg,      \* per client: the values it writes
          left,     \* per client: what its FlushAll has still to clear
          res       \* per client: the values it has read

vars == <<val, phase, kind, keys, arg, left, res>>

Init ==
  /\ val = Nothing
  /\ phase = [c \in Client |-> "idle"]
  /\ kind = [c \in Client |-> "read"]
  /\ keys = [c \in Client |-> {}]
  /\ arg = [c \in Client |-> Nothing]
  /\ left = [c \in Client |-> {}]
  /\ res = [c \in Client |-> Nothing]

Invoke(c) ==
  /\ phase[c] = "idle"
  /\ phase' = [phase EXCEPT ![c] = "invoked"]
  /\ \E kd \in {"write", "modify", "read", "flush"} : kind' = [kind EXCEPT ![c] = kd]
  /\ \E K \in SUBSET Key : keys' = [keys EXCEPT ![c] = K]
  /\ \E f \in [Key -> Values] : arg' = [arg EXCEPT ![c] = f]
  /\ left' = [left EXCEPT ![c] = Lock]
  /\ UNCHANGED <<val, res>>

Write(c) ==
  /\ phase[c] = "invoked" /\ kind[c] \in {"write", "modify"}
  /\ val' = [k \in Key |->
       IF k \notin keys[c] THEN val[k]
       ELSE IF kind[c] = "write" THEN arg[c][k] ELSE Modify[val[k]]]
  /\ phase' = [phase EXCEPT ![c] = "performed"]
  /\ UNCHANGED <<kind, keys, arg, left, res>>

Read(c) ==
  /\ phase[c] = "invoked" /\ kind[c] = "read"
  /\ res' = [res EXCEPT ![c] = [k \in Key |-> IF k \in keys[c] THEN val[k] ELSE None]]
  /\ phase' = [phase EXCEPT ![c] = "performed"]
  /\ UNCHANGED <<val, kind, keys, arg, left>>

Flush(c) ==
  /\ phase[c] = "invoked" /\ kind[c] = "flush"
  /\ \E l \in left[c] :
       /\ val' = [k \in Key |-> IF LockOf[k] = l THEN None ELSE val[k]]
       /\ left' = [left EXCEPT ![c] = @ \ {l}]
       /\ phase' = [phase EXCEPT ![c] = IF left[c] = {l} THEN "performed" ELSE "invoked"]
  /\ UNCHANGED <<kind, keys, arg, res>>

Return(c) ==
  /\ phase[c] = "performed"
  /\ phase' = [phase EXCEPT ![c] = "idle"]
  /\ kind' = [kind EXCEPT ![c] = "read"]
  /\ keys' = [keys EXCEPT ![c] = {}]
  /\ arg' = [arg EXCEPT ![c] = Nothing]
  /\ left' = [left EXCEPT ![c] = {}]
  /\ res' = [res EXCEPT ![c] = Nothing]
  /\ UNCHANGED val

Next == \E c \in Client : Invoke(c) \/ Write(c) \/ Read(c) \/ Flush(c) \/ Return(c)

Spec == Init /\ [][Next]_vars
=============================================================================
