-------------------------- MODULE DoubleBufferProofs --------------------------
(***************************************************************************)
(* Proofs about the reply writer, for any set of writers and any buffer    *)
(* limit.                                                                  *)
(***************************************************************************)
EXTENDS DoubleBuffer, SequenceTheorems, TLAPS

\* The time, in seconds, that each prover is given for a leaf.
USE SMTT(20), ZenonT(20)

\* The actions, and the tuples of variables they leave alone.
USE DEF flusherVars, writerVars, Goto, ReturnWrite, Cancel

-----------------------------------------------------------------------------
\* Concatenation of byte sequences is associative.
LEMMA Assoc ==
  ASSUME NEW s \in Seq(Byte), NEW t \in Seq(Byte), NEW u \in Seq(Byte)
  PROVE  (s \o t) \o u = s \o (t \o u)
OBVIOUS

\* A byte sequence is the concatenation of its two parts at any cut.
LEMMA Cut ==
  ASSUME NEW s \in Seq(Byte), NEW k \in 0..Len(s)
  PROVE  /\ SubSeq(s, 1, k) \in Seq(Byte)
         /\ SubSeq(s, k + 1, Len(s)) \in Seq(Byte)
         /\ SubSeq(s, 1, k) \o SubSeq(s, k + 1, Len(s)) = s
<1>1. Len(s) \in Nat /\ k \in Int /\ 1 \in 1..Len(s) + 1 /\ Len(s) \in k..Len(s)
  BY LenProperties
<1>2. SubSeq(s, 1, k) \in Seq(Byte) /\ SubSeq(s, k + 1, Len(s)) \in Seq(Byte)
  <2>1. SubSeq(s, 1, k) \in Seq(Byte)
    BY <1>1, SubSeqProperties, ElementOfSeq
  <2>2. SubSeq(s, k + 1, Len(s)) \in Seq(Byte)
    BY <1>1, SubSeqProperties, ElementOfSeq
  <2> QED BY <2>1, <2>2
<1>3. k \in (1 - 1)..Len(s)
  BY <1>1
<1>4. SubSeq(s, 1, k) \o SubSeq(s, k + 1, Len(s)) = SubSeq(s, 1, Len(s))
  BY <1>1, <1>3, ConcatAdjacentSubSeq, Zenon
<1>5. SubSeq(s, 1, Len(s)) = s
  BY SubSeqFull
<1> QED BY <1>2, <1>4, <1>5, Zenon

\* The same with something in front of it.
LEMMA CutAfter ==
  ASSUME NEW r \in Seq(Byte), NEW s \in Seq(Byte), NEW k \in 0..Len(s)
  PROVE  (r \o SubSeq(s, 1, k)) \o SubSeq(s, k + 1, Len(s)) = r \o s
<1>1. ASSUME NEW t \in Seq(Byte), NEW u \in Seq(Byte), t \o u = s
      PROVE  (r \o t) \o u = r \o s
  <2>1. (r \o t) \o u = r \o (t \o u)
    BY Assoc, ZenonT(40)
  <2> QED BY <1>1, <2>1
<1> QED BY <1>1, Cut, Zenon

\* What a writer's next chunk and the rest of its Write are made of.
LEMMA ChunkFacts ==
  ASSUME TypeOK, NEW w \in Writers
  PROVE  /\ Chunk(w) \in Seq(Byte)
         /\ Rest(w) \in Seq(Byte)
         /\ ChunkLen(w) \in Nat
         /\ ChunkLen(w) <= Limit
         /\ Len(Chunk(w)) = ChunkLen(w)
         /\ todo[w] # <<>> => Chunk(w) # <<>>
<1>1. todo[w] \in Seq(Byte) /\ Limit \in Nat \ {0}
  BY DoubleBufferAssumption DEF TypeOK
<1>2. ChunkLen(w) \in Nat /\ ChunkLen(w) <= Limit /\ ChunkLen(w) <= Len(todo[w])
  BY <1>1, LenProperties DEF ChunkLen
<1>3. Chunk(w) \in Seq(Byte) /\ Len(Chunk(w)) = ChunkLen(w)
  BY <1>1, <1>2, SubSeqProperties, LenProperties DEF Chunk
<1>4. Rest(w) \in Seq(Byte)
  BY <1>1, <1>2, SubSeqProperties, LenProperties DEF Rest
<1>5. ASSUME todo[w] # <<>> PROVE Chunk(w) # <<>>
  <2>1. Len(todo[w]) > 0
    BY <1>1, <1>5, EmptySeq, LenProperties
  <2>2. ChunkLen(w) > 0
    BY <1>1, <2>1 DEF ChunkLen
  <2> QED BY <1>3, <2>2, EmptySeq
<1> QED BY <1>2, <1>3, <1>4, <1>5

\* The bytes a Write of n bytes submits.
LEMMA PayloadFacts ==
  ASSUME TypeOK, NEW w \in Writers, NEW n \in Nat
  PROVE  [i \in 1..n |-> <<w, count[w] + i>>] \in Seq(Byte)
<1>1. count[w] \in Nat
  BY DEF TypeOK
<1>2. \A i \in 1..n : <<w, count[w] + i>> \in Byte
  BY <1>1 DEF Byte
<1> QED BY <1>2, IsASeq

-----------------------------------------------------------------------------
\* Every step keeps the type invariant.
LEMMA TypeStep == TypeOK /\ [Next]_vars => TypeOK'
<1> SUFFICES ASSUME TypeOK, [Next]_vars PROVE TypeOK'
  OBVIOUS
<1> USE DoubleBufferAssumption
<1>1. ASSUME NEW w \in Writers, NEW n \in 0..MaxLen, Write(w, n)
      PROVE  TypeOK'
  <2>1. [i \in 1..n |-> <<w, count[w] + i>>] \in Seq(Byte)
    BY PayloadFacts
  <2>2. count[w] + n \in Nat
    BY DEF TypeOK
  <2>3. /\ todo' \in [Writers -> Seq(Byte)] /\ count' \in [Writers -> Nat]
        /\ wpc' \in [Writers -> WriterPcs]
    <3> DEFINE payload == [i \in 1..n |-> <<w, count[w] + i>>]
    <3>1. todo' = [todo EXCEPT ![w] = payload] /\ payload \in Seq(Byte)
      BY <1>1, <2>1 DEF Write
    <3> HIDE DEF payload
    <3> QED BY <1>1, <2>2, <3>1, Zenon DEF TypeOK, Write, WriterPcs
  <2> QED BY <1>1, <2>3 DEF TypeOK, Write
<1>2. ASSUME NEW w \in Writers, CheckContext(w)
      PROVE  TypeOK'
  <2>1. <<>> \in Seq(Byte)
    BY EmptySeq
  <2> QED BY <1>2, <2>1, Zenon DEF TypeOK, CheckContext, WriterPcs
<1>3. ASSUME NEW w \in Writers, AppendChunk(w)
      PROVE  TypeOK'
  <2>1. CASE Fits(w)
    <3>1. /\ back \o Chunk(w) \in Seq(Byte)
          /\ Len(back \o Chunk(w)) <= Limit
          /\ accepted \o Chunk(w) \in Seq(Byte)
      BY <2>1, ChunkFacts, ConcatProperties, LenProperties DEF TypeOK, Fits
    <3> QED BY <1>3, <2>1, <3>1, ChunkFacts, Zenon DEF TypeOK, AppendChunk, WriterPcs
  <2>2. CASE ~Fits(w)
    BY <1>3, <2>2, Zenon DEF TypeOK, AppendChunk, WriterPcs
  <2> QED BY <2>1, <2>2
<1>4. ASSUME NEW w \in Writers, WaitCancelled(w)
      PROVE  TypeOK'
  <2>1. <<>> \in Seq(Byte)
    BY EmptySeq
  <2> QED BY <1>4, <2>1 DEF TypeOK, WaitCancelled, WriterPcs
<1>5. ASSUME NEW w \in Writers, WaitToken(w)
      PROVE  TypeOK'
  BY <1>5 DEF TypeOK, WaitToken, WriterPcs
<1>6. ASSUME NEW w \in Writers, Signal(w)
      PROVE  TypeOK'
  BY <1>6, Zenon DEF TypeOK, Signal, WriterPcs
<1>7. ASSUME NEW w \in Writers, CloseCheck(w)
      PROVE  TypeOK'
  BY <1>7, Zenon DEF TypeOK, CloseCheck, WriterPcs
<1>8. ASSUME NEW w \in Writers, CloseChannel(w)
      PROVE  TypeOK'
  BY <1>8, Zenon DEF TypeOK, CloseChannel, WriterPcs
<1>9. ASSUME NEW w \in Writers, CloseReturn(w)
      PROVE  TypeOK'
  BY <1>9 DEF TypeOK, CloseReturn, WriterPcs
<1>10. CASE Receive
  BY <1>10 DEF TypeOK, Receive, FlusherPcs
<1>11. CASE Swap
  <2>1. <<>> \in Seq(Byte) /\ Len(<<>>) = 0
    BY EmptySeq
  <2> QED BY <1>11, <2>1 DEF TypeOK, Swap, FlusherPcs
<1>12. CASE Notify
  BY <1>12 DEF TypeOK, Notify, FlusherPcs
<1>13. CASE FlushOk
  <2>1. <<>> \in Seq(Byte) /\ Len(<<>>) = 0 /\ sink \o front \in Seq(Byte)
    BY EmptySeq, ConcatProperties DEF TypeOK
  <2> QED BY <1>13, <2>1 DEF TypeOK, FlushOk, FlusherPcs
<1>14. ASSUME NEW k \in 0..Limit, FlushFail(k)
       PROVE  TypeOK'
  <2>1. front \in Seq(Byte) /\ Len(front) \in Nat /\ k \in 0..Len(front)
    BY <1>14, LenProperties DEF TypeOK, FlushFail
  <2>2. /\ SubSeq(front, 1, k) \in Seq(Byte)
        /\ SubSeq(front, k + 1, Len(front)) \in Seq(Byte)
        /\ Len(SubSeq(front, k + 1, Len(front))) <= Len(front)
    BY <2>1, SubSeqProperties
  <2>3. sink \o SubSeq(front, 1, k) \in Seq(Byte)
    BY <2>2, ConcatProperties DEF TypeOK
  <2>4. Len(front') <= Limit
    BY <1>14, <2>1, <2>2, LenProperties DEF TypeOK, FlushFail
  <2> QED BY <1>14, <2>2, <2>3, <2>4 DEF TypeOK, FlushFail, FlusherPcs, Causes
<1>15. CASE Exit
  BY <1>15 DEF TypeOK, Exit, FlusherPcs, Causes
<1>16. CASE UNCHANGED vars
  BY <1>16 DEF TypeOK, vars
<1> QED
  BY <1>1, <1>2, <1>3, <1>4, <1>5, <1>6, <1>7, <1>8, <1>9, <1>10, <1>11, <1>12,
     <1>13, <1>14, <1>15, <1>16
  DEF Next, WriterStep, FlusherStep, Quiescent

\* The initial state is well typed.
LEMMA InitType == Init => TypeOK
<1> SUFFICES ASSUME Init PROVE TypeOK
  OBVIOUS
<1>1. \A s : s = <<>> => s \in Seq(Byte) /\ Len(s) = 0
  BY EmptySeq
<1>2. /\ back \in Seq(Byte) /\ Len(back) <= Limit
      /\ front \in Seq(Byte) /\ Len(front) <= Limit
      /\ accepted \in Seq(Byte) /\ sink \in Seq(Byte)
  BY <1>1, DoubleBufferAssumption DEF Init
<1>3. todo \in [Writers -> Seq(Byte)]
  BY <1>1 DEF Init
<1>4. wpc \in [Writers -> WriterPcs] /\ count \in [Writers -> Nat]
  BY DEF Init, WriterPcs
<1>5. closeErr \in [Writers -> Causes \cup {"none", "nil"}]
  BY DEF Init
<1> QED
  BY <1>2, <1>3, <1>4, <1>5, Zenon DEF Init, TypeOK, FlusherPcs, Causes

\* The reply writer's state stays well typed and its buffers within bufferLimit.
THEOREM TypeCorrect == Spec => []TypeOK
BY InitType, TypeStep, PTL DEF Spec

-----------------------------------------------------------------------------
(***************************************************************************)
(* Order and wake-ups.  InOrder alone is not inductive: Swap overwrites    *)
(* the front buffer, so it must be known to be empty there.  The wake-up   *)
(* invariants need to know that a writer only waits, or holds the token,   *)
(* with something left to append.                                          *)
(***************************************************************************)
FlusherInv ==
  /\ fpc \in {"recv", "swap"} => front = <<>>
  /\ fpc \in {"recv", "swap", "notify", "write"} => cause = "live"
  /\ fpc = "done" => cause # "live"

PendingInv == \A w \in Writers : wpc[w] \in {"lock", "wait"} => todo[w] # <<>>

IInv ==
  TypeOK /\ InOrder /\ FlusherInv /\ PendingInv /\ NoStrandedBytes /\ NoStuckWriter

\* The order of the bytes survives every step.
LEMMA InOrderStep ==
  TypeOK /\ InOrder /\ FlusherInv /\ [Next]_vars => InOrder'
<1> SUFFICES ASSUME TypeOK, InOrder, FlusherInv, [Next]_vars PROVE InOrder'
  OBVIOUS
<1> USE DEF InOrder
<1>0. /\ sink \in Seq(Byte) /\ front \in Seq(Byte) /\ back \in Seq(Byte)
      /\ sink \o front \in Seq(Byte) /\ <<>> \in Seq(Byte)
  BY EmptySeq, ConcatProperties DEF TypeOK
<1>1. ASSUME NEW w \in Writers, AppendChunk(w)
      PROVE  InOrder'
  <2>1. CASE Fits(w)
    <3>1. Chunk(w) \in Seq(Byte)
      BY ChunkFacts
    <3>2. (sink \o front) \o (back \o Chunk(w)) = ((sink \o front) \o back) \o Chunk(w)
      <4> DEFINE a == sink \o front  c == Chunk(w)
      <4>1. a \in Seq(Byte) /\ c \in Seq(Byte)
        BY <1>0, <3>1
      <4> HIDE DEF a, c
      <4>2. a \o (back \o c) = (a \o back) \o c
        <5>1. back \in Seq(Byte)
          BY <1>0
        <5> QED BY <4>1, <5>1, Assoc
      <4> QED BY <4>2 DEF a, c
    <3> QED BY <1>1, <2>1, <3>2, Zenon DEF AppendChunk
  <2>2. CASE ~Fits(w)
    BY <1>1, <2>2 DEF AppendChunk
  <2> QED BY <2>1, <2>2
<1>2. CASE Swap
  <2>1. front = <<>>
    BY <1>2 DEF Swap, FlusherInv
  <2>2. sink \o <<>> = sink /\ (sink \o back) \o <<>> = sink \o back
    BY <1>0, ConcatEmptySeq, ConcatProperties
  <2> QED BY <1>2, <2>1, <2>2 DEF Swap
<1>3. CASE FlushOk
  <2>1. (sink \o front) \o <<>> = sink \o front
    BY <1>0, ConcatEmptySeq
  <2> QED BY <1>3, <2>1 DEF FlushOk
<1>4. ASSUME NEW k \in 0..Limit, FlushFail(k)
      PROVE  InOrder'
  <2>1. Len(front) \in Nat /\ k \in 0..Len(front)
    BY <1>0, <1>4, LenProperties DEF FlushFail
  <2>2. (sink \o SubSeq(front, 1, k)) \o SubSeq(front, k + 1, Len(front)) = sink \o front
    BY <1>0, <2>1, CutAfter, Zenon
  <2> QED BY <1>4, <2>2, Zenon DEF FlushFail
<1>5. CASE UNCHANGED <<accepted, sink, front, back>>
  BY <1>5
<1> QED
  BY <1>1, <1>2, <1>3, <1>4, <1>5, Zenon
  DEF Next, WriterStep, FlusherStep, Quiescent, vars, Write, CheckContext,
      WaitCancelled, WaitToken, Signal, CloseCheck, CloseChannel, CloseReturn,
      Receive, Notify, Exit

\* What the flusher's line says about its buffer and the context.
LEMMA FlusherStepInv == TypeOK /\ FlusherInv /\ [Next]_vars => FlusherInv'
BY ZenonT(40) DEF TypeOK, Causes, FlusherPcs, FlusherInv, Next, WriterStep, FlusherStep,
       Quiescent, vars, Write, CheckContext, AppendChunk, WaitCancelled, WaitToken,
       Signal, CloseCheck, CloseChannel, CloseReturn, Receive, Swap, Notify, FlushOk,
       FlushFail, Exit

\* A writer that waits for room, or holds the lock, has bytes left.
LEMMA PendingStep == TypeOK /\ PendingInv /\ [Next]_vars => PendingInv'
BY ZenonT(40) DEF TypeOK, PendingInv, Next, WriterStep, FlusherStep,
       Quiescent, vars, Write, CheckContext, AppendChunk, WaitCancelled, WaitToken,
       Signal, CloseCheck, CloseChannel, CloseReturn, Receive, Swap, Notify, FlushOk,
       FlushFail, Exit

\* No wake-up of the flusher is lost.
LEMMA StrandedStep ==
  TypeOK /\ FlusherInv /\ NoStrandedBytes /\ [Next]_vars => NoStrandedBytes'
<1> SUFFICES ASSUME TypeOK, FlusherInv, NoStrandedBytes, [Next]_vars
             PROVE  NoStrandedBytes'
  OBVIOUS
<1> USE DEF NoStrandedBytes
<1>1. ASSUME NEW w \in Writers, WriterStep(w) \/ CloseCheck(w) \/ \E n \in 0..MaxLen : Write(w, n)
      PROVE  NoStrandedBytes'
  BY <1>1
  DEF TypeOK, WriterStep, Write, CheckContext, AppendChunk, WaitCancelled, WaitToken,
      Signal, CloseCheck, CloseChannel, CloseReturn
<1>2. CASE FlusherStep
  BY <1>2
  DEF TypeOK, FlusherInv, FlusherStep, Receive, Swap, Notify, FlushOk, FlushFail, Exit
<1>3. CASE UNCHANGED vars
  BY <1>3 DEF vars
<1> QED BY <1>1, <1>2, <1>3, DoubleBufferAssumption DEF Next, Quiescent

\* No wake-up of a writer is lost.
LEMMA StuckStep ==
  TypeOK /\ FlusherInv /\ PendingInv /\ NoStuckWriter /\ [Next]_vars => NoStuckWriter'
<1> SUFFICES ASSUME TypeOK, FlusherInv, PendingInv, NoStuckWriter, [Next]_vars
             PROVE  NoStuckWriter'
  OBVIOUS
<1>1. ASSUME NEW w \in Writers, AppendChunk(w)
      PROVE  NoStuckWriter'
  <2>0. todo[w] # <<>> /\ back \in Seq(Byte)
    BY <1>1 DEF AppendChunk, PendingInv, TypeOK
  <2>1. back' # <<>>
    <3>1. CASE Fits(w)
      <4>1. Chunk(w) \in Seq(Byte) /\ Chunk(w) # <<>>
        BY <2>0, ChunkFacts
      <4>2. back \o Chunk(w) # <<>>
        BY <2>0, <4>1, ConcatEqualIffEmpty
      <4> QED BY <1>1, <3>1, <4>2 DEF AppendChunk
    <3>2. CASE ~Fits(w)
      <4>1. Len(back) # 0
        BY <2>0, <3>2, ChunkFacts, LenProperties, DoubleBufferAssumption DEF Fits
      <4> QED BY <1>1, <2>0, <3>2, <4>1, EmptySeq DEF AppendChunk
    <3> QED BY <3>1, <3>2
  <2> QED BY <1>1, <2>1 DEF NoStuckWriter, AppendChunk
<1>2. ASSUME NEW w \in Writers, NEW n \in 0..MaxLen, Write(w, n)
      PROVE  NoStuckWriter'
  BY <1>2, Zenon DEF TypeOK, NoStuckWriter, Write
<1>3. ASSUME NEW w \in Writers, CheckContext(w)
      PROVE  NoStuckWriter'
  BY <1>3, Zenon DEF TypeOK, NoStuckWriter, CheckContext
<1>4. ASSUME NEW w \in Writers, WaitCancelled(w) \/ WaitToken(w) \/ Signal(w)
      PROVE  NoStuckWriter'
  BY <1>4, Zenon DEF TypeOK, NoStuckWriter, PendingInv, WaitCancelled, WaitToken, Signal
<1>5. ASSUME NEW w \in Writers, CloseCheck(w) \/ CloseChannel(w) \/ CloseReturn(w)
      PROVE  NoStuckWriter'
  BY <1>5, Zenon DEF TypeOK, NoStuckWriter, CloseCheck, CloseChannel, CloseReturn
<1>6. CASE FlusherStep
  BY <1>6
  DEF TypeOK, NoStuckWriter, FlusherInv, FlusherStep, Receive, Swap, Notify, FlushOk,
      FlushFail, Exit
<1>7. CASE UNCHANGED vars
  BY <1>7 DEF vars, NoStuckWriter
<1> QED
  BY <1>1, <1>2, <1>3, <1>4, <1>5, <1>6, <1>7, DoubleBufferAssumption
  DEF Next, WriterStep, Quiescent

\* The inductive invariant behind order and wake-ups.
LEMMA OrderInvariant == Spec => []IInv
<1>1. Init => IInv
  <2> SUFFICES ASSUME Init PROVE IInv
    OBVIOUS
  <2>1. TypeOK
    BY InitType
  <2>2. <<>> \in Seq(Byte) /\ <<>> \o <<>> = <<>>
    BY EmptySeq, ConcatEmptySeq
  <2>3. InOrder
    BY <2>2 DEF Init, InOrder
  <2>4. FlusherInv /\ PendingInv /\ NoStrandedBytes /\ NoStuckWriter
    BY DEF Init, FlusherInv, PendingInv, NoStrandedBytes, NoStuckWriter
  <2> QED BY <2>1, <2>3, <2>4 DEF IInv
<1>2. IInv /\ [Next]_vars => IInv'
  BY TypeStep, InOrderStep, FlusherStepInv, PendingStep, StrandedStep, StuckStep DEF IInv
<1> QED BY <1>1, <1>2, PTL DEF Spec

\* Bytes leave in the order in which Write accepted them, none lost, none twice,
\* for any number of writers and any interleaving of their chunks with swaps.
THEOREM OrderCorrect == Spec => []InOrder
BY OrderInvariant, PTL DEF IInv

\* The two capacity-one channels with non-blocking sends lose no wake-up: neither
\* the flusher nor a writer sleeps while only the other could wake it.
THEOREM WakeUpsCorrect == Spec => []NoLostWakeUp
<1>1. IInv => NoLostWakeUp
  BY DEF IInv, NoLostWakeUp
<1> QED BY <1>1, OrderInvariant, PTL

-----------------------------------------------------------------------------
(***************************************************************************)
(* The order of one writer's bytes.  A writer has handed over the first    *)
(* bytes of all it has submitted, and its todo holds those that follow.    *)
(* Only a cancelled context makes it drop some, and then it never gets to  *)
(* the mutex again.                                                        *)
(***************************************************************************)
Ordered(a) ==
  \A j \in 1..Len(a) :
    /\ a[j][2] > 1 => \E i \in 1..(j - 1) : a[i] = <<a[j][1], a[j][2] - 1>>
    /\ \A i \in 1..(j - 1) : a[i] # <<a[j][1], a[j][2]>>

\* The bytes of w in a are its first d ones.
UpTo(a, w, d) ==
  /\ \A j \in 1..Len(a) : a[j][1] = w => a[j][2] <= d
  /\ d > 0 => \E j \in 1..Len(a) : a[j] = <<w, d>>

Consecutive(c, w, d) == \A i \in 1..Len(c) : c[i] = <<w, d + i>>

Given(w) == count[w] - Len(todo[w])

WriterInv(w) ==
  /\ Given(w) >= 0
  /\ Consecutive(todo[w], w, Given(w))
  /\ wpc[w] \in {"idle", "closeChan", "closeWait"} => todo[w] = <<>>
  /\ cause = "live" \/ wpc[w] \in {"lock", "wait", "signal"} => UpTo(accepted, w, Given(w))

OrderInv == Ordered(accepted) /\ \A w \in Writers : WriterInv(w)

\* Elements of a concatenation.
LEMMA ConcatElements ==
  ASSUME NEW a \in Seq(Byte), NEW c \in Seq(Byte)
  PROVE  /\ Len(a) \in Nat /\ Len(c) \in Nat /\ Len(a \o c) = Len(a) + Len(c)
         /\ \A j \in 1..Len(a) : (a \o c)[j] = a[j]
         /\ \A i \in 1..Len(c) : (a \o c)[Len(a) + i] = c[i]
OBVIOUS

\* The next bytes of w, put behind those that are there.
LEMMA OrderedConcat ==
  ASSUME NEW a \in Seq(Byte), NEW c \in Seq(Byte), NEW w \in Writers, NEW d \in Nat,
         Ordered(a), UpTo(a, w, d), Consecutive(c, w, d)
  PROVE  /\ Ordered(a \o c)
         /\ UpTo(a \o c, w, d + Len(c))
         /\ \A v \in Writers : \A e \in Int : v # w /\ UpTo(a, v, e) => UpTo(a \o c, v, e)
<1> DEFINE b == a \o c
<1>1. /\ Len(a) \in Nat /\ Len(c) \in Nat /\ Len(b) = Len(a) + Len(c)
      /\ \A j \in 1..Len(a) : b[j] = a[j]
      /\ \A i \in 1..Len(c) : b[Len(a) + i] = c[i]
  BY ConcatElements
<1>2. \A i \in 1..Len(c) : c[i] = <<w, d + i>>
  BY DEF Consecutive
<1> HIDE DEF b
<1>3. \A j \in 1..Len(b) : j \in 1..Len(a) \/ \E i \in 1..Len(c) : j = Len(a) + i
  <2> SUFFICES ASSUME NEW j \in 1..Len(b), j \notin 1..Len(a)
               PROVE  j - Len(a) \in 1..Len(c) /\ j = Len(a) + (j - Len(a))
    BY Zenon
  <2> QED BY <1>1
<1>4. \A i \in 1..Len(c) : b[Len(a) + i] = <<w, d + i>>
  BY <1>1, <1>2
<1>5. ASSUME NEW i \in 1..Len(c), i > 1 \/ d > 0
      PROVE  \E k \in 1..(Len(a) + i - 1) : b[k] = <<w, d + i - 1>>
  <2>1. CASE i > 1
    <3>1. i - 1 \in 1..Len(c) /\ Len(a) + (i - 1) \in 1..(Len(a) + i - 1)
      BY <1>1, <2>1
    <3>2. b[Len(a) + (i - 1)] = <<w, d + (i - 1)>>
      BY <1>4, <3>1, Zenon
    <3>3. d + (i - 1) = d + i - 1
      BY <3>1
    <3> QED BY <3>1, <3>2, <3>3
  <2>2. CASE i = 1
    <3>1. PICK k \in 1..Len(a) : a[k] = <<w, d>>
      BY <1>5, <2>2 DEF UpTo
    <3>2. k \in 1..(Len(a) + i - 1) /\ b[k] = <<w, d>> /\ d + i - 1 = d
      BY <1>1, <2>2, <3>1
    <3> QED BY <3>2
  <2> QED BY <2>1, <2>2
<1>6. ASSUME NEW j \in 1..Len(a), b[j][1] = w PROVE b[j][2] <= d
  BY <1>1, <1>6 DEF UpTo
<1>7. \A j \in 1..Len(a) : b[j][2] \in Nat
  <2> SUFFICES ASSUME NEW j \in 1..Len(a) PROVE a[j][2] \in Nat
    BY <1>1
  <2>1. a[j] \in Byte
    BY ElementOfSeq
  <2> QED BY <2>1 DEF Byte
<1>8. Ordered(b)
  <2> SUFFICES ASSUME NEW j \in 1..Len(b)
               PROVE  /\ b[j][2] > 1 => \E i \in 1..(j - 1) : b[i] = <<b[j][1], b[j][2] - 1>>
                      /\ \A i \in 1..(j - 1) : b[i] # <<b[j][1], b[j][2]>>
    BY Zenon DEF Ordered
  <2>1. CASE j \in 1..Len(a)
    <3>1. \A i \in 1..(j - 1) : i \in 1..Len(a)
      BY <1>1, <2>1
    <3>2. b[j] = a[j] /\ \A i \in 1..(j - 1) : b[i] = a[i]
      BY <1>1, <2>1, <3>1
    <3>3. /\ a[j][2] > 1 => \E i \in 1..(j - 1) : a[i] = <<a[j][1], a[j][2] - 1>>
          /\ \A i \in 1..(j - 1) : a[i] # <<a[j][1], a[j][2]>>
      BY <2>1, Zenon DEF Ordered
    <3> QED BY <3>2, <3>3, Zenon
  <2>2. CASE j \notin 1..Len(a)
    <3>1. PICK i \in 1..Len(c) : j = Len(a) + i
      BY <1>3, <2>2
    <3>2. b[j] = <<w, d + i>> /\ b[j][1] = w /\ b[j][2] = d + i
      BY <1>4, <3>1
    <3>3. ASSUME b[j][2] > 1 PROVE \E k \in 1..(j - 1) : b[k] = <<w, d + i - 1>>
      <4>1. i > 1 \/ d > 0
        BY <3>2, <3>3
      <4>2. PICK k \in 1..(Len(a) + i - 1) : b[k] = <<w, d + i - 1>>
        BY <1>5, <4>1, Zenon
      <4> QED BY <3>1, <4>2
    <3>4. ASSUME NEW k \in 1..(j - 1) PROVE b[k] # <<w, d + i>>
      <4>1. CASE k \in 1..Len(a)
        <5>1. b[k] = <<w, d + i>> => b[k][1] = w /\ b[k][2] = d + i
          OBVIOUS
        <5>2. d + i > d
          BY <1>1
        <5> QED BY <1>6, <1>7, <4>1, <5>1, <5>2
      <4>2. CASE k \notin 1..Len(a)
        <5>1. k \in 1..Len(b)
          BY <1>1
        <5>2. PICK m \in 1..Len(c) : k = Len(a) + m
          BY <1>3, <4>2, <5>1
        <5>3. m < i
          BY <1>1, <3>1, <5>2
        <5>4. b[k] = <<w, d + m>> /\ d + m # d + i
          BY <1>1, <1>4, <5>2, <5>3
        <5> QED BY <5>4
      <4> QED BY <4>1, <4>2
    <3> QED BY <3>2, <3>3, <3>4
  <2> QED BY <2>1, <2>2
<1>9. UpTo(b, w, d + Len(c))
  <2>1. ASSUME NEW j \in 1..Len(b), b[j][1] = w PROVE b[j][2] <= d + Len(c)
    <3>1. CASE j \in 1..Len(a)
      BY <1>1, <1>6, <1>7, <2>1, <3>1
    <3>2. CASE j \notin 1..Len(a)
      <4>1. PICK i \in 1..Len(c) : j = Len(a) + i
        BY <1>3, <3>2
      <4>2. b[j][2] = d + i
        BY <1>4, <4>1
      <4> QED BY <1>1, <4>2
    <3> QED BY <3>1, <3>2
  <2>2. ASSUME d + Len(c) > 0 PROVE \E j \in 1..Len(b) : b[j] = <<w, d + Len(c)>>
    <3>1. CASE Len(c) = 0
      <4>1. PICK j \in 1..Len(a) : a[j] = <<w, d>>
        BY <2>2, <3>1 DEF UpTo
      <4> QED BY <1>1, <3>1, <4>1
    <3>2. CASE Len(c) # 0
      <4>1. Len(c) \in 1..Len(c) /\ Len(a) + Len(c) \in 1..Len(b)
        BY <1>1, <3>2
      <4> QED BY <1>4, <4>1
    <3> QED BY <3>1, <3>2
  <2> QED BY <2>1, <2>2 DEF UpTo
<1>10. ASSUME NEW v \in Writers, NEW e \in Int, v # w, UpTo(a, v, e) PROVE UpTo(b, v, e)
  <2>1. ASSUME NEW j \in 1..Len(b), b[j][1] = v PROVE j \in 1..Len(a)
    <3> SUFFICES ASSUME j \notin 1..Len(a) PROVE FALSE
      OBVIOUS
    <3>1. PICK i \in 1..Len(c) : j = Len(a) + i
      BY <1>3
    <3>2. b[j][1] = w
      BY <1>4, <3>1
    <3> QED BY <1>10, <2>1, <3>2
  <2>2. ASSUME NEW j \in 1..Len(b), b[j][1] = v PROVE b[j][2] <= e
    BY <1>1, <1>10, <2>1, <2>2 DEF UpTo
  <2>3. ASSUME e > 0 PROVE \E j \in 1..Len(b) : b[j] = <<v, e>>
    <3>1. PICK j \in 1..Len(a) : a[j] = <<v, e>>
      BY <1>10, <2>3 DEF UpTo
    <3>2. j \in 1..Len(b) /\ b[j] = a[j]
      BY <1>1
    <3> QED BY <3>1, <3>2
  <2> QED BY <2>2, <2>3 DEF UpTo
<1> QED BY <1>8, <1>9, <1>10 DEF b

\* The two parts of a Write that is cut into chunks.
LEMMA ChunkOrder ==
  ASSUME TypeOK, NEW w \in Writers, NEW d \in Nat, Consecutive(todo[w], w, d)
  PROVE  /\ Len(Rest(w)) = Len(todo[w]) - Len(Chunk(w))
         /\ Len(Chunk(w)) \in Nat /\ Len(todo[w]) \in Nat
         /\ Consecutive(Chunk(w), w, d)
         /\ Consecutive(Rest(w), w, d + Len(Chunk(w)))
<1> DEFINE t == todo[w]  k == ChunkLen(w)
<1>1. t \in Seq(Byte) /\ Len(t) \in Nat /\ k \in Nat /\ k <= Len(t)
  BY DoubleBufferAssumption, LenProperties DEF TypeOK, ChunkLen
<1>2. \A i \in 1..Len(t) : t[i] = <<w, d + i>>
  BY DEF Consecutive
<1>3. Chunk(w) = SubSeq(t, 1, k) /\ Rest(w) = SubSeq(t, k + 1, Len(t))
  BY DEF Chunk, Rest
<1> HIDE DEF t, k
<1>4. /\ Len(SubSeq(t, 1, k)) = k
      /\ \A i \in 1..k : SubSeq(t, 1, k)[i] = t[i]
  BY <1>1
<1>5. /\ Len(SubSeq(t, k + 1, Len(t))) = Len(t) - k
      /\ \A i \in 1..(Len(t) - k) : SubSeq(t, k + 1, Len(t))[i] = t[k + i]
  BY <1>1
<1>6. Consecutive(Chunk(w), w, d)
  <2>1. \A i \in 1..k : i \in 1..Len(t)
    BY <1>1
  <2> QED BY <1>2, <1>3, <1>4, <2>1, Zenon DEF Consecutive
<1>7. Consecutive(Rest(w), w, d + k)
  <2> SUFFICES ASSUME NEW i \in 1..(Len(t) - k) PROVE t[k + i] = <<w, d + k + i>>
    BY <1>3, <1>5, Zenon DEF Consecutive
  <2>1. k + i \in 1..Len(t) /\ d + (k + i) = d + k + i
    BY <1>1
  <2> QED BY <1>2, <2>1
<1> QED BY <1>1, <1>3, <1>4, <1>5, <1>6, <1>7, Zenon DEF t

\* A writer that another one's step, or the flusher's, leaves alone.
LEMMA WriterAside ==
  ASSUME NEW w \in Writers, WriterInv(w), UNCHANGED <<todo[w], count[w], wpc[w], accepted>>,
         cause' = "live" => cause = "live"
  PROVE  WriterInv(w)'
BY DEF WriterInv, Given

LEMMA OrderStep == TypeOK /\ PendingInv /\ OrderInv /\ [Next]_vars => OrderInv'
<1> SUFFICES ASSUME TypeOK, PendingInv, OrderInv, [Next]_vars PROVE OrderInv'
  OBVIOUS
<1>0. \A w \in Writers : /\ WriterInv(w) /\ count[w] \in Nat /\ todo[w] \in Seq(Byte)
                         /\ Len(todo[w]) \in Nat /\ Given(w) \in Int
  BY LenProperties DEF TypeOK, OrderInv, Given
<1>1. ASSUME UNCHANGED <<todo, count, wpc, accepted>>, cause' = "live" => cause = "live"
      PROVE  OrderInv'
  BY <1>1, WriterAside, Zenon DEF OrderInv, Ordered
<1>2. ASSUME NEW w \in Writers, UNCHANGED <<accepted, cause>>, WriterInv(w)',
             \A v \in Writers : v # w => UNCHANGED <<todo[v], count[v], wpc[v]>>
      PROVE  OrderInv'
  BY <1>2, WriterAside, Zenon DEF OrderInv, Ordered
<1>3. ASSUME NEW w \in Writers, UNCHANGED <<todo, count, accepted, cause>>,
             NEW pc, wpc' = [wpc EXCEPT ![w] = pc],
             pc \in {"idle", "closeChan", "closeWait"} => todo[w] = <<>>,
             cause = "live" \/ (pc \in {"lock", "wait", "signal"}
                                  => wpc[w] \in {"lock", "wait", "signal"})
      PROVE  OrderInv'
  <2>1. wpc'[w] = pc /\ \A v \in Writers : v # w => wpc'[v] = wpc[v]
    BY <1>3 DEF TypeOK
  <2>2. WriterInv(w)'
    BY <1>0, <1>3, <2>1 DEF WriterInv, Given
  <2>3. \A v \in Writers : v # w => UNCHANGED <<todo[v], count[v], wpc[v]>>
    BY <1>3, <2>1
  <2> QED BY <1>2, <1>3, <2>2, <2>3
<1>4. ASSUME NEW w \in Writers, ReturnWrite(w), cause # "live" \/ todo[w] = <<>>,
             UNCHANGED <<count, accepted, cause>>
      PROVE  OrderInv'
  <2>1. /\ wpc'[w] = "idle" /\ todo'[w] = <<>>
        /\ \A v \in Writers : v # w => wpc'[v] = wpc[v] /\ todo'[v] = todo[v]
    BY <1>4 DEF TypeOK
  <2>2. Len(<<>>) = 0 /\ 1..0 = {}
    BY EmptySeq
  <2>3. WriterInv(w)'
    BY <1>0, <1>4, <2>1, <2>2 DEF WriterInv, Given, Consecutive
  <2> QED BY <1>2, <1>4, <2>1, <2>3
<1>5. ASSUME NEW w \in Writers, NEW n \in 0..MaxLen, Write(w, n) PROVE OrderInv'
  <2> DEFINE new == [i \in 1..n |-> <<w, count[w] + i>>]
  <2>1. n \in Nat /\ Len(new) = n /\ \A i \in 1..n : new[i] = <<w, count[w] + i>>
    BY DoubleBufferAssumption
  <2>2. /\ todo' = [todo EXCEPT ![w] = new] /\ count' = [count EXCEPT ![w] = @ + n]
        /\ wpc' = [wpc EXCEPT ![w] = "check"] /\ wpc[w] = "idle"
        /\ UNCHANGED <<accepted, cause>>
    BY <1>5 DEF Write
  <2> HIDE DEF new
  <2>3. /\ todo'[w] = new /\ count'[w] = count[w] + n /\ wpc'[w] = "check"
        /\ \A v \in Writers : v # w => UNCHANGED <<todo[v], count[v], wpc[v]>>
    BY <2>2 DEF TypeOK
  <2>4. todo[w] = <<>> /\ Len(<<>>) = 0
    BY <1>0, <2>2, EmptySeq DEF WriterInv
  <2>5. Given(w) = count[w] /\ Given(w)' = count[w]
    BY <1>0, <2>1, <2>3, <2>4 DEF Given
  <2>6. WriterInv(w)'
    <3>1. Consecutive(new, w, count[w])
      BY <2>1 DEF Consecutive
    <3> QED BY <1>0, <2>2, <2>3, <2>5, <3>1 DEF WriterInv
  <2> QED BY <1>2, <2>2, <2>3, <2>6
<1>6. ASSUME NEW w \in Writers, CheckContext(w) PROVE OrderInv'
  <2>1. CASE cause # "live" \/ todo[w] = <<>>
    BY <1>4, <1>6, <2>1 DEF CheckContext
  <2>2. CASE ~(cause # "live" \/ todo[w] = <<>>)
    BY <1>3, <1>6, <2>2 DEF CheckContext
  <2> QED BY <2>1, <2>2
<1>7. ASSUME NEW w \in Writers, AppendChunk(w), Fits(w) PROVE OrderInv'
  <2> DEFINE c == Chunk(w)  d == Given(w)
  <2>1. /\ accepted' = accepted \o c /\ todo' = [todo EXCEPT ![w] = Rest(w)]
        /\ wpc' = [wpc EXCEPT ![w] = "signal"] /\ wpc[w] = "lock" /\ UNCHANGED <<count, cause>>
    BY <1>7 DEF AppendChunk
  <2>2. d \in Nat /\ Consecutive(todo[w], w, d) /\ UpTo(accepted, w, d) /\ Ordered(accepted)
    BY <1>0, <2>1 DEF WriterInv, OrderInv
  <2>3. /\ Len(Rest(w)) = Len(todo[w]) - Len(c) /\ Len(c) \in Nat
        /\ Consecutive(c, w, d) /\ Consecutive(Rest(w), w, d + Len(c))
    BY <2>2, ChunkOrder
  <2>4. accepted \in Seq(Byte) /\ c \in Seq(Byte)
    BY ChunkFacts DEF TypeOK
  <2>5. d = count[w] - Len(todo[w])
    BY DEF Given
  <2> HIDE DEF c, d
  <2>6. /\ Ordered(accepted') /\ UpTo(accepted', w, d + Len(c))
        /\ \A v \in Writers : \A e \in Int : v # w /\ UpTo(accepted, v, e) => UpTo(accepted', v, e)
    BY <2>1, <2>2, <2>3, <2>4, OrderedConcat
  <2>7. /\ todo'[w] = Rest(w) /\ wpc'[w] = "signal" /\ count'[w] = count[w]
        /\ \A v \in Writers : v # w => UNCHANGED <<todo[v], count[v], wpc[v]>>
    BY <2>1 DEF TypeOK
  <2>8. Given(w)' = d + Len(c)
    BY <1>0, <2>3, <2>5, <2>7 DEF Given
  <2>9. WriterInv(w)'
    BY <2>2, <2>3, <2>6, <2>7, <2>8 DEF WriterInv
  <2>10. ASSUME NEW v \in Writers, v # w PROVE WriterInv(v)'
    <3>1. WriterInv(v) /\ Given(v) \in Int /\ Given(v)' = Given(v)
      BY <1>0, <2>7, <2>10 DEF Given
    <3>2. UpTo(accepted, v, Given(v)) => UpTo(accepted', v, Given(v))
      BY <2>6, <2>10, <3>1
    <3> QED BY <2>1, <2>7, <2>10, <3>1, <3>2 DEF WriterInv
  <2> QED BY <2>6, <2>9, <2>10 DEF OrderInv
<1>8. ASSUME NEW w \in Writers, AppendChunk(w), ~Fits(w) PROVE OrderInv'
  BY <1>3, <1>8, Zenon DEF AppendChunk
<1>9. ASSUME NEW w \in Writers, WaitCancelled(w) PROVE OrderInv'
  BY <1>4, <1>9, Zenon DEF WaitCancelled
<1>10. ASSUME NEW w \in Writers, WaitToken(w) PROVE OrderInv'
  BY <1>3, <1>10, Zenon DEF WaitToken
<1>11. ASSUME NEW w \in Writers, Signal(w) PROVE OrderInv'
  <2>1. CASE dataClosed
    BY <1>1, <1>11, <2>1 DEF Signal
  <2>2. CASE ~dataClosed
    BY <1>3, <1>11, <2>2, Zenon DEF Signal
  <2> QED BY <2>1, <2>2
<1>12. ASSUME NEW w \in Writers, CloseCheck(w) PROVE OrderInv'
  <2>1. todo[w] = <<>>
    BY <1>0, <1>12 DEF CloseCheck, WriterInv
  <2>2. CASE cause # "live"
    BY <1>1, <1>12, <2>2 DEF CloseCheck
  <2>3. CASE cause = "live"
    BY <1>3, <1>12, <2>1, <2>3 DEF CloseCheck
  <2> QED BY <2>2, <2>3
<1>13. ASSUME NEW w \in Writers, CloseChannel(w) PROVE OrderInv'
  <2>1. todo[w] = <<>>
    BY <1>0, <1>13 DEF CloseChannel, WriterInv
  <2>2. CASE dataClosed
    BY <1>1, <1>13, <2>2 DEF CloseChannel
  <2>3. CASE ~dataClosed
    BY <1>3, <1>13, <2>1, <2>3, Zenon DEF CloseChannel
  <2> QED BY <2>2, <2>3
<1>14. ASSUME NEW w \in Writers, CloseReturn(w) PROVE OrderInv'
  <2>1. todo[w] = <<>>
    BY <1>0, <1>14 DEF CloseReturn, WriterInv
  <2> QED BY <1>3, <1>14, <2>1, Zenon DEF CloseReturn
<1>15. CASE FlusherStep
  <2>1. UNCHANGED <<todo, count, wpc, accepted>>
    BY <1>15 DEF FlusherStep, Receive, Swap, Notify, FlushOk, FlushFail, Exit
  <2>2. cause' = "live" => cause = "live"
    BY <1>15 DEF FlusherStep, Receive, Swap, Notify, FlushOk, FlushFail, Exit
  <2> QED BY <1>1, <2>1, <2>2
<1>16. CASE UNCHANGED vars
  BY <1>1, <1>16 DEF vars
<1> QED
  BY <1>5, <1>6, <1>7, <1>8, <1>9, <1>10, <1>11, <1>12, <1>13, <1>14, <1>15, <1>16,
     DoubleBufferAssumption
  DEF Next, WriterStep, Quiescent

\* However Writes are cut into chunks and interleaved, and wherever they are given up,
\* each writer's bytes are accepted in its order, none twice and none left out between.
THEOREM WriterOrderCorrect == Spec => []WriterOrder
<1>1. Init => OrderInv
  <2> SUFFICES ASSUME Init PROVE OrderInv
    OBVIOUS
  <2>1. Len(<<>>) = 0 /\ 1..0 = {}
    BY EmptySeq
  <2>2. Ordered(accepted)
    BY <2>1 DEF Init, Ordered
  <2>3. ASSUME NEW w \in Writers PROVE WriterInv(w)
    BY <2>1 DEF Init, WriterInv, Given, Consecutive, UpTo
  <2> QED BY <2>2, <2>3 DEF OrderInv
<1>2. IInv /\ OrderInv /\ [Next]_vars => OrderInv'
  BY OrderStep DEF IInv
<1>3. OrderInv => WriterOrder
  BY Zenon DEF OrderInv, Ordered, WriterOrder
<1> QED BY <1>1, <1>2, <1>3, OrderInvariant, PTL DEF Spec

-----------------------------------------------------------------------------
(***************************************************************************)
(* Close.  When the closing goroutine is the only writer, a closed channel *)
(* means that this goroutine is waiting in Close or has seen the context   *)
(* cancelled, so nothing is appended or announced after the close.         *)
(***************************************************************************)
Clean == {"pipe", "canceled", "closeErr"}

CloseInv ==
  /\ \A w \in Writers :
       /\ wpc[w] \in {"closeChan", "closeWait"} => w \in Closers
       /\ wpc[w] = "closeChan" => ~dataClosed
       /\ wpc[w] = "closeWait" => dataClosed
       /\ dataClosed => wpc[w] \in {"idle", "check", "closeWait"}
       /\ dataClosed /\ cause = "live" => wpc[w] = "closeWait"
  /\ \/ cause = "live" /\ fpc = "exit"
     \/ cause \in Clean
     => dataClosed /\ front = <<>> /\ back = <<>>
  /\ pooled => dataClosed /\ cause # "live"
  /\ ~panicked

\* With a sole closer every step keeps the close invariant.
LEMMA CloseStep ==
  ASSUME SoleCloser, IInv, CloseInv, [Next]_vars
  PROVE  CloseInv'
<1> USE DEF IInv
<1>1. ASSUME NEW w \in Writers,
             (\E n \in 0..MaxLen : Write(w, n)) \/ CheckContext(w)
      PROVE  CloseInv'
  <2>1. UNCHANGED <<back, front, dataClosed, cause, pooled, fpc, panicked>>
    BY <1>1 DEF Write, CheckContext
  <2>2. /\ wpc'[w] \in {"idle", "check", "lock"} /\ wpc[w] \in {"idle", "check"}
        /\ wpc'[w] = "lock" => cause = "live"
        /\ \A v \in Writers : v # w => wpc'[v] = wpc[v]
    BY <1>1 DEF TypeOK, Write, CheckContext
  <2>3. ASSUME NEW v \in Writers
        PROVE  /\ wpc'[v] \in {"closeChan", "closeWait"} => v \in Closers
               /\ wpc'[v] = "closeChan" => ~dataClosed
               /\ wpc'[v] = "closeWait" => dataClosed
               /\ dataClosed => wpc'[v] \in {"idle", "check", "closeWait"}
               /\ dataClosed /\ cause = "live" => wpc'[v] = "closeWait"
    BY <2>2 DEF CloseInv
  <2> QED BY <2>1, <2>3 DEF CloseInv
<1>11. ASSUME NEW w \in Writers, AppendChunk(w)
       PROVE  CloseInv'
  <2>1. ~dataClosed
    BY <1>11 DEF CloseInv, AppendChunk
  <2> QED BY <1>11, <2>1 DEF TypeOK, CloseInv, AppendChunk, Clean
<1>2. ASSUME NEW w \in Writers, WaitCancelled(w) \/ WaitToken(w) \/ Signal(w)
      PROVE  CloseInv'
  BY <1>2 DEF TypeOK, CloseInv, WaitCancelled, WaitToken, Signal, Clean
<1>3. ASSUME NEW w \in Closers, CloseCheck(w)
      PROVE  CloseInv'
  BY <1>3, DoubleBufferAssumption DEF SoleCloser, TypeOK, CloseInv, CloseCheck, Clean
<1>4. ASSUME NEW w \in Writers, CloseChannel(w)
      PROVE  CloseInv'
  <2>1. Writers = {w} /\ ~dataClosed
    BY <1>4 DEF SoleCloser, CloseInv, CloseChannel
  <2>2. wpc'[w] = "closeWait"
    BY <1>4, <2>1 DEF TypeOK, CloseChannel
  <2> QED BY <1>4, <2>1, <2>2 DEF TypeOK, CloseInv, CloseChannel, Clean
<1>5. ASSUME NEW w \in Writers, CloseReturn(w)
      PROVE  CloseInv'
  <2>1. Writers = {w}
    BY <1>5 DEF SoleCloser, CloseInv, CloseReturn
  <2>2. cause \in Clean \/ cause = "writeErr"
    BY <1>5 DEF TypeOK, Causes, Clean, CloseReturn
  <2>3. dataClosed
    BY <1>5, <2>1 DEF TypeOK, CloseInv, CloseReturn
  <2> QED BY <1>5, <2>1, <2>2, <2>3 DEF TypeOK, CloseInv, CloseReturn, Clean
<1>6. CASE Receive
  <2>1. cause = "live" /\ front = <<>>
    BY <1>6 DEF FlusherInv, Receive
  <2>2. dataFlag = 0 /\ dataClosed => back = <<>>
    BY <1>6, <2>1 DEF NoStrandedBytes, CloseInv, Receive
  <2> QED BY <1>6, <2>1, <2>2 DEF TypeOK, CloseInv, Receive, Clean
<1>7. CASE Swap \/ Notify \/ FlushOk
  BY <1>7 DEF TypeOK, FlusherInv, CloseInv, Swap, Notify, FlushOk, Clean
<1>8. ASSUME NEW k \in 0..Limit, FlushFail(k)
      PROVE  CloseInv'
  BY <1>8 DEF TypeOK, FlusherInv, CloseInv, FlushFail, Clean
<1>9. CASE Exit
  BY <1>9 DEF TypeOK, CloseInv, Exit, Clean
<1>10. CASE UNCHANGED vars
  BY <1>10 DEF CloseInv, vars, Clean
<1> QED
  BY <1>1, <1>2, <1>3, <1>4, <1>5, <1>6, <1>7, <1>8, <1>9, <1>10,
     <1>11, DoubleBufferAssumption
  DEF Next, WriterStep, FlusherStep, Quiescent

\* The invariant behind Close.
LEMMA CloseInvariant == SoleCloser => (Spec => [](IInv /\ CloseInv))
<1> SUFFICES ASSUME SoleCloser PROVE Spec => [](IInv /\ CloseInv)
  OBVIOUS
<1>1. Init => CloseInv
  BY DEF Init, CloseInv, Clean
<1>2. CloseInv /\ IInv /\ [Next]_vars => CloseInv'
  BY CloseStep
<1> QED BY <1>1, <1>2, OrderInvariant, PTL DEF Spec

\* What the close invariant says to a caller.
LEMMA CloseMeaning ==
  ASSUME IInv, CloseInv
  PROVE  CleanCloseDrains /\ PoolSafe /\ NoPanic
<1>1. CleanCloseDrains
  <2> SUFFICES ASSUME cause \in Clean PROVE sink = accepted
    BY DEF CleanCloseDrains, Clean
  <2>1. front = <<>> /\ back = <<>>
    BY DEF CloseInv
  <2>2. sink \in Seq(Byte)
    BY DEF IInv, TypeOK
  <2>3. sink \o <<>> = sink
    BY <2>2, ConcatEmptySeq
  <2> QED BY <2>1, <2>3 DEF IInv, InOrder
<1>2. PoolSafe
  BY Zenon DEF IInv, TypeOK, FlusherInv, FlusherPcs, CloseInv, PoolSafe
<1>3. NoPanic
  BY DEF CloseInv, NoPanic
<1> QED BY <1>1, <1>2, <1>3

\* When the goroutine that closes is the only writer: a context cancelled without
\* a write error means every accepted byte was sent, the pooled buffer is left
\* alone, and Close and Write never panic on the closed channel.
THEOREM CloseCorrect ==
  SoleCloser => (Spec => [](CleanCloseDrains /\ PoolSafe /\ NoPanic))
<1>1. IInv /\ CloseInv => CleanCloseDrains /\ PoolSafe /\ NoPanic
  BY CloseMeaning
<1> QED BY <1>1, CloseInvariant, PTL

\* Under the same condition, Close never gives a buffer back to the pool while a
\* Write or the flusher still uses it.
COROLLARY PoolCorrect == SoleCloser => (Spec => []PoolSafe)
BY CloseCorrect, PTL

\* And nobody sends on, or closes, the closed channel of notifications.
COROLLARY PanicCorrect == SoleCloser => (Spec => []NoPanic)
BY CloseCorrect, PTL

-----------------------------------------------------------------------------
\* The first part of a concatenation is its prefix.
LEMMA PrefixOfConcat ==
  ASSUME NEW s \in Seq(Byte), NEW t \in Seq(Byte)
  PROVE  /\ SubSeq(s \o t, 1, Len(s)) = s
         /\ Len(s \o t) = Len(s) + Len(t)
         /\ Len(s) \in Nat /\ Len(t) \in Nat
<1>1. Len(s) \in Nat /\ Len(t) \in Nat /\ Len(s \o t) = Len(s) + Len(t)
  BY ConcatProperties, LenProperties
<1>2. CASE Len(s) = 0
  <2>1. s = <<>>
    BY <1>2, EmptySeq
  <2>2. SubSeq(s \o t, 1, 0) = <<>>
    BY SubSeqEmpty
  <2> QED BY <1>1, <1>2, <2>1, <2>2
<1>3. CASE Len(s) # 0
  <2>1. 1 \in 1..Len(s) /\ Len(s) \in 1..Len(s)
    BY <1>1, <1>3
  <2>2. SubSeq(s \o t, 1, Len(s)) = SubSeq(s, 1, Len(s))
    BY <2>1, SubSeqOfConcat1
  <2>3. SubSeq(s, 1, Len(s)) = s
    BY SubSeqFull
  <2> QED BY <1>1, <2>2, <2>3
<1> QED BY <1>2, <1>3

\* What is on the socket is a prefix of what was accepted.
LEMMA SinkIsPrefix ==
  ASSUME NEW a, NEW s \in Seq(Byte), NEW f \in Seq(Byte), NEW b \in Seq(Byte),
         a = s \o f \o b
  PROVE  /\ s = SubSeq(a, 1, Len(s))
         /\ Len(s) \in 0..Len(a)
         /\ Len(a) \in Nat
<1>1. f \o b \in Seq(Byte)
  BY ConcatProperties
<1>2. a = s \o (f \o b)
  <2>1. (s \o f) \o b = s \o (f \o b)
    BY Assoc, Zenon
  <2> QED BY <2>1
<1>3. /\ SubSeq(s \o (f \o b), 1, Len(s)) = s
      /\ Len(s \o (f \o b)) = Len(s) + Len(f \o b)
      /\ Len(s) \in Nat /\ Len(f \o b) \in Nat
  BY <1>1, PrefixOfConcat
<1> QED BY <1>2, <1>3

\* Every step of the double buffer is a step of the byte pipe or leaves it alone.
LEMMA PipeStep ==
  ASSUME IInv, IInv', CloseInv, CloseInv', [Next]_vars
  PROVE  [Pipe!Next]_(Pipe!pipeVars)
<1> USE DEF Pipe!Next, Pipe!pipeVars
<1>1. ASSUME NEW w \in Writers, AppendChunk(w), Fits(w)
      PROVE  Pipe!Accept
  <2>1. accepted \in Seq(Byte) /\ accepted' \in Seq(Byte) /\ accepted' = accepted \o Chunk(w)
    BY <1>1 DEF IInv, TypeOK, AppendChunk
  <2>2. Chunk(w) \in Seq(Byte) /\ Chunk(w) # <<>>
    BY <1>1, ChunkFacts, Zenon DEF IInv, PendingInv, AppendChunk
  <2>3. Len(Chunk(w)) # 0
    BY <2>2, EmptySeq
  <2>4. Len(accepted') > Len(accepted) /\ SubSeq(accepted', 1, Len(accepted)) = accepted
    BY <2>1, <2>2, <2>3, PrefixOfConcat
  <2>5. cause \notin Clean /\ cause' = cause /\ sink' = sink
    BY <1>1 DEF CloseInv, AppendChunk
  <2> QED BY <2>1, <2>4, <2>5 DEF Pipe!Accept, Clean, IInv, TypeOK, Causes
<1>2. CASE FlushOk
  <2>1. cause = "live" /\ cause' = cause /\ accepted' = accepted
    BY <1>2 DEF IInv, FlusherInv, FlushOk
  <2>2. /\ sink' = SubSeq(accepted, 1, Len(sink'))
        /\ Len(sink') \in 0..Len(accepted) /\ Len(accepted) \in Nat
    BY <2>1, SinkIsPrefix, Zenon DEF IInv, TypeOK, InOrder
  <2>3. Len(sink') = Len(sink) + Len(front) /\ Len(sink) \in Nat /\ Len(front) \in Nat
    BY <1>2, PrefixOfConcat DEF IInv, TypeOK, FlushOk
  <2>4. CASE Len(front) = 0
    <3>1. Len(sink') = Len(sink)
      BY <2>3, <2>4
    <3>2. sink = SubSeq(accepted, 1, Len(sink))
      BY SinkIsPrefix DEF IInv, TypeOK, InOrder
    <3>3. sink' = sink
      BY <2>2, <3>1, <3>2
    <3> QED BY <2>1, <3>3
  <2>5. CASE Len(front) # 0
    <3>1. Len(sink') \in (Len(sink) + 1)..Len(accepted)
      BY <2>2, <2>3, <2>5
    <3> QED BY <2>1, <2>2, <3>1, Zenon DEF Pipe!Deliver
  <2> QED BY <2>4, <2>5
<1>3. ASSUME NEW k \in 0..Limit, FlushFail(k)
      PROVE  Pipe!Fail
  <2>1. cause = "live" /\ cause' = "writeErr" /\ accepted' = accepted
    BY <1>3 DEF IInv, FlusherInv, FlushFail
  <2>2. /\ sink' = SubSeq(accepted, 1, Len(sink'))
        /\ Len(sink') \in 0..Len(accepted) /\ Len(accepted) \in Nat
    BY <2>1, SinkIsPrefix, Zenon DEF IInv, TypeOK, InOrder
  <2>3. Len(sink') >= Len(sink) /\ Len(sink) \in Nat
    <3>1. front \in Seq(Byte) /\ sink \in Seq(Byte) /\ k \in 0..Len(front)
      BY <1>3, LenProperties DEF IInv, TypeOK, FlushFail
    <3>2. SubSeq(front, 1, k) \in Seq(Byte)
      BY <3>1, Cut
    <3> DEFINE part == SubSeq(front, 1, k)
    <3>3. sink' = sink \o part /\ part \in Seq(Byte)
      BY <1>3, <3>2 DEF FlushFail
    <3> HIDE DEF part
    <3> QED BY <3>1, <3>3, PrefixOfConcat
  <2>4. Len(sink') \in Len(sink)..Len(accepted)
    BY <2>2, <2>3
  <2> QED BY <2>1, <2>2, <2>4, Zenon DEF Pipe!Fail
<1>4. CASE Exit
  <2>1. accepted' = accepted /\ sink' = sink
    BY <1>4 DEF Exit
  <2>2. CASE cause = "live"
    <3>1. cause' \in Clean
      BY <1>4, <2>2 DEF Exit, Clean
    <3>2. front' = <<>> /\ back' = <<>> /\ sink' \in Seq(Byte)
      BY <3>1 DEF CloseInv, IInv, TypeOK
    <3>3. \A s \in Seq(Byte) : s \o <<>> \o <<>> = s
      BY ConcatEmptySeq
    <3>4. sink' = accepted'
      BY <3>2, <3>3 DEF IInv, InOrder
    <3> QED BY <2>1, <2>2, <3>1, <3>4 DEF Pipe!Close, Clean
  <2>3. CASE cause # "live"
    BY <1>4, <2>1, <2>3 DEF Exit
  <2> QED BY <2>2, <2>3
<1>5. CASE UNCHANGED <<accepted, sink, cause>>
  BY <1>5
<1> QED
  BY <1>1, <1>2, <1>3, <1>4, <1>5, Zenon
  DEF Next, WriterStep, FlusherStep, Quiescent, vars, Write, CheckContext, AppendChunk,
      WaitCancelled, WaitToken, Signal, CloseCheck, CloseChannel, CloseReturn,
      Receive, Swap, Notify

\* With a sole closer the double buffer implements the byte pipe: order, no loss
\* without a failure, and a clean close only when everything was delivered.
THEOREM PipeRefinement == SoleCloser => (Spec => PipeSpec)
<1> SUFFICES ASSUME SoleCloser PROVE Spec => PipeSpec
  OBVIOUS
<1>1. Init => Pipe!Init
  BY DEF Init, Pipe!Init
<1>2. IInv /\ IInv' /\ CloseInv /\ CloseInv' /\ [Next]_vars => [Pipe!Next]_(Pipe!pipeVars)
  BY PipeStep
<1> QED BY <1>1, <1>2, CloseInvariant, PTL DEF Spec, PipeSpec, Pipe!Spec

=============================================================================
