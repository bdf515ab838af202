-------------------------- MODULE RespReaderProofs --------------------------
(***************************************************************************)
(* For every client and all limits, the request parser keeps its types and *)
(* its slices stay within argsBuffer.                                      *)
(***************************************************************************)
EXTENDS RespReader, SequenceTheorems, WellFoundedInduction, TLAPS

\* The time, in seconds, that each prover is given for a leaf.
USE SMTT(20), ZenonT(20)

USE RespReaderAssumption DEF clientVars, readerVars

-----------------------------------------------------------------------------
(* The inductive invariant *)

\* Where the arguments read so far end in argsBuffer.
End(b) == IF b = <<>> THEN 0 ELSE b[Len(b)][1] + b[Len(b)][2]

\* What the reader has established between two reads: how many arguments are still to
\* come, where the current one starts, and that there is room for it.
Progress ==
  /\ rpc \in {"len", "body"} => n <= MaxMultiBulkLength /\ Len(argsBounds) <= n
  /\ rpc = "len" => Len(argsBounds) < n
  /\ rpc \in {"len", "skip", "word", "dq", "sq"} =>
       p = End(argsBounds) /\ p <= Len(argsBuffer)
  /\ rpc = "body" =>
       /\ argsBounds # <<>>
       /\ p = argsBounds[Len(argsBounds)][1]
       /\ p + argsBounds[Len(argsBounds)][2] + 2 <= Len(argsBuffer)

Inv == TypeOK /\ SlicesInside /\ Progress
-----------------------------------------------------------------------------
(* Lemmas *)

\* A number that was read is an integer, and not negative where no sign is allowed
\* (helpers.go:104-181).
LEMMA UIntParsed == \A b : ParseUInt32(b).ok => ParseUInt32(b).v \in Nat
BY DEF ParseUInt32, NotANumber

LEMMA IntParsed == \A b : ParseInt32(b).ok => ParseInt32(b).v \in Int
BY DEF ParseInt32, NotANumber, Number

\* What is left on the wire after a read is a sequence of bytes.
LEMMA DropTyped ==
  ASSUME TypeOK, NEW k \in Nat
  PROVE  Drop(k) \in Seq(Byte)
<1>1. Len(wire) \in Nat /\ \A i \in k + 1 .. Len(wire) : wire[i] \in Byte
  BY LenProperties, ElementOfSeq DEF TypeOK
<1> QED BY <1>1, SubSeqProperties DEF Drop

\* The first line feed, if there is one (readShortLine, server.go:175-185).
LEMMA LineEndTyped ==
  ASSUME TypeOK, HasLine
  PROVE  LineEnd \in 1 .. Len(wire)
<1> DEFINE S == {j \in 1 .. Len(wire) : wire[j] = LF}
<1>1. Len(wire) \in Nat
  BY LenProperties DEF TypeOK
<1>2. S \in SUBSET Nat /\ S # {}
  BY <1>1 DEF HasLine
<1>3. PICK j \in S : \A i \in S : ~(<<i, j>> \in OpToRel(<, Nat))
  BY <1>2, NatLessThanWellFounded, WFMin, Zenon
<1>4. \A i \in S : ~(i < j)
  BY <1>2, <1>3, Zenon DEF OpToRel
<1>5. ASSUME NEW i \in 1 .. j - 1, wire[i] = LF
      PROVE  FALSE
  <2>1. j \in Nat /\ j <= Len(wire)
    BY <1>1
  <2>2. i \in 1 .. Len(wire) /\ i < j
    BY <1>1, <2>1
  <2> QED BY <1>4, <1>5, <2>2
<1> QED BY <1>3, <1>5, Zenon DEF LineEnd

\* The arguments are sequences of bytes (server.go:437-440).
LEMMA RefsTyped ==
  ASSUME NEW buf \in Seq(Byte), NEW b \in Seq(Nat \X Nat),
         \A i \in 1 .. Len(b) : b[i][1] + b[i][2] <= Len(buf)
  PROVE  Refs(buf, b) \in Seq(Seq(Byte))
<1>1. Len(b) \in Nat
  BY LenProperties
<1>2. ASSUME NEW i \in 1 .. Len(b)
      PROVE  SubSeq(buf, b[i][1] + 1, b[i][1] + b[i][2]) \in Seq(Byte)
  <2>1. b[i][1] \in Nat /\ b[i][2] \in Nat
    BY ElementOfSeq
  <2>2. \A j \in b[i][1] + 1 .. b[i][1] + b[i][2] : buf[j] \in Byte
    BY <2>1, ElementOfSeq, LenProperties, SMTT(40)
  <2> QED BY <2>1, <2>2, SubSeqProperties, SMTT(40)
<1> QED BY <1>1, <1>2, IsASeq DEF Refs

\* An error leaves everything but rerr and rpc as it is.
LEMMA FailKeeps ==
  ASSUME Inv, NEW e, Fail(e)
  PROVE  Inv'
BY Zenon DEF Inv, Fail, TypeOK, SlicesInside, Progress, End

\* A read byte is a byte.
LEMMA WireTyped ==
  ASSUME TypeOK
  PROVE  Len(wire) \in Nat /\ \A i \in 1 .. Len(wire) : wire[i] \in Byte
BY LenProperties, ElementOfSeq DEF TypeOK

\* The recorded bounds are pairs of numbers.
LEMMA BoundsTyped ==
  ASSUME TypeOK
  PROVE  /\ Len(argsBounds) \in Nat
         /\ \A i \in 1 .. Len(argsBounds) :
              argsBounds[i] \in Nat \X Nat /\ argsBounds[i][1] \in Nat /\ argsBounds[i][2] \in Nat
<1>1. Len(argsBounds) \in Nat
  BY LenProperties DEF TypeOK
<1>2. \A i \in 1 .. Len(argsBounds) : argsBounds[i] \in Nat \X Nat
  BY ElementOfSeq DEF TypeOK
<1> QED BY <1>1, <1>2

\* A byte appended to a word (server.go:245-358).
LEMMA AppendByteKeeps ==
  ASSUME Inv, rpc \in {"word", "dq", "sq"}, NEW c \in Byte, NEW k \in Nat, AppendByte(c, k)
  PROVE  Inv'
<1>1. CASE Fail("full")
  BY <1>1, FailKeeps
<1>2. CASE /\ Len(argsBuffer) + 1 <= MaxBufferSize
           /\ argsBuffer' = Append(argsBuffer, c)
           /\ wire' = Drop(k)
           /\ UNCHANGED <<rpc, rerr, n, p, argsBounds, args, got, clientVars>>
  <2>1. Drop(k) \in Seq(Byte)
    BY DropTyped DEF Inv
  <2>2. argsBuffer' \in Seq(Byte) /\ Len(argsBuffer') = Len(argsBuffer) + 1
    BY <1>2, AppendProperties DEF Inv, TypeOK
  <2>3. TypeOK'
    BY <1>2, <2>1, <2>2 DEF Inv, TypeOK
  <2>4. SlicesInside'
    <3>1. Len(argsBuffer) \in Nat
      BY LenProperties DEF Inv, TypeOK
    <3> QED BY <1>2, <2>2, <3>1, BoundsTyped, SMTT(40) DEF Inv, SlicesInside
  <2>5. Progress'
    <3>1. Len(argsBuffer) \in Nat /\ p \in Nat
      BY LenProperties DEF Inv, TypeOK
    <3> QED BY <1>2, <2>2, <3>1 DEF Inv, Progress, End
  <2> QED BY <2>3, <2>4, <2>5 DEF Inv
<1> QED BY <1>1, <1>2 DEF AppendByte

\* One more argument at the end of the others.
LEMMA AppendBound ==
  ASSUME Inv, NEW l \in Nat, l <= MaxBulkLength, Len(argsBounds) < MaxMultiBulkLength,
         p = End(argsBounds), NEW b \in Seq(Byte), Len(b) <= MaxBufferSize,
         Len(argsBuffer) <= Len(b), p + l <= Len(b),
         argsBounds' = Append(argsBounds, <<p, l>>), argsBuffer' = b
  PROVE  /\ argsBounds' \in Seq(Nat \X Nat)
         /\ Len(argsBounds') = Len(argsBounds) + 1
         /\ argsBounds'[Len(argsBounds')] = <<p, l>>
         /\ SlicesInside'
<1>1. <<p, l>> \in Nat \X Nat
  BY Zenon DEF Inv, TypeOK
<1>2. /\ argsBounds' \in Seq(Nat \X Nat)
      /\ Len(argsBounds) \in Nat
      /\ Len(argsBounds') = Len(argsBounds) + 1
      /\ argsBounds'[Len(argsBounds')] = <<p, l>>
      /\ \A i \in 1 .. Len(argsBounds) : argsBounds'[i] = argsBounds[i]
  BY <1>1, AppendProperties, LenProperties, SMTT(40) DEF Inv, TypeOK
<1>3. ASSUME NEW i \in 1 .. Len(argsBounds')
      PROVE  /\ argsBounds'[i][2] <= MaxBulkLength
             /\ argsBounds'[i][1] + argsBounds'[i][2] <= Len(b)
             /\ i > 1 => argsBounds'[i][1] = argsBounds'[i - 1][1] + argsBounds'[i - 1][2]
  <2>1. CASE i <= Len(argsBounds)
    <3>0. i \in Nat /\ i >= 1 /\ Len(argsBounds) \in Nat
      BY <1>2
    <3>1. i \in 1 .. Len(argsBounds) /\ (i > 1 => i - 1 \in 1 .. Len(argsBounds))
      BY <2>1, <3>0
    <3>2. argsBounds'[i] = argsBounds[i] /\ (i > 1 => argsBounds'[i - 1] = argsBounds[i - 1])
      BY <1>2, <3>1
    <3>3. /\ argsBounds[i][2] <= MaxBulkLength
          /\ argsBounds[i][1] + argsBounds[i][2] <= Len(argsBuffer)
          /\ i > 1 => argsBounds[i][1] = argsBounds[i - 1][1] + argsBounds[i - 1][2]
      BY <3>1 DEF Inv, SlicesInside
    <3>4. argsBounds[i][1] \in Nat /\ argsBounds[i][2] \in Nat
      BY <3>1, BoundsTyped DEF Inv
    <3>5. Len(argsBuffer) \in Nat /\ Len(b) \in Nat
      BY LenProperties DEF Inv, TypeOK
    <3>6. argsBounds[i][1] + argsBounds[i][2] <= Len(b)
      <4> DEFINE x == argsBounds[i][1]  y == argsBounds[i][2]
      <4>1. x \in Nat /\ y \in Nat /\ x + y <= Len(argsBuffer)
        BY <3>3, <3>4
      <4> HIDE DEF x, y
      <4>2. x + y <= Len(b)
        BY <3>5, <4>1
      <4> QED BY <4>2 DEF x, y
    <3> QED BY <3>2, <3>3, <3>6
  <2>2. CASE i = Len(argsBounds) + 1
    <3>1. argsBounds'[i] = <<p, l>>
      BY <1>2, <2>2
    <3>2. i > 1 => argsBounds # <<>> /\ argsBounds'[i - 1] = argsBounds[Len(argsBounds)]
      BY <1>2, <2>2
    <3>3. i > 1 => p = argsBounds'[i - 1][1] + argsBounds'[i - 1][2]
      BY <3>2 DEF End
    <3>4. argsBounds'[i][1] = p /\ argsBounds'[i][2] = l
      BY <3>1
    <3>5. l <= MaxBulkLength /\ p + l <= Len(b)
      OBVIOUS
    <3> QED BY <3>3, <3>4, <3>5, Zenon
  <2> QED BY <1>2, <2>1, <2>2
<1>4. Len(argsBounds') <= MaxMultiBulkLength
  BY <1>2
<1>5. SlicesInside'
  BY <1>3, <1>4 DEF SlicesInside
<1> QED BY <1>2, <1>5

\* The end of a word (server.go:360-369).
LEMMA EndWordKeeps ==
  ASSUME Inv, rpc \in {"word", "dq", "sq"}, NEW k \in Nat, EndWord(k)
  PROVE  Inv'
<1>1. ASSUME NEW e, Fail(e) PROVE Inv'
  BY <1>1, FailKeeps
<1>2. CASE /\ ~WordTooLong /\ Len(argsBounds) + 1 <= MaxMultiBulkLength
           /\ argsBounds' = Append(argsBounds, <<p, WordLength>>)
           /\ p' = Len(argsBuffer)
           /\ wire' = Drop(k)
           /\ rpc' = "skip"
           /\ UNCHANGED <<rerr, n, argsBuffer, args, got, clientVars>>
  <2>1. Drop(k) \in Seq(Byte)
    BY DropTyped DEF Inv
  <2>2. /\ Len(argsBuffer) \in Nat /\ Len(argsBounds) \in Nat /\ p \in Nat
        /\ p = End(argsBounds) /\ p <= Len(argsBuffer) /\ Len(argsBuffer) <= MaxBufferSize
        /\ argsBuffer \in Seq(Byte)
    BY LenProperties DEF Inv, TypeOK, SlicesInside, Progress
  <2>3. WordLength \in Nat /\ WordLength <= MaxBulkLength /\ p + WordLength = Len(argsBuffer)
    BY <1>2, <2>2 DEF WordLength, WordTooLong
  <2>4. /\ argsBounds' \in Seq(Nat \X Nat)
        /\ Len(argsBounds') = Len(argsBounds) + 1
        /\ argsBounds'[Len(argsBounds')] = <<p, WordLength>>
        /\ SlicesInside'
    BY <1>2, <2>2, <2>3, AppendBound, SMTT(40)
  <2>5. TypeOK'
    BY <1>2, <2>1, <2>2, <2>4 DEF Inv, TypeOK
  <2>6. Progress'
    <3>1. argsBounds' # <<>> /\ End(argsBounds') = p + WordLength
      BY <2>2, <2>4 DEF End
    <3>2. p' = End(argsBounds') /\ p' <= Len(argsBuffer')
      BY <1>2, <2>2, <2>3, <3>1
    <3> QED BY <1>2, <3>2 DEF Progress, End
  <2> QED BY <2>4, <2>5, <2>6 DEF Inv
<1> QED BY <1>1, <1>2, Zenon DEF EndWord

\* The end of the connection within a word.
LEMMA WordCutKeeps ==
  ASSUME Inv, WordCut
  PROVE  Inv'
BY FailKeeps, Zenon DEF WordCut

\* Expand keeps what is there and makes room (helpers.go:36-44).
LEMMA ExpandTyped ==
  ASSUME NEW b \in Seq(Byte), NEW k \in Nat
  PROVE  /\ Expand(b, k) \in Seq(Byte)
         /\ Len(Expand(b, k)) = IF k > Len(b) THEN k ELSE Len(b)
<1> DEFINE size == IF k > Len(b) THEN k ELSE Len(b)
<1>1. size \in Nat
  BY LenProperties
<1>2. \A i \in 1 .. size : (IF i <= Len(b) THEN b[i] ELSE 0) \in Byte
  BY <1>1, LenProperties, ElementOfSeq DEF Byte
<1> HIDE DEF size
<1>3. /\ [i \in 1 .. size |-> IF i <= Len(b) THEN b[i] ELSE 0] \in Seq(Byte)
      /\ Len([i \in 1 .. size |-> IF i <= Len(b) THEN b[i] ELSE 0]) = size
  BY <1>1, <1>2
<1> QED BY <1>3 DEF Expand, size

\* A line that cannot be read.
LEMMA LineFailsKeeps ==
  ASSUME Inv, LineFails
  PROVE  Inv'
BY FailKeeps DEF LineFails

-----------------------------------------------------------------------------
(* One lemma per action of the reader *)

\* The first byte of a request (server.go:374-385).
LEMMA PeekKeeps ==
  ASSUME Inv, Peek
  PROVE  Inv'
<1>1. CASE Fail(conn)
  BY <1>1, FailKeeps
<1>2. CASE /\ rpc' = "count"
           /\ UNCHANGED <<wire, rerr, n, p, argsBuffer, argsBounds, args, got, clientVars>>
  BY <1>2 DEF Inv, TypeOK, SlicesInside, Progress
<1>3. CASE /\ rpc' = "skip"
           /\ p' = 0 /\ argsBuffer' = <<>> /\ argsBounds' = <<>>
           /\ UNCHANGED <<wire, rerr, n, args, got, clientVars>>
  <2>1. Len(<<>>) = 0 /\ <<>> \in Seq(Byte) /\ <<>> \in Seq(Nat \X Nat)
    BY EmptySeq
  <2> QED BY <1>3, <2>1 DEF Inv, TypeOK, SlicesInside, Progress, End
<1> QED BY <1>1, <1>2, <1>3 DEF Peek

\* The multibulk header (server.go:386-411).
LEMMA CountKeeps ==
  ASSUME Inv, Count
  PROVE  Inv'
<1> DEFINE c == ParseInt32(Tail(Line))
           none == NoArguments(Line, c)
<1>1. CASE LineFails
  BY <1>1, LineFailsKeeps
<1>2. CASE Fail("multibulk length")
  BY <1>2, FailKeeps, Zenon
<1>3. ASSUME LineReady
      PROVE  Drop(LineEnd) \in Seq(Byte)
  BY <1>3, LineEndTyped, DropTyped DEF LineReady, Inv
<1>4. CASE /\ LineReady
           /\ none
           /\ rpc' = "peek"
           /\ wire' = Drop(LineEnd)
           /\ UNCHANGED <<n, p, argsBounds, rerr, argsBuffer, args, got, clientVars>>
  BY <1>3, <1>4 DEF Inv, TypeOK, SlicesInside, Progress
<1>5. CASE /\ LineReady
           /\ ~none /\ c.ok /\ c.v <= MaxMultiBulkLength
           /\ rpc' = "len"
           /\ n' = c.v /\ p' = 0 /\ argsBounds' = <<>>
           /\ wire' = Drop(LineEnd)
           /\ UNCHANGED <<rerr, argsBuffer, args, got, clientVars>>
  <2>1. c.v \in Int
    BY <1>5, IntParsed
  <2>2. n' \in Nat /\ n' > 0 /\ n' <= MaxMultiBulkLength
    BY <1>5, <2>1 DEF NoArguments
  <2>3. Len(<<>>) = 0 /\ <<>> \in Seq(Nat \X Nat) /\ Len(argsBuffer) \in Nat
    BY EmptySeq, LenProperties DEF Inv, TypeOK
  <2>4. TypeOK'
    BY <1>3, <1>5, <2>2, <2>3 DEF Inv, TypeOK
  <2>5. SlicesInside' /\ Progress'
    BY <1>5, <2>2, <2>3 DEF Inv, SlicesInside, Progress, End
  <2> QED BY <2>4, <2>5 DEF Inv
<1> QED BY <1>1, <1>2, <1>4, <1>5, Zenon DEF Count

\* The length of an argument (server.go:412-431).
LEMMA BulkLengthKeeps ==
  ASSUME Inv, BulkLength
  PROVE  Inv'
<1> DEFINE l == ParseUInt32(Tail(Line))
<1>1. CASE LineFails
  BY <1>1, LineFailsKeeps
<1>2. ASSUME NEW e, Fail(e) PROVE Inv'
  BY <1>2, FailKeeps
<1>3. CASE /\ rpc = "len" /\ LineReady
           /\ l.ok /\ l.v <= MaxBulkLength /\ FitsBuffer(l.v)
           /\ argsBuffer' = Expand(argsBuffer, p + l.v + 2)
           /\ argsBounds' = Append(argsBounds, <<p, l.v>>)
           /\ wire' = Drop(LineEnd)
           /\ rpc' = "body"
           /\ UNCHANGED <<rerr, n, p, args, got, clientVars>>
  <2>1. PICK v \in Nat : v = l.v
    BY <1>3, UIntParsed
  <2>2. Drop(LineEnd) \in Seq(Byte)
    BY <1>3, LineEndTyped, DropTyped DEF LineReady, Inv
  <2>3. /\ Len(argsBuffer) \in Nat /\ Len(argsBounds) \in Nat /\ p \in Nat /\ n \in Nat
        /\ p = End(argsBounds) /\ Len(argsBuffer) <= MaxBufferSize
        /\ Len(argsBounds) < n /\ n <= MaxMultiBulkLength
        /\ argsBuffer \in Seq(Byte)
    BY <1>3, LenProperties DEF Inv, TypeOK, SlicesInside, Progress
  <2>4. p + v + 2 \in Nat /\ p + v + 2 <= MaxBufferSize
    BY <1>3, <2>1, <2>3, SMTT(40) DEF FitsBuffer
  <2>5. /\ argsBuffer' \in Seq(Byte)
        /\ Len(argsBuffer') \in Nat
        /\ Len(argsBuffer') <= MaxBufferSize
        /\ Len(argsBuffer) <= Len(argsBuffer')
        /\ p + v + 2 <= Len(argsBuffer')
    <3>1. argsBuffer' = Expand(argsBuffer, p + v + 2)
      BY <1>3, <2>1
    <3>2. /\ argsBuffer' \in Seq(Byte)
          /\ Len(argsBuffer') = IF p + v + 2 > Len(argsBuffer) THEN p + v + 2 ELSE Len(argsBuffer)
      BY <2>3, <2>4, <3>1, ExpandTyped
    <3> QED BY <2>3, <2>4, <3>2
  <2>6. v <= MaxBulkLength /\ Len(argsBounds) < MaxMultiBulkLength /\ p + v <= Len(argsBuffer')
    BY <1>3, <2>1, <2>3, <2>5, SMTT(40)
  <2>7. argsBounds' = Append(argsBounds, <<p, v>>)
    BY <1>3, <2>1
  <2>8. /\ argsBounds' \in Seq(Nat \X Nat)
        /\ Len(argsBounds') = Len(argsBounds) + 1
        /\ argsBounds'[Len(argsBounds')] = <<p, v>>
        /\ SlicesInside'
    BY <2>3, <2>5, <2>6, <2>7, AppendBound, Zenon
  <2>9. TypeOK'
    BY <1>3, <2>2, <2>5, <2>8 DEF Inv, TypeOK
  <2>10. argsBounds' # <<>>
    BY <2>3, <2>8
  <2>11. Progress'
    <3>1. p' = p /\ n' = n /\ rpc' = "body"
      BY <1>3
    <3>2. p' = argsBounds'[Len(argsBounds')][1] /\ argsBounds'[Len(argsBounds')][2] = v
      BY <2>8, <3>1
    <3>3. n' <= MaxMultiBulkLength /\ Len(argsBounds') <= n'
      BY <2>3, <2>8, <3>1
    <3> QED BY <2>5, <2>10, <3>1, <3>2, <3>3 DEF Progress
  <2> QED BY <2>8, <2>9, <2>11 DEF Inv
<1> QED BY <1>1, <1>2, <1>3, Zenon DEF BulkLength

\* The bytes of an argument (server.go:432-440).
LEMMA BulkBodyKeeps ==
  ASSUME Inv, BulkBody
  PROVE  Inv'
<1> DEFINE l == argsBounds[Len(argsBounds)][2]
           chunk == p + 1 .. p + l + 2
           buf == [i \in 1 .. Len(argsBuffer) |->
                     IF i \in chunk THEN wire[i - p] ELSE argsBuffer[i]]
<1>1. CASE Fail(conn)
  BY <1>1, FailKeeps
<1>2. CASE /\ rpc = "body" /\ HasBytes(l + 2)
           /\ argsBuffer' = buf
           /\ p' = p + l
           /\ wire' = Drop(l + 2)
           /\ \/ Len(argsBounds) = n /\ Return(Refs(buf, argsBounds))
              \/ Len(argsBounds) < n /\ rpc' = "len" /\ UNCHANGED <<args, got>>
           /\ UNCHANGED <<rerr, n, argsBounds, clientVars>>
  <2>1. /\ argsBounds # <<>> /\ p = argsBounds[Len(argsBounds)][1]
        /\ p + l + 2 <= Len(argsBuffer) /\ n <= MaxMultiBulkLength
    BY <1>2 DEF Inv, Progress
  <2>2. Len(argsBounds) \in 1 .. Len(argsBounds) /\ l \in Nat /\ p \in Nat /\ n \in Nat
    <3>1. Len(argsBounds) \in 1 .. Len(argsBounds)
      BY <2>1, LenProperties, EmptySeq DEF Inv, TypeOK
    <3> QED BY <3>1, BoundsTyped DEF Inv, TypeOK
  <2>3. Len(argsBuffer) \in Nat /\ argsBuffer \in Seq(Byte) /\ argsBounds \in Seq(Nat \X Nat)
    BY LenProperties DEF Inv, TypeOK
  <2> HIDE DEF l
  <2>4. \A i \in 1 .. Len(argsBuffer) : (IF i \in chunk THEN wire[i - p] ELSE argsBuffer[i]) \in Byte
    <3> SUFFICES ASSUME NEW i \in 1 .. Len(argsBuffer)
                 PROVE  (IF i \in chunk THEN wire[i - p] ELSE argsBuffer[i]) \in Byte
      OBVIOUS
    <3>1. CASE i \in chunk
      <4>1. i - p \in 1 .. Len(wire)
        BY <1>2, <2>2, <3>1, WireTyped DEF HasBytes, Inv
      <4> QED BY <3>1, <4>1, WireTyped DEF Inv
    <3>2. CASE i \notin chunk
      BY <2>3, <3>2, ElementOfSeq
    <3> QED BY <3>1, <3>2
  <2>5. buf \in Seq(Byte) /\ Len(buf) = Len(argsBuffer)
    <3> HIDE DEF chunk
    <3> QED BY <2>3, <2>4
  <2> HIDE DEF buf
  <2>6. Drop(l + 2) \in Seq(Byte)
    BY <2>2, DropTyped DEF Inv
  <2>7. SlicesInside'
    BY <1>2, <2>5 DEF Inv, SlicesInside
  <2>8. CASE Len(argsBounds) = n /\ Return(Refs(buf, argsBounds))
    <3>1. \A i \in 1 .. Len(argsBounds) : argsBounds[i][1] + argsBounds[i][2] <= Len(buf)
      BY <2>5 DEF Inv, SlicesInside
    <3>2. Refs(buf, argsBounds) \in Seq(Seq(Byte))
      BY <2>3, <2>5, <3>1, RefsTyped, Zenon
    <3>3. args' \in Seq(Seq(Byte)) /\ got' \in Seq(Seq(Seq(Byte))) /\ rpc' = "return"
      BY <2>8, <3>2, AppendProperties DEF Return, Inv, TypeOK
    <3>4. TypeOK'
      BY <1>2, <2>2, <2>5, <2>6, <3>3 DEF Inv, TypeOK
    <3>5. Progress'
      BY <3>3 DEF Progress
    <3> QED BY <2>7, <3>4, <3>5 DEF Inv
  <2>9. CASE Len(argsBounds) < n /\ rpc' = "len" /\ UNCHANGED <<args, got>>
    <3>1. TypeOK'
      BY <1>2, <2>2, <2>5, <2>6, <2>9 DEF Inv, TypeOK
    <3>2. p' = End(argsBounds') /\ p' <= Len(argsBuffer')
      BY <1>2, <2>1, <2>2, <2>3, <2>5 DEF End, l
    <3>3. n' = n /\ argsBounds' = argsBounds /\ Len(argsBounds) \in Nat
      BY <1>2, <2>2
    <3>4. Progress'
      BY <2>1, <2>2, <2>9, <3>2, <3>3 DEF Progress
    <3> QED BY <2>7, <3>1, <3>4 DEF Inv
  <2> QED BY <1>2, <2>8, <2>9
<1> QED BY <1>1, <1>2 DEF BulkBody

\* Between two words (server.go:216-236).
LEMMA SkipSpacesKeeps ==
  ASSUME Inv, SkipSpaces
  PROVE  Inv'
<1>0. Drop(1) \in Seq(Byte)
  BY DropTyped DEF Inv
<1>1. CASE Fail(conn)
  BY <1>1, FailKeeps
<1>2. CASE /\ wire' = Drop(1)
           /\ UNCHANGED <<rpc, rerr, n, p, argsBuffer, argsBounds, args, got, clientVars>>
  BY <1>0, <1>2 DEF Inv, TypeOK, SlicesInside, Progress
<1>3. CASE /\ rpc = "skip" /\ rpc' = "word"
           /\ UNCHANGED <<wire, rerr, n, p, argsBuffer, argsBounds, args, got, clientVars>>
  BY <1>3 DEF Inv, TypeOK, SlicesInside, Progress
<1>4. CASE /\ wire' = Drop(1)
           /\ argsBounds = <<>> /\ rpc' = "peek" /\ UNCHANGED <<args, got>>
           /\ UNCHANGED <<rerr, n, p, argsBuffer, argsBounds, clientVars>>
  BY <1>0, <1>4 DEF Inv, TypeOK, SlicesInside, Progress
<1>5. CASE /\ wire' = Drop(1)
           /\ argsBounds # <<>> /\ Return(Refs(argsBuffer, argsBounds))
           /\ UNCHANGED <<rerr, n, p, argsBuffer, argsBounds, clientVars>>
  <2>1. Refs(argsBuffer, argsBounds) \in Seq(Seq(Byte))
    BY RefsTyped, Zenon DEF Inv, TypeOK, SlicesInside
  <2>2. args' \in Seq(Seq(Byte)) /\ got' \in Seq(Seq(Seq(Byte))) /\ rpc' = "return"
    BY <1>5, <2>1, AppendProperties DEF Return, Inv, TypeOK
  <2> QED BY <1>0, <1>5, <2>2 DEF Inv, TypeOK, SlicesInside, Progress
<1> QED BY <1>1, <1>2, <1>3, <1>4, <1>5 DEF SkipSpaces

\* An opening quote.
LEMMA QuoteKeeps ==
  ASSUME Inv, rpc = "word", NEW q \in {"dq", "sq"}, Quote(q)
  PROVE  Inv'
<1>1. Drop(1) \in Seq(Byte)
  BY DropTyped DEF Inv
<1> QED BY <1>1 DEF Quote, Inv, TypeOK, SlicesInside, Progress

\* A word outside of quotes (server.go:343-358).
LEMMA WordKeeps ==
  ASSUME Inv, Word
  PROVE  Inv'
<1>1. rpc \in {"word", "dq", "sq"} /\ rpc = "word"
  BY DEF Word
<1>2. ASSUME wire # <<>> PROVE wire[1] \in Byte
  BY <1>2, EmptySeq, WireTyped DEF Inv, TypeOK
<1>3. CASE Quote("dq") \/ Quote("sq")
  BY <1>1, <1>3, QuoteKeeps
<1>4. CASE EndWord(0)
  BY <1>1, <1>4, EndWordKeeps
<1>5. CASE wire # <<>> /\ AppendByte(wire[1], 1)
  BY <1>1, <1>2, <1>5, AppendByteKeeps
<1>6. CASE WordCut
  BY <1>6, WordCutKeeps
<1> QED BY <1>3, <1>4, <1>5, <1>6 DEF Word

\* A closing quote (server.go:290-300).
LEMMA ClosingQuoteKeeps ==
  ASSUME Inv, rpc \in {"word", "dq", "sq"}, ClosingQuote
  PROVE  Inv'
BY EndWordKeeps, FailKeeps, Zenon DEF ClosingQuote

\* A hexadecimal digit has a value below 16 (server.go:187-196).
LEMMA HexDigitTyped ==
  \A c \in Byte : HexDigit(c) \in -1 .. 15
BY DEF HexDigit, IsDigit, Digit, Byte

\* A backslash in double quotes (server.go:249-289).
LEMMA EscapeKeeps ==
  ASSUME Inv, rpc \in {"word", "dq", "sq"}, Escape
  PROVE  Inv'
<1>1. CASE Fail(conn)
  BY <1>1, FailKeeps
<1>2. CASE AppendByte(Backslash, 1)
  BY <1>2, AppendByteKeeps DEF Backslash, Byte
<1>3. CASE /\ HasBytes(4) /\ HexDigit(wire[3]) >= 0 /\ HexDigit(wire[4]) >= 0
           /\ AppendByte(HexDigit(wire[3]) * 16 + HexDigit(wire[4]), 4)
  <2>1. wire[3] \in Byte /\ wire[4] \in Byte
    BY <1>3, WireTyped DEF HasBytes, Inv
  <2>2. HexDigit(wire[3]) \in 0 .. 15 /\ HexDigit(wire[4]) \in 0 .. 15
    BY <1>3, <2>1, HexDigitTyped
  <2>3. HexDigit(wire[3]) * 16 + HexDigit(wire[4]) \in Byte
    <3>1. \A a, b \in 0 .. 15 : a * 16 + b \in 0 .. 255
      OBVIOUS
    <3> QED BY <2>2, <3>1, Zenon DEF Byte
  <2> QED BY <1>3, <2>3, AppendByteKeeps
<1>4. CASE (HasBytes(4) \/ HasBytes(2)) /\ AppendByte(Escaped(wire[2]), 2)
  <2>1. wire[2] \in Byte
    BY <1>4, WireTyped DEF HasBytes, Inv
  <2>2. Escaped(wire[2]) \in Byte
    BY <2>1 DEF Escaped, Byte, LF, CR
  <2> QED BY <1>4, <2>2, AppendByteKeeps
<1> QED BY <1>1, <1>2, <1>3, <1>4 DEF Escape

\* A word in double quotes (server.go:245-306).
LEMMA InDoubleQuotesKeeps ==
  ASSUME Inv, InDoubleQuotes
  PROVE  Inv'
<1>1. rpc \in {"word", "dq", "sq"}
  BY Zenon DEF InDoubleQuotes
<1>2. ASSUME wire # <<>> PROVE wire[1] \in Byte
  BY <1>2, EmptySeq, WireTyped DEF Inv, TypeOK
<1>3. CASE wire # <<>> /\ AppendByte(wire[1], 1)
  BY <1>1, <1>2, <1>3, AppendByteKeeps
<1> QED BY <1>1, <1>3, FailKeeps, EscapeKeeps, ClosingQuoteKeeps, WordCutKeeps, Zenon
        DEF InDoubleQuotes

\* A word in single quotes (server.go:307-342).
LEMMA InSingleQuotesKeeps ==
  ASSUME Inv, InSingleQuotes
  PROVE  Inv'
<1>1. rpc \in {"word", "dq", "sq"}
  BY Zenon DEF InSingleQuotes
<1>2. ASSUME wire # <<>> PROVE wire[1] \in Byte
  BY <1>2, EmptySeq, WireTyped DEF Inv, TypeOK
<1>3. CASE wire # <<>> /\ AppendByte(wire[1], 1)
  BY <1>1, <1>2, <1>3, AppendByteKeeps
<1>4. CASE AppendByte(SingleQuote, 2) \/ AppendByte(Backslash, 1)
  BY <1>1, <1>4, AppendByteKeeps DEF SingleQuote, Backslash, Byte
<1> QED BY <1>1, <1>3, <1>4, FailKeeps, ClosingQuoteKeeps, WordCutKeeps, Zenon
        DEF InSingleQuotes

\* The client's steps leave the reader alone.
LEMMA ClientKeeps ==
  ASSUME Inv, ClientStep
  PROVE  Inv'
<1>1. ASSUME Send PROVE begun' \in 0 .. Len(script') /\ left' \in Seq(Byte)
  <2>1. begun + 1 \in 1 .. Len(script) /\ script' = script
    BY <1>1, LenProperties DEF Send, Inv, TypeOK
  <2>2. script[begun + 1] \in Request
    BY <2>1, ElementOfSeq DEF Inv, TypeOK
  <2> QED BY <1>1, <2>1, <2>2 DEF Send, Request
<1>2. ASSUME Deliver PROVE wire' \in Seq(Byte) /\ left' \in Seq(Byte)
  BY <1>2, HeadTailProperties, AppendProperties DEF Deliver, Inv, TypeOK
<1>3. TypeOK'
  BY <1>1, <1>2, Zenon DEF ClientStep, Send, Deliver, Cut, Inv, TypeOK
<1>4. SlicesInside' /\ Progress'
  BY DEF ClientStep, Send, Deliver, Cut, Inv, SlicesInside, Progress
<1> QED BY <1>3, <1>4 DEF Inv
-----------------------------------------------------------------------------
(* The theorem *)

\* A new server has read nothing (server.go:56-66).
LEMMA InitInv == Init => Inv
<1> SUFFICES ASSUME Init PROVE Inv
  OBVIOUS
<1>1. Len(<<>>) = 0
  BY EmptySeq
<1>2. script \in Seq(Request) /\ Len(script) \in Nat
  BY LenProperties DEF Init
<1> QED BY <1>1, <1>2 DEF Init, Inv, TypeOK, SlicesInside, Progress, End

\* No step breaks the invariant.
LEMMA NextInv == Inv /\ [Next]_vars => Inv'
<1> SUFFICES ASSUME Inv, [Next]_vars PROVE Inv'
  OBVIOUS
<1>1. CASE ClientStep
  BY <1>1, ClientKeeps
<1>2. CASE ReaderStep
  BY <1>2, PeekKeeps, CountKeeps, BulkLengthKeeps, BulkBodyKeeps, SkipSpacesKeeps, WordKeeps,
     InDoubleQuotesKeeps, InSingleQuotesKeeps DEF ReaderStep
<1>3. CASE Resume
  BY <1>3 DEF Resume, Inv, TypeOK, SlicesInside, Progress
<1>4. CASE UNCHANGED vars
  BY <1>4 DEF vars, Inv, TypeOK, SlicesInside, Progress
<1> QED BY <1>1, <1>2, <1>3, <1>4 DEF Next

\* The parser's variables always have their types: no number it takes from a header
\* is negative, no byte it computes from an escape is out of range (server.go:200-441).
THEOREM TypeCorrect == Spec => []TypeOK
<1>1. Inv => TypeOK
  BY DEF Inv
<1> QED BY <1>1, InitInv, NextInv, PTL DEF Spec

\* Whatever bytes come in, with whatever limits, the recorded arguments lie back to
\* back within argsBuffer and within their limits (server.go:412-440).
THEOREM SlicesCorrect == Spec => []SlicesInside
<1>1. Inv => SlicesInside
  BY DEF Inv
<1> QED BY <1>1, InitInv, NextInv, PTL DEF Spec
=============================================================================
