----------------------------- MODULE RespReader -----------------------------
(***************************************************************************)
(* The request parser of utils/go-resp/server.go: Next, next and readArgs  *)
(* over a bufio.Reader.  A step is one read of the bufio.Reader with what  *)
(* the code does with the bytes; it waits until the bytes are there or the *)
(* connection has ended.  A byte is its code.                              *)
(***************************************************************************)
EXTENDS Integers, Sequences, SequencesExt

CONSTANTS MaxMultiBulkLength, MaxBulkLength, MaxBufferSize,   \* the limits
          ReaderSize,   \* buffer size of the bufio.Reader
          MaxUint,      \* the greatest unsigned integer, MaxUint32 in the code
          MaxDigits,    \* how many digits it has
          Scripts       \* sequences of requests that a client may send

Byte == 0 .. 255
CR == 13
LF == 10
Star == 42
Dollar == 36
Minus == 45
DoubleQuote == 34
SingleQuote == 39
Backslash == 92

\* A request is its bytes and what it means: arguments, or a protocol error.
Request == [bytes : Seq(Byte), args : Seq(Seq(Byte)), bad : BOOLEAN]

ASSUME RespReaderAssumption ==
  /\ MaxMultiBulkLength \in Nat /\ MaxBulkLength \in Nat /\ MaxBufferSize \in Nat
  /\ ReaderSize \in Nat /\ MaxUint \in Nat /\ MaxDigits \in Nat
  /\ \A s \in Scripts : s \in Seq(Request)

VARIABLES script,      \* the requests the client will send
          begun,       \* how many of them it has begun to send
          left,        \* bytes of the last of these that are not on the wire
          wire,        \* bytes not yet read
          conn,        \* "open", "eof" or "reset"
          rpc,         \* where the reader is
          rerr,        \* the error Next returned
          n,           \* number of arguments the multibulk header announced
          p,           \* where the current argument starts in argsBuffer
          argsBuffer,  \* all arguments back to back
          argsBounds,  \* start and length of each argument
          args,        \* what Next returned last
          got          \* history: the commands Next has returned

clientVars == <<script, begun, left, conn>>
readerVars == <<wire, rpc, rerr, n, p, argsBuffer, argsBounds, args, got>>
vars == <<script, begun, left, wire, conn, rpc, rerr, n, p, argsBuffer, argsBounds, args, got>>

Init ==
  /\ script \in Scripts /\ begun = 0 /\ left = <<>> /\ wire = <<>> /\ conn = "open"
  /\ rpc = "peek" /\ rerr = "none"
  /\ n = 0 /\ p = 0 /\ argsBuffer = <<>> /\ argsBounds = <<>>
  /\ args = <<>> /\ got = <<>>
-----------------------------------------------------------------------------
(* The client *)

\* Starts the next request; requests are pipelined, replies are not waited for.
Send ==
  /\ conn = "open" /\ left = <<>> /\ begun < Len(script)
  /\ begun' = begun + 1
  /\ left' = script[begun + 1].bytes
  /\ UNCHANGED <<script, conn, readerVars>>

\* The network delivers a byte.
Deliver ==
  /\ conn = "open" /\ left # <<>>
  /\ wire' = Append(wire, Head(left))
  /\ left' = Tail(left)
  /\ UNCHANGED <<script, begun, conn, rpc, rerr, n, p, argsBuffer, argsBounds, args, got>>

\* The client closes, or the connection breaks: what is not delivered never comes.
Cut ==
  /\ conn = "open"
  /\ conn' \in {"eof", "reset"}
  /\ UNCHANGED <<script, begun, left, readerVars>>
-----------------------------------------------------------------------------
(* Numbers *)

Digit(c) == c - 48
IsDigit(c) == c \in 48 .. 57
Number(v) == [ok |-> TRUE, v |-> v]
NotANumber == [ok |-> FALSE, v |-> 0]

\* Adds a digit in 64 bits; a line has too few digits to overflow these.
AddDigit(r, c) == IF r.ok /\ IsDigit(c) THEN Number(r.v * 10 + Digit(c)) ELSE NotANumber

Digits64(b) == FoldLeft(AddDigit, Number(0), b)

ParseUInt32(b) ==
  IF b # <<>> /\ Len(b) <= MaxDigits /\ Digits64(b).ok /\ Digits64(b).v \in 0 .. MaxUint
  THEN Digits64(b) ELSE NotANumber

\* Adds b[i + 1] in the width of MaxUint; only from index MaxDigits on is there
\* a test for overflow.
AddDigit32(r, b, i) ==
  LET c == b[i + 1]
      v == (r.v * 10) % (MaxUint + 1)
      overflow == i >= MaxDigits /\ (r.v > MaxUint \div 10 \/ v > MaxUint - Digit(c))
  IN  IF r.ok /\ IsDigit(c) /\ ~overflow THEN Number((v + Digit(c)) % (MaxUint + 1))
                                         ELSE NotANumber

\* The digits of b after an optional sign.
Digits32(b) ==
  LET first == IF b[1] = Minus THEN Number(0)
               ELSE IF IsDigit(b[1]) THEN Number(Digit(b[1])) ELSE NotANumber
  IN  FoldLeft(LAMBDA r, i : AddDigit32(r, b, i), first, [i \in 1 .. Len(b) - 1 |-> i])

ParseInt32(b) ==
  LET r == Digits32(b)
  IN  CASE b = <<>> \/ Len(b) > MaxDigits + 1 \/ b = <<Minus>> -> NotANumber
        [] b = <<48>> -> Number(0)
        [] b[1] = 48 /\ Len(b) > 1 -> NotANumber
        [] b[1] # Minus /\ r.ok /\ r.v \in 0 .. MaxUint \div 2 -> r
        [] b[1] = Minus /\ r.ok /\ r.v \in 0 .. MaxUint \div 2 + 1 -> Number(-r.v)
        [] OTHER -> NotANumber
-----------------------------------------------------------------------------
(* Multibulk requests *)

\* Next returns the error and will return it again; the handler closes the connection.
Fail(e) ==
  /\ rerr' = e
  /\ rpc' = "failed"
  /\ UNCHANGED <<wire, n, p, argsBuffer, argsBounds, args, got, clientVars>>

\* The bufio.Reader has k bytes to peek at or to read.
MutHasBytes(k) == Len(wire) > k
HasBytes(k) == Len(wire) >= k

\* A read that needs k bytes can neither be served nor wait any longer.
Short(k) == conn # "open" /\ ~HasBytes(k)

Drop(k) == SubSeq(wire, k + 1, Len(wire))

\* next: the first byte tells the two kinds of request apart.
Peek ==
  /\ rpc = "peek"
  /\ \/ /\ wire # <<>> /\ wire[1] = Star
        /\ rpc' = "count"
        /\ UNCHANGED <<wire, rerr, n, p, argsBuffer, argsBounds, args, got, clientVars>>
     \/ /\ wire # <<>> /\ wire[1] # Star
        /\ rpc' = "skip"
        /\ p' = 0 /\ argsBuffer' = <<>> /\ argsBounds' = <<>>
        /\ UNCHANGED <<wire, rerr, n, args, got, clientVars>>
     \/ Short(1) /\ Fail(conn)

HasLine == \E j \in 1 .. Len(wire) : wire[j] = LF
LineEnd == CHOOSE j \in 1 .. Len(wire) : wire[j] = LF /\ \A i \in 1 .. j - 1 : wire[i] # LF
Line == SubSeq(wire, 1, IF LineEnd > 1 /\ wire[LineEnd - 1] = CR THEN LineEnd - 2
                                                                  ELSE LineEnd - 1)

\* readShortLine finds a line that the bufio.Reader can hold.
LineReady == HasLine /\ LineEnd <= ReaderSize

\* readShortLine fails: the line is too long, or the connection ended before its
\* end.  After one full buffer it reads on for a second fragment.
LineFails ==
  \/ /\ \/ HasLine /\ LineEnd > ReaderSize
        \/ ~HasLine /\ Len(wire) >= 2 * ReaderSize
        \/ ~HasLine /\ conn # "open" /\ Len(wire) > ReaderSize
     /\ Fail("full")
  \/ /\ ~HasLine /\ conn # "open" /\ Len(wire) <= ReaderSize
     /\ Fail(conn)

\* A header that announces no argument: the request is skipped.
NoArguments(line, c) == Len(line) <= 1 \/ (c.ok /\ c.v <= 0)

\* The header of a request with n arguments.
Count ==
  /\ rpc = "count"
  /\ \/ /\ LineReady
        /\ LET c == ParseInt32(Tail(Line))
               none == NoArguments(Line, c)
           IN  \/ /\ none
                  /\ rpc' = "peek"
                  /\ wire' = Drop(LineEnd)
                  /\ UNCHANGED <<n, p, argsBounds, rerr, argsBuffer, args, got, clientVars>>
               \/ /\ ~none /\ c.ok /\ c.v <= MaxMultiBulkLength
                  /\ rpc' = "len"
                  /\ n' = c.v /\ p' = 0 /\ argsBounds' = <<>>
                  /\ wire' = Drop(LineEnd)
                  /\ UNCHANGED <<rerr, argsBuffer, args, got, clientVars>>
               \/ ~none /\ ~(c.ok /\ c.v <= MaxMultiBulkLength) /\ Fail("multibulk length")
     \/ LineFails

\* Expand: at least k bytes, what is there is kept.
Expand(b, k) == [i \in 1 .. (IF k > Len(b) THEN k ELSE Len(b)) |-> IF i <= Len(b) THEN b[i] ELSE 0]

\* argsBuffer may hold another argument of length l and its CRLF.
MutFitsBuffer(l) == p + l <= MaxBufferSize
FitsBuffer(l) == p + l + 2 <= MaxBufferSize

\* The length of the next argument; makes room for it and its CRLF.
BulkLength ==
  /\ rpc = "len"
  /\ \/ /\ LineReady
        /\ LET l == ParseUInt32(Tail(Line))
               isString == Line # <<>> /\ Line[1] = Dollar
               fits == l.ok /\ l.v <= MaxBulkLength
           IN  \/ ~isString /\ Fail("expected $")
               \/ isString /\ ~fits /\ Fail("bulk length")
               \/ isString /\ fits /\ ~FitsBuffer(l.v) /\ Fail("full")
               \/ /\ isString /\ fits /\ FitsBuffer(l.v)
                  /\ argsBuffer' = Expand(argsBuffer, p + l.v + 2)
                  /\ argsBounds' = Append(argsBounds, <<p, l.v>>)
                  /\ wire' = Drop(LineEnd)
                  /\ rpc' = "body"
                  /\ UNCHANGED <<rerr, n, p, args, got, clientVars>>
     \/ LineFails

\* argsRefs: the arguments are slices of argsBuffer, taken when it is complete.
Refs(buf, bounds) ==
  [i \in 1 .. Len(bounds) |-> SubSeq(buf, bounds[i][1] + 1, bounds[i][1] + bounds[i][2])]

MutReturn(cmd) ==
  /\ args' = IF args = <<>> THEN cmd ELSE args
  /\ got' = Append(got, cmd)
  /\ rpc' = "return"

Return(cmd) ==
  /\ args' = cmd
  /\ got' = Append(got, cmd)
  /\ rpc' = "return"

\* io.ReadFull of the argument and two bytes after it, which the next argument
\* overwrites; the bytes need not be CRLF.
BulkBody ==
  /\ rpc = "body"
  /\ LET l == argsBounds[Len(argsBounds)][2]
         chunk == p + 1 .. p + l + 2
         buf == [i \in 1 .. Len(argsBuffer) |-> IF i \in chunk THEN wire[i - p] ELSE argsBuffer[i]]
     IN  \/ /\ HasBytes(l + 2)
            /\ argsBuffer' = buf
            /\ p' = p + l
            /\ wire' = Drop(l + 2)
            /\ \/ Len(argsBounds) = n /\ Return(Refs(buf, argsBounds))
               \/ Len(argsBounds) < n /\ rpc' = "len" /\ UNCHANGED <<args, got>>
            /\ UNCHANGED <<rerr, n, argsBounds, clientVars>>
         \/ Short(l + 2) /\ Fail(conn)
-----------------------------------------------------------------------------
(* Inline requests *)

\* readArgsSpaceChars: bytes between words, bytes that end a word, the rest of a word.
IsSpace(c) == c \in {32, CR, 9, 0, 11, 12}
EndsWord(c) == c \in {32, CR, 9, 0, LF}

\* readArgs between two words.
SkipSpaces ==
  /\ rpc = "skip"
  /\ \/ /\ wire # <<>> /\ IsSpace(wire[1])
        /\ wire' = Drop(1)
        /\ UNCHANGED <<rpc, rerr, n, p, argsBuffer, argsBounds, args, got, clientVars>>
     \/ /\ wire # <<>> /\ wire[1] = LF
        /\ wire' = Drop(1)
        /\ \/ argsBounds # <<>> /\ Return(Refs(argsBuffer, argsBounds))
           \/ argsBounds = <<>> /\ rpc' = "peek" /\ UNCHANGED <<args, got>>
        /\ UNCHANGED <<rerr, n, p, argsBuffer, argsBounds, clientVars>>
     \/ /\ wire # <<>> /\ ~IsSpace(wire[1]) /\ wire[1] # LF
        /\ rpc' = "word"
        /\ UNCHANGED <<wire, rerr, n, p, argsBuffer, argsBounds, args, got, clientVars>>
     \/ Short(1) /\ Fail(conn)

\* Appends byte c to the word and takes k bytes from the wire.
AppendByte(c, k) ==
  \/ Len(argsBuffer) + 1 > MaxBufferSize /\ Fail("full")
  \/ /\ Len(argsBuffer) + 1 <= MaxBufferSize
     /\ argsBuffer' = Append(argsBuffer, c)
     /\ wire' = Drop(k)
     /\ UNCHANGED <<rpc, rerr, n, p, argsBounds, args, got, clientVars>>

WordLength == Len(argsBuffer) - p
WordTooLong == WordLength > MaxBulkLength

\* A word ends, with k more bytes taken; the limits are tested only here.
EndWord(k) ==
  \/ WordTooLong /\ Fail("bulk length")
  \/ /\ ~WordTooLong /\ Len(argsBounds) + 1 > MaxMultiBulkLength
     /\ Fail("multibulk length")
  \/ /\ ~WordTooLong /\ Len(argsBounds) + 1 <= MaxMultiBulkLength
     /\ argsBounds' = Append(argsBounds, <<p, WordLength>>)
     /\ p' = Len(argsBuffer)
     /\ wire' = Drop(k)
     /\ rpc' = "skip"
     /\ UNCHANGED <<rerr, n, argsBuffer, args, got, clientVars>>

MutWordCut ==
  /\ Short(1)
  /\ argsBounds' = Append(argsBounds, <<p, WordLength>>)
  /\ Return(Refs(argsBuffer, argsBounds'))
  /\ UNCHANGED <<wire, rerr, n, p, argsBuffer, clientVars>>

\* The connection ended within a word: the word is ended, then the error returned.
WordCut ==
  /\ Short(1)
  /\ Fail(IF WordTooLong THEN "bulk length"
          ELSE IF Len(argsBounds) + 1 > MaxMultiBulkLength THEN "multibulk length" ELSE conn)

Quote(q) ==
  /\ rpc' = q
  /\ wire' = Drop(1)
  /\ UNCHANGED <<rerr, n, p, argsBuffer, argsBounds, args, got, clientVars>>

\* A word outside of quotes.
Word ==
  /\ rpc = "word"
  /\ \/ wire # <<>> /\ wire[1] = DoubleQuote /\ Quote("dq")
     \/ wire # <<>> /\ wire[1] = SingleQuote /\ Quote("sq")
     \/ wire # <<>> /\ EndsWord(wire[1]) /\ EndWord(0)
     \/ /\ wire # <<>> /\ wire[1] \notin {DoubleQuote, SingleQuote} /\ ~EndsWord(wire[1])
        /\ AppendByte(wire[1], 1)
     \/ WordCut

\* The closing quote: Peek(1) sees that a space or the end of the line follows.
ClosingQuote ==
  \/ /\ HasBytes(2) /\ ~IsSpace(wire[2]) /\ wire[2] # LF
     /\ Fail("unbalanced quotes")
  \/ HasBytes(2) /\ (IsSpace(wire[2]) \/ wire[2] = LF) /\ EndWord(1)
  \/ Short(2) /\ conn = "eof" /\ EndWord(1)
  \/ Short(2) /\ conn = "reset" /\ Fail(conn)

HexDigit(c) ==
  CASE IsDigit(c) -> Digit(c)
    [] c \in 97 .. 102 -> c - 87
    [] c \in 65 .. 70 -> c - 55
    [] OTHER -> -1

\* The byte for \n, \r, \t, \b, \a, and any other byte for itself.
Escaped(c) ==
  CASE c = 110 -> LF [] c = 114 -> CR [] c = 116 -> 9 [] c = 98 -> 8 [] c = 97 -> 7 [] OTHER -> c

\* Backslash in double quotes: Peek(3) waits for three bytes or the end.
Escape ==
  LET hex == HasBytes(4) /\ wire[2] = 120 /\ HexDigit(wire[3]) >= 0 /\ HexDigit(wire[4]) >= 0
  IN  \/ hex /\ AppendByte(HexDigit(wire[3]) * 16 + HexDigit(wire[4]), 4)
      \/ /\ ~hex /\ (HasBytes(4) \/ (Short(4) /\ conn = "eof" /\ HasBytes(2)))
         /\ AppendByte(Escaped(wire[2]), 2)
      \/ Short(2) /\ conn = "eof" /\ AppendByte(Backslash, 1)
      \/ Short(4) /\ conn = "reset" /\ Fail(conn)

InDoubleQuotes ==
  /\ rpc = "dq"
  /\ \/ wire # <<>> /\ wire[1] = LF /\ Fail("unbalanced quotes")
     \/ wire # <<>> /\ wire[1] = Backslash /\ Escape
     \/ wire # <<>> /\ wire[1] = DoubleQuote /\ ClosingQuote
     \/ wire # <<>> /\ wire[1] \notin {LF, Backslash, DoubleQuote} /\ AppendByte(wire[1], 1)
     \/ WordCut

\* In single quotes only the quote itself is escaped.
InSingleQuotes ==
  /\ rpc = "sq"
  /\ \/ wire # <<>> /\ wire[1] = LF /\ Fail("unbalanced quotes")
     \/ /\ wire # <<>> /\ wire[1] = Backslash
        /\ \/ HasBytes(2) /\ wire[2] = SingleQuote /\ AppendByte(SingleQuote, 2)
           \/ HasBytes(2) /\ wire[2] # SingleQuote /\ AppendByte(Backslash, 1)
           \/ Short(2) /\ conn = "eof" /\ AppendByte(Backslash, 1)
           \/ Short(2) /\ conn = "reset" /\ Fail(conn)
     \/ wire # <<>> /\ wire[1] = SingleQuote /\ ClosingQuote
     \/ wire # <<>> /\ wire[1] \notin {LF, Backslash, SingleQuote} /\ AppendByte(wire[1], 1)
     \/ WordCut
-----------------------------------------------------------------------------
(* The specification *)

ClientStep == Send \/ Deliver \/ Cut
ReaderStep ==
  Peek \/ Count \/ BulkLength \/ BulkBody \/ SkipSpaces \/ Word \/ InDoubleQuotes \/ InSingleQuotes

\* The handler is done with the command and calls Next again.
Resume ==
  /\ rpc = "return"
  /\ rpc' = "peek"
  /\ UNCHANGED <<wire, rerr, n, p, argsBuffer, argsBounds, args, got, clientVars>>

Next == ClientStep \/ ReaderStep \/ Resume
Spec == Init /\ [][Next]_vars
-----------------------------------------------------------------------------
(* Properties *)

\* The parser's variables have their types (server.go:19-37).
TypeOK ==
  /\ script \in Seq(Request) /\ begun \in 0 .. Len(script)
  /\ left \in Seq(Byte) /\ wire \in Seq(Byte)
  /\ conn \in {"open", "eof", "reset"}
  /\ rpc \in {"peek", "count", "len", "body", "skip", "word", "dq", "sq", "return", "failed"}
  /\ n \in Nat /\ p \in Nat
  /\ argsBuffer \in Seq(Byte)
  /\ argsBounds \in Seq(Nat \X Nat)
  /\ args \in Seq(Seq(Byte)) /\ got \in Seq(Seq(Seq(Byte)))

\* server.go:27-29, 425, 438: the arguments lie back to back in argsBuffer, each
\* within it and within its limit, and the buffer never outgrows maxBufferSize; so
\* no slice expression is out of range and no argument shows bytes of another.
SlicesInside ==
  /\ Len(argsBuffer) <= MaxBufferSize
  /\ Len(argsBounds) <= MaxMultiBulkLength
  /\ \A i \in 1 .. Len(argsBounds) :
       /\ argsBounds[i][2] <= MaxBulkLength
       /\ argsBounds[i][1] + argsBounds[i][2] <= Len(argsBuffer)
       /\ i > 1 => argsBounds[i][1] = argsBounds[i - 1][1] + argsBounds[i - 1][2]

sent == SubSeq(script, 1, begun)

\* What a sequence of requests asks for: the commands before the first bad request,
\* without those that announce no argument.
Commands(rs) ==
  LET good == {k \in 0 .. Len(rs) : \A i \in 1 .. k : ~rs[i].bad}
      cmds == [i \in 1 .. Max(good) |-> rs[i].args]
  IN  SelectSeq(cmds, LAMBDA c : c # <<>>)

\* Requests all of whose bytes were delivered.
Whole == IF left = <<>> THEN sent ELSE Front(sent)

\* Next (server.go:109-121, 373-441) returns the commands the client sent, whole, in
\* order and with their arguments, wherever the stream is cut into fragments; a
\* request that was cut off or breaks a rule yields no command, nor does what follows.
\* It refuses a request only if it breaks a rule or a limit, and reports the end of
\* the connection only when all whole requests before it have been returned.
Framing ==
  /\ IsPrefix(got, Commands(sent))
  /\ rerr \in {"eof", "reset"} => rerr = conn /\ got = Commands(Whole)
  /\ rerr \notin {"none", "eof", "reset"} =>
       (\E i \in DOMAIN sent : sent[i].bad) /\ got = Commands(sent)
=============================================================================
