-------------------------- MODULE MCRespConnection --------------------------
(* Instances of RespConnection: requests over a few bytes, with their meaning. *)
EXTENDS RespConnection

Letter == 101      \* e
SpaceByte == 32
EchoName == <<Letter>>
PingName == <<112>>
SubscribeName == <<115>>
DataName == <<100>>
Hello == <<104, LF>>

Good(bytes, as) == [bytes |-> bytes, args |-> as, bad |-> FALSE]
Bad(bytes) == [bytes |-> bytes, args |-> <<>>, bad |-> TRUE]

SumLen(as) == FoldLeft(LAMBDA a, b : a + Len(b), 0, as)

\* A multibulk request as WriteArrayString of the client writes it.
Encode(as) == FlattenSeq(Write([t |-> "array", v |-> [i \in 1 .. Len(as) |-> BytesReply(as[i])]], TRUE))
Multibulk(as) ==
  IF \/ Len(as) > MaxMultiBulkLength
     \/ \E i \in DOMAIN as : Len(as[i]) > MaxBulkLength
     \/ SumLen(as) + 2 > MaxBufferSize
  THEN Bad(Encode(as)) ELSE Good(Encode(as), as)

\* sdssplitargs of readargs_test.go: the reference for one line, without its newline.
Escapes == [c \in {110, 114, 116, 98, 97} |->
              CASE c = 110 -> 10 [] c = 114 -> 13 [] c = 116 -> 9 [] c = 98 -> 8 [] c = 97 -> 7]
Blank == {32, 13, 10, 9, 0, 11, 12}
Unsplit == <<<<-1>>>>
RECURSIVE Split(_, _, _, _, _)
\* mode: "blank", "word", "dq", "sq"; cur: the current word; Unsplit for an error.
Split(s, i, mode, cur, vec) ==
  LET at(k) == IF i + k <= Len(s) THEN s[i + k] ELSE -1
      closes == at(1) = -1 \/ at(1) \in Blank
      hex == at(1) = 120 /\ HexDigit(at(2)) >= 0 /\ HexDigit(at(3)) >= 0
  IN  CASE mode = "blank" /\ at(0) = -1 -> vec
        [] mode = "blank" /\ at(0) \in Blank -> Split(s, i + 1, "blank", <<>>, vec)
        [] mode = "blank" -> Split(s, i, "word", <<>>, vec)
        [] mode = "word" /\ at(0) = -1 -> Append(vec, cur)
        [] mode = "word" /\ at(0) \in Blank \ {11, 12} -> Split(s, i + 1, "blank", <<>>, Append(vec, cur))
        [] mode = "word" /\ at(0) = 34 -> Split(s, i + 1, "dq", cur, vec)
        [] mode = "word" /\ at(0) = 39 -> Split(s, i + 1, "sq", cur, vec)
        [] mode # "word" /\ at(0) = -1 -> Unsplit
        [] mode = "dq" /\ at(0) = 92 /\ hex ->
             Split(s, i + 4, "dq", Append(cur, HexDigit(at(2)) * 16 + HexDigit(at(3))), vec)
        [] mode = "dq" /\ at(0) = 92 /\ at(1) # -1 ->
             Split(s, i + 2, "dq", Append(cur, IF at(1) \in DOMAIN Escapes THEN Escapes[at(1)] ELSE at(1)), vec)
        [] mode = "sq" /\ at(0) = 92 /\ at(1) = 39 -> Split(s, i + 2, "sq", Append(cur, 39), vec)
        [] (mode = "dq" /\ at(0) = 34) \/ (mode = "sq" /\ at(0) = 39) ->
             IF closes THEN Split(s, i + 1, "blank", <<>>, Append(vec, cur)) ELSE Unsplit
        [] OTHER -> Split(s, i + 1, mode, Append(cur, at(0)), vec)

\* An inline request.
Inline(line) ==
  LET as == Split(line, 1, "blank", <<>>, <<>>)
      bytes == Append(line, LF)
  IN  IF as = Unsplit THEN Bad(bytes)
      ELSE IF \/ Len(as) > MaxMultiBulkLength
              \/ \E i \in DOMAIN as : Len(as[i]) > MaxBulkLength
              \/ SumLen(as) > MaxBufferSize
      THEN Bad(bytes) ELSE Good(bytes, as)

MaxLine == 3

\* Lines of up to MaxLine bytes over a letter, a space, a quote and the backslash.  A
\* backslash at the end of a quoted line is left out: the parser takes the newline as
\* escaped and reads on, where the reference, which sees one line, reports an error.
Lines == {l \in BoundedSeq({Letter, SpaceByte, DoubleQuote, Backslash}, MaxLine) :
            l # <<>> => l[Len(l)] # Backslash}

\* More lines: quotes after and within words, a hexadecimal escape, an incomplete one, an escaped newline in a command,
\* a vertical tab, a carriage return, and words at and over each limit.
e == Letter
MoreLines == {<<34, e, 32, 34>>, <<34, e, 34, e>>, <<e, 34, e, 34>>, <<39, 92, 39, 39>>, <<39, 32, 39>>, <<39, 39, e>>, <<39, e>>, <<39, 92, e, 39>>,
              <<34, 92, 34, 34>>, <<34, 34, 32, 39, 39>>, <<34, 39, 34, 32, e>>, <<34, 92, 120, 54, 53, 34, 32, e>>, <<34, 92, 120, 54, 34>>, <<34, 92, 110, 34>>,
              <<e, 11, 32, e>>, <<11, e>>, <<e, 13>>, <<34, e, 34, 11, e>>, <<36, e>>, <<69, 32, e>>,
              <<e, e, 32, e, e, 32, e>>, <<e, e, 32, e, e, 32, e, e>>, <<e, e, e>>,
              <<e, 32, e, 32, e>>, <<e, 32, e, 32, e, 32, e>>}

Arg == {<<>>, <<e>>, <<LF>>, <<CR, LF>>, <<Star, e>>, <<e, e, e>>}
Bulks == {<<a>> : a \in Arg} \cup {<<EchoName, a>> : a \in Arg}
         \cup {<<EchoName, a, <<e>>>> : a \in Arg} \cup {<<EchoName, <<e>>, <<e>>, <<e>>>>}

\* Headers: numbers over -, 0, 1, 3, 8, 9, with as many arguments as they announce.
\* Numbers above MaxUint are left out: they wrap, and the parser takes them for another
\* number.
Numbers == BoundedSeq({Minus, 48, 49, 51, 56, 57}, 2) \cup {<<Minus, 49>> \o <<c>> : c \in {48, 57, e}}
Canonical(s) ==
  /\ s # <<>> /\ s # <<Minus>>
  /\ \A i \in DOMAIN s : IsDigit(s[i]) \/ (i = 1 /\ s[i] = Minus)
  /\ s[1] = 48 => Len(s) = 1
Header(s) ==
  LET count == Int10(s)
      line == <<Star>> \o s \o CRLF
      as == [i \in 1 .. count |-> <<e>>]
      rest == FlattenSeq([i \in 1 .. count |-> <<Dollar, 49, CR, LF, e, CR, LF>>])
  IN  CASE s = <<>> -> Good(line, <<>>)
        [] s # <<>> /\ ~Canonical(s) -> Bad(line)
        [] Canonical(s) /\ count \in -(MaxUint \div 2) - 1 .. 0 -> Good(line, <<>>)
        [] Canonical(s) /\ count \in 1 .. MaxMultiBulkLength -> Good(line \o rest, as)
        [] OTHER -> Bad(line)
Headers == {Header(s) : s \in {t \in Numbers :
              ~(Canonical(t) /\ Int10(t) > MaxUint)}}

\* Lengths that are no number, too great, or missing; a line without $; a line that
\* does not fit the bufio.Reader; bytes other than CRLF after an argument.
OneArg(l) == <<Star, 49, CR, LF>> \o l \o CRLF
Lengths == {Bad(OneArg(<<Dollar, Minus, 49>>)), Bad(OneArg(<<Dollar>>)), Bad(OneArg(<<>>)),
            Bad(OneArg(<<e>>)), Bad(OneArg(<<Dollar, 49, 54>>)), Bad(OneArg(<<Dollar, 48, 48, 49>>)),
            Bad(<<Star>> \o [i \in 1 .. 2 * ReaderSize |-> 49] \o <<e>> \o CRLF),
            Bad(OneArg([i \in 1 .. ReaderSize |-> Dollar])),
            Good(OneArg(<<Dollar, 48, 49>>) \o <<e, e, e>>, <<<<e>>>>),
            Good(<<Star, 49, LF, Dollar, 48, LF, e, e>>, <<<<>>>>)}

\* Any of these, and then a request of the other kind, or of the same.
InlineEcho == Inline(<<e, SpaceByte, 120>>)
BulkEcho == Multibulk(<<EchoName, <<121>>>>)
DataOnly == {<<Inline(DataName)>>}
AnyThenEcho ==
  {<<Inline(l), BulkEcho>> : l \in Lines \cup MoreLines}
  \cup {<<r, InlineEcho>> : r \in {Multibulk(as) : as \in Bulks} \cup Headers \cup Lengths}
  \cup {<<Multibulk(<<EchoName, a>>), BulkEcho>> : a \in Arg}
  \cup {<<Inline(PingName), InlineEcho>>} \cup {<<Inline(SubscribeName)>>} \cup DataOnly
  \cup {<<Inline(SubscribeName \o <<SpaceByte, e>>), Inline(DataName)>>}
  \cup {<<Inline(name \o <<SpaceByte, e, SpaceByte, e>>), InlineEcho>> : name \in {SubscribeName, DataName}}

\* Replies of every kind, with line breaks in texts, empty ones and nested ones.
Texts == {<<>>, <<e, LF>>, <<CR>>}
Simple1 == [t : {"status", "error", "bytes", "bloberror"}, v : Texts]
           \cup [t : {"int", "bigint"}, v : {-1, 0, 12}]
           \cup [t : {"float"}, v : {<<49>>}] \cup [t : {"bool"}, v : BOOLEAN]
           \cup [t : {"ok", "null", "nullarray"}, v : {<<>>}]
           \cup [t : {"verbatim"}, v : {<<e, e, e, 58, LF>>, <<e, e, e, 58>>}]
A == BytesReply(<<CR, LF>>)
B == [t |-> "null", v |-> <<>>]
C == [t |-> "error", v |-> <<LF>>]
Pair == [t |-> "map", v |-> <<A, B>>]
AnyReply ==
  Simple1 \cup [t : {"array", "set", "push"}, v : {<<>>, <<A>>, <<A, Pair, C>>}]
  \cup [t : {"map", "attr"}, v : {<<>>, <<A, C>>, <<A, [t |-> "array", v |-> <<B, A>>], A, Pair>>}]
=============================================================================
