--------------------------- MODULE RespConnection ---------------------------
(***************************************************************************)
(* A client connection of a standalone server: the request parser, the     *)
(* loop of handleConnection (cmd/ember-server/main.go), the replies it     *)
(* writes into the connection's buffer, and the goroutine of a             *)
(* subscription, which writes messages into the same buffer.               *)
(***************************************************************************)
EXTENDS RespReader, RespWriter

CONSTANTS WriterSize,         \* limit of the buffer, above which a write is split
          Resp2Scripts,       \* scripts that RESP2 clients send as well
          MaxMessages,        \* bound on the messages of the subscription
          Message,            \* the text of a message
          Echo, Ping, Subscribe, Data,   \* command names; Data stands for all others
          Replies             \* what the handlers of Data reply

VARIABLES hpc,          \* the handler is in "next", "write", "close" or "done"
          resp2compat,  \* the protocol version of the connection
          werr,         \* a write has failed
          pending,      \* replies the command's handler has still to begin
          todo,         \* calls of write it has still to make for the current one
          subscribed,   \* the goroutine of a subscription runs
          replies,      \* history: replies begun and messages written, in order
          overlap,      \* history: a message was written within a reply
          out           \* history: bytes the buffer has accepted

handlerVars == <<hpc, resp2compat, werr, pending, todo, subscribed, replies, overlap, out>>
allVars == <<vars, handlerVars>>

ConnInit ==
  /\ Init
  /\ resp2compat \in BOOLEAN /\ (resp2compat => script \in Resp2Scripts)
  /\ hpc = "next" /\ werr = FALSE
  /\ pending = <<>> /\ todo = <<>>
  /\ subscribed = FALSE /\ replies = <<>> /\ overlap = FALSE /\ out = <<>>
-----------------------------------------------------------------------------
(* The handler *)

\* BytesToLower
BytesToLower(b) == [i \in 1 .. Len(b) |-> IF b[i] \in 65 .. 90 THEN b[i] + 32 ELSE b[i]]

BytesReply(b) == [t |-> "bytes", v |-> b]
ErrorReply(b) == [t |-> "error", v |-> b]

\* handleEcho
EchoReply(as) ==
  CASE Len(as) = 0 -> ErrorReply(<<>>)
    [] Len(as) = 1 -> BytesReply(as[1])
    [] OTHER -> [t |-> "array", v |-> [i \in 1 .. Len(as) |-> BytesReply(as[i])]]

OkReply == [t |-> "ok", v |-> <<>>]

\* What a command may be answered with, reply by reply; texts of errors are cut down to
\* the command's name.  SUBSCRIBE says OK for each channel.  A command of the data types
\* mostly sends one reply, but INCR, DECR, INCRBY and DECRBY of a text send an error and
\* then OK, and DEL of several keys an error for each one that is missing and then OK.
Answers(cmd) ==
  LET name == BytesToLower(cmd[1])
      count == Len(cmd) - 1
      errors(k) == [i \in 1 .. k |-> ErrorReply(name)]
  IN  CASE name = Echo -> {<<EchoReply(Tail(cmd))>>}
        [] name = Ping -> {<<[t |-> "status", v |-> Ping]>>}
        [] name = Subscribe /\ count > 0 -> {[i \in 1 .. count |-> OkReply]}
        [] name = Data -> {<<r>> : r \in Replies}
                          \cup {Append(errors(k), OkReply) : k \in 1 .. count}
        [] OTHER -> {errors(1)}

\* Next returned a command; its handler runs.
Handle ==
  /\ hpc = "next" /\ rpc = "return"
  /\ pending' \in Answers(args)
  /\ subscribed' = (subscribed \/ (BytesToLower(args[1]) = Subscribe /\ Len(args) > 1))
  /\ hpc' = "write"
  /\ UNCHANGED <<resp2compat, werr, todo, replies, overlap, out, vars>>

\* The handler calls a Write function, which makes some calls of write.
BeginReply ==
  /\ pending # <<>> /\ todo = <<>>
  /\ replies' = Append(replies, Head(pending))
  /\ todo' = Write(Head(pending), resp2compat)
  /\ pending' = Tail(pending)
  /\ UNCHANGED <<hpc, resp2compat, werr, subscribed, overlap, out, vars>>

\* Next returned an error: CloseWithError.
HandleError ==
  /\ hpc = "next" /\ rpc = "failed"
  /\ pending' = <<ErrorReply(<<>>)>>
  /\ hpc' = "close"
  /\ UNCHANGED <<resp2compat, werr, todo, subscribed, replies, overlap, out, vars>>

\* write: the buffer takes the bytes of one call.
WriteChunk ==
  /\ todo # <<>> /\ ~werr
  /\ out' = out \o Head(todo)
  /\ todo' = Tail(todo)
  /\ UNCHANGED <<hpc, resp2compat, werr, pending, subscribed, replies, overlap, vars>>

\* write: the socket has failed; parts of a chunk above the limit may have been taken.
WriteFails ==
  /\ todo # <<>> /\ ~werr
  /\ \E k \in {j \in 0 .. Len(Head(todo)) - 1 : j % WriterSize = 0} :
       out' = out \o SubSeq(Head(todo), 1, k)
  /\ werr' = TRUE
  /\ todo' = Tail(todo)
  /\ UNCHANGED <<hpc, resp2compat, pending, subscribed, replies, overlap, vars>>

\* write after an error: every later call returns it at once.
WriteRefused ==
  /\ todo # <<>> /\ werr
  /\ todo' = <<>>
  /\ UNCHANGED <<hpc, resp2compat, werr, pending, subscribed, replies, overlap, out, vars>>

\* The handler returns and the loop calls Next.
NextCommand ==
  /\ hpc = "write" /\ pending = <<>> /\ todo = <<>>
  /\ hpc' = "next"
  /\ Resume
  /\ UNCHANGED <<resp2compat, werr, pending, todo, subscribed, replies, overlap, out>>

\* Close has returned and handleConnection ends.
CloseDone ==
  /\ hpc = "close" /\ pending = <<>> /\ todo = <<>>
  /\ hpc' = "done"
  /\ UNCHANGED <<resp2compat, werr, pending, todo, subscribed, replies, overlap, out, vars>>

IsMessage(r) == r.t = "message"

\* The goroutine of the subscription: WriteString, one call of write.
PushMessage ==
  /\ subscribed /\ hpc # "done"
  /\ Len(SelectSeq(replies, IsMessage)) < MaxMessages
  /\ replies' = Append(replies, [t |-> "message", v |-> Message])
  /\ overlap' = (overlap \/ todo # <<>>)
  /\ out' = IF werr THEN out ELSE out \o WriteBytes(Message)[1]
  /\ UNCHANGED <<hpc, resp2compat, werr, pending, todo, subscribed, vars>>

\* One goroutine reads and handles the commands of a connection.
HandlerStep ==
  \/ ReaderStep /\ UNCHANGED handlerVars
  \/ Handle \/ HandleError \/ BeginReply \/ WriteChunk \/ WriteFails
  \/ WriteRefused \/ NextCommand \/ CloseDone
Finished == hpc = "done" /\ UNCHANGED allVars

ConnNext ==
  \/ ClientStep /\ UNCHANGED handlerVars
  \/ HandlerStep
  \/ PushMessage
  \/ Finished

Fairness ==
  /\ WF_allVars(Deliver /\ UNCHANGED handlerVars)
  /\ WF_allVars(HandlerStep)
ConnSpec == ConnInit /\ [][ConnNext]_allVars /\ Fairness
-----------------------------------------------------------------------------
(* The client's reader, as the RESP specification has it *)

\* Where the line that starts at i ends, 0 if it has no end yet.
LineStop(b, i) ==
  LET stops == {j \in i .. Len(b) - 1 : b[j] = CR /\ b[j + 1] = LF}
  IN  IF stops = {} THEN 0 ELSE Min(stops)

Text(b, i) == SubSeq(b, i + 1, LineStop(b, i) - 1)
Incomplete == [ok |-> FALSE]
Value(t, v, next) == [ok |-> TRUE, val |-> [t |-> t, v |-> v], next |-> next]

\* The integer a text stands for.
Int10(text) ==
  LET neg == text # <<>> /\ text[1] = Minus
      abs == FoldLeft(LAMBDA a, c : a * 10 + Digit(c), 0, IF neg THEN Tail(text) ELSE text)
  IN  IF neg THEN -abs ELSE abs

RECURSIVE ReadValue(_, _), ReadValues(_, _, _, _)
\* k values from position i on, after those of acc.
ReadValues(b, i, k, acc) ==
  IF k = 0 THEN [ok |-> TRUE, vals |-> acc, next |-> i]
  ELSE LET r == ReadValue(b, i)
       IN  IF r.ok THEN ReadValues(b, r.next, k - 1, Append(acc, r.val)) ELSE Incomplete

ReadValue(b, i) ==
  IF i > Len(b) \/ LineStop(b, i) = 0 THEN Incomplete
  ELSE LET type == b[i]
           next == LineStop(b, i) + 2
           len == Int10(Text(b, i))
           items == ReadValues(b, next, IF type \in {37, 124} THEN 2 * len ELSE len, <<>>)
       IN  CASE type \in {36, 33, 61} /\ len >= 0 ->      \* $ ! =
                  IF next + len + 1 > Len(b) THEN Incomplete
                  ELSE Value(type, SubSeq(b, next, next + len - 1), next + len + 2)
             [] type \in {42, 126, 62, 37, 124} /\ len >= 0 ->   \* * ~ > % |
                  IF items.ok THEN Value(type, items.vals, items.next) ELSE Incomplete
             [] type \in {36, 42} /\ len < 0 -> Value(95, <<>>, next)
             [] type \in {58, 40} -> Value(type, len, next)      \* : (
             [] OTHER -> Value(type, Text(b, i), next)

\* All complete values in b, and whether bytes are left over.
RECURSIVE ReadAll(_, _, _)
ReadAll(b, i, acc) ==
  LET r == ReadValue(b, i)
  IN  IF r.ok THEN ReadAll(b, r.next, Append(acc, r.val))
              ELSE [vals |-> acc, rest |-> i <= Len(b)]

OneLine(b) == [i \in 1 .. Len(b) |-> IF b[i] = CR \/ b[i] = LF THEN 32 ELSE b[i]]

\* What a reply should look like to the client (comments of server.go:526-908).
RECURSIVE Seen(_, _)
Seen(r, resp2) ==
  LET items == [i \in 1 .. Len(r.v) |-> Seen(r.v[i], resp2)]
      text == OneLine(r.v)
      bulk == [t |-> 36, v |-> r.v]
      by(t3, t2, v) == [t |-> IF resp2 THEN t2 ELSE t3, v |-> v]
  IN  CASE r.t = "ok" -> [t |-> 43, v |-> <<79, 75>>]
        [] r.t = "message" -> bulk
        [] r.t = "status" -> [t |-> 43, v |-> text]
        [] r.t = "error" -> [t |-> 45, v |-> <<69, 82, 82, 32>> \o text]
        [] r.t = "bytes" -> bulk
        [] r.t = "int" -> [t |-> 58, v |-> r.v]
        [] r.t \in {"null", "nullarray"} -> [t |-> 95, v |-> <<>>]
        [] r.t = "float" -> by(44, 36, r.v)
        [] r.t = "bool" -> IF resp2 THEN [t |-> 58, v |-> IF r.v THEN 1 ELSE 0]
                                    ELSE [t |-> 35, v |-> <<IF r.v THEN 116 ELSE 102>>]
        [] r.t = "bloberror" -> IF resp2 THEN [t |-> 45, v |-> <<69, 82, 82, 32>> \o text]
                                         ELSE [t |-> 33, v |-> r.v]
        [] r.t = "verbatim" -> by(61, 36, IF resp2 THEN SubSeq(r.v, 5, Len(r.v)) ELSE r.v)
        [] r.t = "bigint" -> by(40, 58, r.v)
        [] r.t = "array" -> [t |-> 42, v |-> items]
        [] r.t = "map" -> by(37, 42, items)
        [] r.t = "set" -> by(126, 42, items)
        [] r.t = "attr" -> [t |-> 124, v |-> items]
        [] r.t = "push" -> [t |-> 62, v |-> items]

\* A RESP2 client gets neither attributes nor pushes.
Visible(rs) ==
  LET shown == SelectSeq(rs, LAMBDA r : ~(resp2compat /\ r.t \in {"attr", "push"}))
  IN  [i \in 1 .. Len(shown) |-> Seen(shown[i], resp2compat)]
-----------------------------------------------------------------------------
(* Properties *)

\* The client reads back the replies and messages that were written (server.go:457-940,
\* commands_pubsub.go:36), one value each, whatever they contain and wherever a write
\* fails; between two replies there is nothing left over that would be read as part of
\* the next reply.  This needs that no message is written while the handler is within
\* a Write function, which the library rules out and the server does not prevent.
RepliesDecode ==
  LET in == ReadAll(out, 1, <<>>)
  IN  ~overlap =>
        /\ IsPrefix(in.vals, Visible(replies))
        /\ todo = <<>> /\ ~werr => in.vals = Visible(replies) /\ ~in.rest

OwnReplies == SelectSeq(replies, LAMBDA r : ~IsMessage(r))

\* The number of commands the handlers have taken on.
Handled == Len(got) - IF hpc = "next" /\ rpc = "return" THEN 1 ELSE 0

\* The streams of replies to some commands.
Streams(cmds) ==
  FoldLeft(LAMBDA S, cmd : {s \o a : s \in S, a \in Answers(cmd)}, {<<>>}, cmds)

\* From end to end: the replies of a connection are the answers to the commands the
\* client sent, in their order and with the arguments it sent, all replies of one
\* before the first of the next, and last of all the error that ends the connection
\* (main.go:64-70).
AnswersMatch ==
  LET cmds == Commands(sent)
      mine == OwnReplies \o pending
      ended == hpc \in {"close", "done"}
  IN  /\ Handled <= Len(cmds)
      /\ ended => Last(mine) = ErrorReply(<<>>)
      /\ (IF ended THEN Front(mine) ELSE mine) \in Streams(SubSeq(cmds, 1, Handled))

\* A whole request that keeps the rules is answered completely, however it was cut into
\* fragments, without waiting for more bytes (server.go:250, 291: the parser peeks
\* ahead), unless the connection ends or an earlier request was bad; and when the
\* client is gone, by its own choice or not, the handler ends (main.go:66-69).  The
\* client is one that takes the bytes it is sent.
RequestsAnswered ==
  /\ (left = <<>> /\ \A i \in DOMAIN sent : ~sent[i].bad)
       ~> (conn # "open" \/ left # <<>> \/ (hpc = "next" /\ Handled = Len(Commands(sent))))
  /\ conn # "open" ~> hpc = "done"
=============================================================================
