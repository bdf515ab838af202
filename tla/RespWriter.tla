----------------------------- MODULE RespWriter -----------------------------
(***************************************************************************)
(* The reply encoding of utils/go-resp/server.go: what each Write function *)
(* hands to the buffer, call by call, for RESP3 and for RESP2 clients.  A  *)
(* reply is a record [t |-> kind, v |-> value]; texts are byte sequences.  *)
(***************************************************************************)
EXTENDS Integers, Sequences, SequencesExt

CRLF == <<13, 10>>

MutSanitizeSimpleString(b) == [i \in 1 .. Len(b) |-> IF b[i] = 13 THEN 32 ELSE b[i]]

\* SanitizeSimpleString: a line break in a text becomes a space.
SanitizeSimpleString(b) == [i \in 1 .. Len(b) |-> IF b[i] \in {13, 10} THEN 32 ELSE b[i]]

\* strconv.AppendInt
RECURSIVE AppendInt(_)
AppendInt(i) ==
  IF i < 0 THEN <<45>> \o AppendInt(-i)
  ELSE IF i < 10 THEN <<48 + i>> ELSE Append(AppendInt(i \div 10), 48 + (i % 10))

\* writeWithType and writeWithPrefix, without and with a body: one call of write.
Simple(prefix, head) == <<prefix \o SanitizeSimpleString(head) \o CRLF>>
Bulk(type, body) == <<<<type>> \o AppendInt(Len(body)) \o CRLF \o body \o CRLF>>

WriteStatus(v) == Simple(<<43>>, v)
WriteError(v) == Simple(<<45, 69, 82, 82, 32>>, v)   \* "-ERR "
WriteOK == Simple(<<43, 79, 75>>, <<>>)
WriteBytes(v) == Bulk(36, v)
WriteInt(i) == Simple(<<58>>, AppendInt(i))
WriteArrayHeader(l) == Simple(<<42>>, AppendInt(l))

WriteNullString(resp2) == IF resp2 THEN Simple(<<36, 45, 49>>, <<>>) ELSE Simple(<<95>>, <<>>)
WriteNullArray(resp2) == IF resp2 THEN Simple(<<42, 45, 49>>, <<>>) ELSE Simple(<<95>>, <<>>)
WriteFloat(text, resp2) == IF resp2 THEN WriteBytes(text) ELSE Simple(<<44>>, text)
WriteBool(b, resp2) ==
  IF resp2 THEN WriteInt(IF b THEN 1 ELSE 0) ELSE Simple(<<35, IF b THEN 116 ELSE 102>>, <<>>)
WriteBlobError(v, resp2) == IF resp2 THEN WriteError(v) ELSE Bulk(33, v)
WriteVerbatim(v, resp2) ==
  IF ~resp2 THEN Bulk(61, v)
  ELSE WriteBytes(IF Len(v) >= 4 THEN SubSeq(v, 5, Len(v)) ELSE v)
WriteBigInt(i, resp2) == IF resp2 THEN WriteInt(i) ELSE Simple(<<40>>, AppendInt(i))

\* Headers of aggregates: a RESP2 client gets an array.
WriteMapHeader(l, resp2) ==
  IF resp2 THEN WriteArrayHeader(l * 2) ELSE Simple(<<37>>, AppendInt(l))
WriteSetHeader(l, resp2) == IF resp2 THEN WriteArrayHeader(l) ELSE Simple(<<126>>, AppendInt(l))
AttrHeader(l) == Simple(<<124>>, AppendInt(l))
PushHeader(l) == Simple(<<62>>, AppendInt(l))

\* WriteArray, WriteMap, WriteSet and their variants: the header, then the elements.  The
\* value of a map or an attribute lists its keys and values in turn.
WriteCollection(r, elements, resp2) ==
  CASE r.t = "array" -> WriteArrayHeader(Len(r.v)) \o elements
    [] r.t = "map" -> WriteMapHeader(Len(r.v) \div 2, resp2) \o elements
    [] r.t = "set" -> WriteSetHeader(Len(r.v), resp2) \o elements

\* WriteAttr, WritePush and their variants: nothing for a RESP2 client.
WriteOutOfBand(r, elements, resp2) ==
  CASE resp2 -> <<>>
    [] ~resp2 /\ r.t = "attr" -> AttrHeader(Len(r.v) \div 2) \o elements
    [] ~resp2 /\ r.t = "push" -> PushHeader(Len(r.v)) \o elements

\* Write: the calls of write in their order.
RECURSIVE Write(_, _)
Write(r, resp2) ==
  LET elements == FlattenSeq([i \in 1 .. Len(r.v) |-> Write(r.v[i], resp2)])
  IN  CASE r.t = "ok" -> WriteOK
        [] r.t = "status" -> WriteStatus(r.v)
        [] r.t = "error" -> WriteError(r.v)
        [] r.t = "bytes" -> WriteBytes(r.v)
        [] r.t = "int" -> WriteInt(r.v)
        [] r.t = "null" -> WriteNullString(resp2)
        [] r.t = "nullarray" -> WriteNullArray(resp2)
        [] r.t = "float" -> WriteFloat(r.v, resp2)
        [] r.t = "bool" -> WriteBool(r.v, resp2)
        [] r.t = "bloberror" -> WriteBlobError(r.v, resp2)
        [] r.t = "verbatim" -> WriteVerbatim(r.v, resp2)
        [] r.t = "bigint" -> WriteBigInt(r.v, resp2)
        [] r.t \in {"array", "map", "set"} -> WriteCollection(r, elements, resp2)
        [] r.t \in {"attr", "push"} -> WriteOutOfBand(r, elements, resp2)
=============================================================================
