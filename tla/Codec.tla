------------------------------- MODULE Codec -------------------------------
(***************************************************************************)
(* The binary encoding of a stored message (internal/storage/codec.go): a  *)
(* version byte, then length-prefixed strings and base-128 numbers.        *)
(* A byte is a number below 256; strings and payloads are byte sequences.  *)
(***************************************************************************)
EXTENDS Slices, SequencesExt

V1 == 1     \* messageEncodingV1: ID and queue are part of the value
V2 == 2     \* messageEncodingV2: they are part of the key only

\* The fields of a message that a value carries in either version.
Fields(Bytes, Headers, Numbers, Times) ==
  [payload : Bytes, headers : Headers, attempt : Numbers, publishedAt : Times,
   visibleAt : Times, orderingKey : Bytes, sequence : Numbers]

-----------------------------------------------------------------------------
(* encodeMessage.                                                           *)

\* binary.AppendUvarint: seven bits a byte, the lowest first, the top bit set
\* on all but the last.
uvarint[n \in Nat] ==
  IF n < 128 THEN <<n>> ELSE <<(n % 128) + 128>> \o uvarint[n \div 128]

AppendUvarint(n) == uvarint[n]

\* binary.AppendVarint: the sign in the lowest bit.
AppendVarint(i) == AppendUvarint(IF i >= 0 THEN 2 * i ELSE -2 * i - 1)

appendBytes(s) == AppendUvarint(Len(s)) \o s

\* The header pairs in the order o in which the map is visited.
appendHeaders(h, o) ==
  AppendUvarint(Len(o)) \o
    FlattenSeq([i \in DOMAIN o |-> appendBytes(o[i]) \o appendBytes(h[o[i]])])

encodeFields(m, o) ==
  appendBytes(m.payload) \o appendHeaders(m.headers, o) \o AppendUvarint(m.attempt)
    \o AppendVarint(m.publishedAt) \o AppendVarint(m.visibleAt)
    \o appendBytes(m.orderingKey) \o AppendUvarint(m.sequence)

encodeMessage(m, o) == <<V2>> \o encodeFields(m, o)

\* The size the buffer is made with.
uvarintSize(n) == Len(AppendUvarint(n))
varintSize(i)  == Len(AppendVarint(i))
bytesSize(s)   == uvarintSize(Len(s)) + Len(s)

encodedMessageSizeV2(m) ==
  1 + bytesSize(m.payload) + uvarintSize(Cardinality(DOMAIN m.headers))
    + MapThenSumSet(LAMBDA k : bytesSize(k) + bytesSize(m.headers[k]), DOMAIN m.headers)
    + uvarintSize(m.attempt) + varintSize(m.publishedAt) + varintSize(m.visibleAt)
    + bytesSize(m.orderingKey) + uvarintSize(m.sequence)

-----------------------------------------------------------------------------
(* decodeMessage.  A read takes what is left of the data and returns a      *)
(* value and the rest; once one read has failed, so do all that follow.     *)

Failed     == [ok |-> FALSE, value |-> 0, rest |-> << >>]
From(data) == [ok |-> TRUE, value |-> 0, rest |-> data]

\* Mutant: n < 0 for n <= 0, so a number that is cut off reads as 0.
readUvarintLenient(r) ==
  LET ends == {i \in DOMAIN r.rest : i <= 10 /\ r.rest[i] < 128}
      n    == Min(ends)
  IN  CASE ~r.ok     -> Failed
        [] ends = {} -> [ok |-> TRUE, value |-> 0, rest |-> r.rest]
        [] OTHER     -> [ok    |-> TRUE,
                         value |-> FoldRight(LAMBDA b, v : (b % 128) + 128 * v, SubSeq(r.rest, 1, n), 0),
                         rest  |-> SubSeq(r.rest, n + 1, Len(r.rest))]

\* binary.Uvarint: up to the first byte without the continuation bit, which
\* must be among the first ten.
readUvarint(r) ==
  LET ends == {i \in DOMAIN r.rest : i <= 10 /\ r.rest[i] < 128}
      n    == Min(ends)
  IN  IF ~r.ok \/ ends = {} THEN Failed
      ELSE [ok    |-> TRUE,
            value |-> FoldRight(LAMBDA b, v : (b % 128) + 128 * v, SubSeq(r.rest, 1, n), 0),
            rest  |-> SubSeq(r.rest, n + 1, Len(r.rest))]

readVarint(r) ==
  LET u == readUvarint(r)
  IN  [u EXCEPT !.value = IF @ % 2 = 0 THEN @ \div 2 ELSE -((@ + 1) \div 2)]

readBytes(r) ==
  LET n == readUvarint(r) IN
  IF ~n.ok \/ Len(n.rest) < n.value THEN Failed
  ELSE [ok    |-> TRUE,
        value |-> SubSeq(n.rest, 1, n.value),
        rest  |-> SubSeq(n.rest, n.value + 1, Len(n.rest))]

\* A key and its value; a key that comes again replaces the one before.
readHeader(r, i) ==
  LET k == readBytes(r)
      v == readBytes(k)
  IN  [v EXCEPT !.value = IF v.ok THEN (k.value :> @) @@ r.value ELSE @]

readHeaders(r) ==
  LET count == readUvarint(r)
  IN  IF ~count.ok THEN Failed
      ELSE FoldLeft(readHeader, [count EXCEPT !.value = << >>], [i \in 1 .. count.value |-> i])

\* The fields in the order in which they are read.
FieldNames ==
  <<"payload", "headers", "attempt", "publishedAt", "visibleAt", "orderingKey", "sequence">>

readField(name, r) ==
  CASE name \in {"payload", "orderingKey"}       -> readBytes(r)
    [] name = "headers"                          -> readHeaders(r)
    [] name \in {"attempt", "sequence"}          -> readUvarint(r)
    [] name \in {"publishedAt", "visibleAt"}     -> readVarint(r)

decodeMessageFields(r) ==
  FoldLeft(LAMBDA msg, name :
             LET field == readField(name, msg)
             IN  [field EXCEPT !.value = (name :> @) @@ msg.value],
           [r EXCEPT !.value = << >>], FieldNames)

\* The ID and the queue of V1 are read and replace those of the key.
decodeMessageV1(data) == decodeMessageFields(readBytes(readBytes(From(data))))
decodeMessageV2(data) == decodeMessageFields(From(data))

decodeMessage(data) ==
  CASE data = << >>      -> Failed
    [] Head(data) = V1   -> decodeMessageV1(Tail(data))
    [] Head(data) = V2   -> decodeMessageV2(Tail(data))
    [] OTHER             -> Failed    \* the JSON of early versions, not modelled

-----------------------------------------------------------------------------
(* Properties.                                                              *)

\* The values SaveMessage may store for m: Go visits the headers in any order.
Encodings(m) == {encodeMessage(m, o) : o \in MapOrders(DOMAIN m.headers)}

\* What LoadMessages decodes is what SaveMessage encoded, in whichever order
\* the headers were written; a V1 value with the same fields is read too.
RoundTrip(m) ==
  \A data \in Encodings(m) :
    /\ decodeMessage(data).value = m
    /\ decodeMessage(<<V1>> \o appendBytes(<<49>>) \o appendBytes(<< >>) \o Tail(data)).value = m

\* The buffer of encodeMessage is made in the exact size: no append copies it.
SizeExact(m) == \A data \in Encodings(m) : Len(data) = encodedMessageSizeV2(m)

\* A value cut off anywhere is refused; no field is silently shortened or zero.
CutOffRefused(m) ==
  \A data \in Encodings(m) : \A n \in 0 .. Len(data) - 1 : ~decodeMessage(SubSeq(data, 1, n)).ok
=============================================================================
