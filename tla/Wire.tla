-------------------------------- MODULE Wire --------------------------------
(***************************************************************************)
(* The formats at the edge of the process, as functions of their input:    *)
(* frames (internal/protocol/frame.go), the payloads the clients encode    *)
(* and decode by hand (client_codec.go, publish_response.go), and what is  *)
(* parsed from the command line (cmd/qwer-q/serve.go, cluster/raft.go).    *)
(*                                                                         *)
(* Sizes are scaled down: the limits of frames and messages, the sizes of  *)
(* the pooled buffers and the width of integers are small numbers here, in *)
(* the order of the ones in the code.                                      *)
(***************************************************************************)
EXTENDS Codec

OpCodes ==
  [Publish |-> 1, PublishAck |-> 2, Consume |-> 3, Message |-> 4, Ack |-> 5, Nack |-> 6, Error |-> 7,
   ExtendVisibility |-> 8, ExtAck |-> 9, Heartbeat |-> 10, Unsubscribe |-> 11, HeartbeatAck |-> 12,
   SchemaRegister |-> 16, SchemaGet |-> 17, SchemaResponse |-> 18, Call |-> 32, CallResponse |-> 33,
   SchemaList |-> 48, SchemaListResp |-> 49, QueueList |-> 50, QueueListResp |-> 51,
   Auth |-> 64, AuthResponse |-> 65, Seek |-> 80, CommitOffset |-> 81, SeekAck |-> 82,
   CommitOffsetAck |-> 83, StreamMessage |-> 84]

-----------------------------------------------------------------------------
(* Frames.                                                                  *)

ProtocolVersion == 1
MaxFrameSize    == 40   \* 16 MB in the code
MaxMessageSize  == 8    \* 1 MB, unless the command line sets it

PutUint32(n) == <<n \div 2^24, (n \div 2^16) % 256, (n \div 256) % 256, n % 256>>
Uint32(b)    == b[1] * 2^24 + b[2] * 2^16 + b[3] * 256 + b[4]

EncodeFrame(op, payload) == PutUint32(2 + Len(payload)) \o <<ProtocolVersion, op>> \o payload

\* WriteFrame writes the header and the payload one after the other.
WriteFrame(op, payload) ==
  LET header == PutUint32(2 + Len(payload)) \o <<ProtocolVersion, op>> IN header \o payload

Refused(err) == [ok |-> FALSE, err |-> err, op |-> 0, payload |-> << >>, rest |-> << >>]

\* Mutant: the length is taken for that of the payload.
DecodeFrameLong(r) ==
  IF Len(r) < 4 THEN Refused("eof")
  ELSE LET length == Uint32(r) IN
       CASE length > MaxFrameSize       -> Refused("frame too large")
         [] length < 2                  -> Refused("frame too small")
         [] length > MaxMessageSize     -> Refused("message too large")
         [] Len(r) - 4 < length         -> Refused("eof")
         [] OTHER -> [ok |-> TRUE, err |-> "", op |-> r[6],
                      payload |-> SubSeq(r, 7, 4 + length), rest |-> SubSeq(r, 5 + length, Len(r))]

\* DecodeFrame of what is left to read: the limits are checked before anything is
\* allocated, and what follows a refused frame is not read any more.
DecodeFrame(r) ==
  IF Len(r) < 4 THEN Refused("eof")
  ELSE LET length == Uint32(r) IN
       CASE length > MaxFrameSize       -> Refused("frame too large")
         [] length < 2                  -> Refused("frame too small")
         [] length - 2 > MaxMessageSize -> Refused("message too large")
         [] Len(r) - 4 < length         -> Refused("eof")
         [] OTHER -> [ok |-> TRUE, err |-> "", op |-> r[6],
                      payload |-> SubSeq(r, 7, 4 + length), rest |-> SubSeq(r, 5 + length, Len(r))]

\* The frames a reader gets from stream r before the first error, at most n.
ReadAll(r, n) ==
  LET after[i \in 0 .. n] == IF i = 0 THEN [ok |-> TRUE, rest |-> r, got |-> << >>]
        ELSE LET b == after[i - 1]
                 f == DecodeFrame(b.rest) IN
             IF b.ok /\ f.ok THEN [ok |-> TRUE, rest |-> f.rest, got |-> Append(b.got, <<f.op, f.payload>>)]
             ELSE [b EXCEPT !.ok = FALSE]
  IN  after[n].got

\* A reader gets the frames that were written, in order, up to the first that is
\* too large or that the end of the connection cuts off; never another one.
FramesExact(fs, cut) ==
  LET wire(i) == IF i = 1 THEN EncodeFrame(fs[i][1], fs[i][2]) ELSE WriteFrame(fs[i][1], fs[i][2])
      whole   == FoldLeft(LAMBDA b, i : b \o wire(i), << >>, [i \in DOMAIN fs |-> i])
      end(i)  == FoldLeft(LAMBDA n, j : n + Len(wire(j)), 0, [j \in 1 .. i |-> j])
      good    == {i \in 0 .. Len(fs) : end(i) <= cut /\ \A j \in 1 .. i : Len(fs[j][2]) <= MaxMessageSize}
  IN  ReadAll(SubSeq(whole, 1, Min({cut, Len(whole)})), Len(fs) + 1) = SubSeq(fs, 1, Max(good))

\* Sizes of the pooled buffers: 1, 16, 64 and 256 KB.
Classes == <<4, 8, 16, 32>>

\* The pool for a size, 0 if there is none.
PoolOf(size) == IF size > Classes[4] THEN 0 ELSE Min({k \in DOMAIN Classes : size <= Classes[k]})

\* getBuffer: the capacity of the buffer, of which size bytes are used; pooled[k]
\* is the capacity of what pool k hands out.
getBuffer(size, pooled) ==
  LET k == PoolOf(size) IN IF k # 0 /\ pooled[k] >= size THEN pooled[k] ELSE size

\* PutBuffer: the pools after a buffer has come back, all or without its header.
PutBuffer(capacity, pooled) ==
  LET k == PoolOf(capacity) IN IF k = 0 THEN pooled ELSE [pooled EXCEPT ![k] = capacity]

\* A buffer is as long as the frame even if the pools hold shorter ones, and goes
\* back to a pool of buffers no longer than its class.
BuffersFit(size, dropped) ==
  LET first  == getBuffer(size, Classes)
      pooled == PutBuffer(first - dropped, Classes) IN
  /\ getBuffer(size, pooled) >= size
  /\ \A k \in DOMAIN Classes : pooled[k] <= Classes[k]

-----------------------------------------------------------------------------
(* Payloads.                                                                *)

bytesField(tag, s)  == <<tag>> \o appendBytes(s)
numberField(tag, n) == IF n = 0 THEN << >> ELSE <<tag>> \o AppendUvarint(n)

EncodeSimplePublishRequestPayload(queue, payload) == bytesField(10, queue) \o bytesField(18, payload)

EncodeSimpleConsumeRequestPayload(queue, prefetch, visibilityTimeout) ==
  bytesField(10, queue) \o numberField(16, prefetch) \o numberField(24, visibilityTimeout)

EncodeAckRequestPayload(messageID) == bytesField(10, messageID)

EncodePublishResponsePayload(messageID) == bytesField(10, messageID)

\* The fields of a protobuf message, by number; the last of several counts.  The
\* wire type is in the low three bits of a tag: 0 a number, 2 bytes.
Unmarshal(data) ==
  LET after[i \in 0 .. 4] == IF i = 0 THEN [in |-> From(data), fields |-> << >>]
        ELSE LET b == after[i - 1] IN
             IF ~b.in.ok \/ b.in.rest = << >> THEN b
             ELSE LET tag == readUvarint(b.in)
                      v   == IF tag.ok /\ tag.value % 8 = 2 THEN readBytes(tag)
                             ELSE IF tag.ok /\ tag.value % 8 = 0 THEN readUvarint(tag) ELSE Failed
                  IN  [in |-> v, fields |-> IF v.ok THEN ((tag.value \div 8) :> v.value) @@ b.fields ELSE b.fields]
  IN  [ok |-> after[4].in.ok /\ after[4].in.rest = << >>, fields |-> after[4].fields]

Field(fields, k, zero) == IF k \in DOMAIN fields THEN fields[k] ELSE zero

\* DecodePublishResponsePayload.  A length of 2^63 or more would be negative here,
\* which no payload is long enough to match.
DecodePublishResponsePayload(payload) ==
  IF payload = << >> THEN [ok |-> TRUE, id |-> << >>]
  ELSE LET length == readUvarint(From(Tail(payload))) IN
       IF payload[1] = 10 /\ length.ok /\ length.value = Len(length.rest)
         THEN [ok |-> TRUE, id |-> length.rest]
         ELSE [ok |-> FALSE, id |-> << >>]

\* The server reads in a request what the client put in, zeros included.
RequestsExact(queue, payload, prefetch, timeout) ==
  LET p == Unmarshal(EncodeSimplePublishRequestPayload(queue, payload))
      c == Unmarshal(EncodeSimpleConsumeRequestPayload(queue, prefetch, timeout))
      a == Unmarshal(EncodeAckRequestPayload(queue)) IN
  /\ p.ok /\ p.fields[1] = queue /\ p.fields[2] = payload
  /\ c.ok /\ c.fields[1] = queue /\ Field(c.fields, 2, 0) = prefetch /\ Field(c.fields, 3, 0) = timeout
  /\ a.ok /\ a.fields[1] = queue

\* The fast path agrees with the decoder it replaces on everything it accepts, and
\* accepts everything the server writes.
FastPathAgrees(data) ==
  /\ DecodePublishResponsePayload(EncodePublishResponsePayload(data)) = [ok |-> TRUE, id |-> data]
  /\ LET fast == DecodePublishResponsePayload(data)
         slow == Unmarshal(data) IN
     fast.ok => slow.ok /\ fast.id = Field(slow.fields, 1, << >>)

-----------------------------------------------------------------------------
(* Descriptors: a set of files, where imports[f] are the files f imports.   *)

\* collect adds f and what it reaches to the files found so far.
RECURSIVE collect(_, _, _)
collect(imports, files, f) ==
  IF f \in files THEN files
  ELSE FoldSet(LAMBDA g, found : collect(imports, found, g), files \cup {f}, imports[f])

schemaDescriptorSet(imports, f) == collect(imports, {}, f)

\* parseDescriptor: every import must be there, and the file of the message type.
parseDescriptor(imports, files, f) == (\A g \in files : imports[g] \subseteq files) /\ f \in files

\* What the client collects for a message type the server can parse, and it is
\* not more than the type needs, however imports share files.
DescriptorExact(imports, f) ==
  LET found == schemaDescriptorSet(imports, f) IN
  /\ parseDescriptor(imports, found, f)
  /\ \A files \in SUBSET found \ {found} : ~parseDescriptor(imports, files, f)

-----------------------------------------------------------------------------
(* The command line.                                                        *)

Kilo      == 4          \* 1024
MaxUint32 == 2^8 - 1    \* 2^32 - 1
MinInt    == -(2^11)    \* -2^63

Wrap(x) == ((x - MinInt) % (-2 * MinInt)) + MinInt

Units == [B |-> 1, K |-> Kilo, M |-> Kilo * Kilo, G |-> Kilo * Kilo * Kilo]

SizeError == [ok |-> FALSE, size |-> 0]

\* parseSize of a number with a suffix, which is a unit or unknown.
parseSize(number, suffix) ==
  IF number < 0 \/ suffix \notin DOMAIN Units THEN SizeError
  ELSE LET size == Wrap(number * Units[suffix]) IN
       IF size > MaxUint32 THEN SizeError ELSE [ok |-> TRUE, size |-> size]

\* A size that is accepted is the one written, and one that fits is accepted, as
\* long as the product does not leave int64.
SizeExact32(number, suffix) ==
  LET r == parseSize(number, suffix)
      n == number * Units[suffix] IN
  n < -MinInt => (r.ok <=> (0 <= n /\ n <= MaxUint32)) /\ (r.ok => r.size = n)

Eq == 61   \* '='

\* parsePeer splits at the first '='; both parts must be there.
parsePeer(peer) ==
  LET eqs == {i \in DOMAIN peer : peer[i] = Eq}
      i   == Min(eqs) IN
  IF eqs = {} \/ i \in {1, Len(peer)} THEN [ok |-> FALSE, id |-> << >>, addr |-> << >>]
  ELSE [ok |-> TRUE, id |-> SubSeq(peer, 1, i - 1), addr |-> SubSeq(peer, i + 1, Len(peer))]

\* The first configuration of a cluster: this node, then its peers; what cannot
\* be parsed and this node itself are passed over.
Servers(self, peers) ==
  LET valid == SelectSeq(peers, LAMBDA p : parsePeer(p).ok /\ parsePeer(p).id # self)
  IN  <<self>> \o [i \in DOMAIN valid |-> parsePeer(valid[i]).id]

\* Every well-formed peer but this node is in the configuration, under the ID and
\* the address that were written.
PeersExact(self, id, addr) ==
  LET peer == id \o <<Eq>> \o addr IN
  id # << >> /\ addr # << >> /\ Eq \notin Range(id) =>
    /\ parsePeer(peer) = [ok |-> TRUE, id |-> id, addr |-> addr]
    /\ Servers(self, <<addr, peer>>) =
         <<self>> \o (IF parsePeer(addr).ok /\ parsePeer(addr).id # self THEN <<parsePeer(addr).id>> ELSE << >>)
                  \o (IF id # self THEN <<id>> ELSE << >>)
=============================================================================
