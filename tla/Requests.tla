------------------------------ MODULE Requests ------------------------------
(***************************************************************************)
(* Requests and answers of a connection: the Go client (pkg/client), which *)
(* has one call under way at a time, the TypeScript client                 *)
(* (clients/typescript), which has many, and the handlers of the server    *)
(* (internal/broker/server.go) with the schema registry they consult.      *)
(*                                                                         *)
(* Frames carry no request number: a client takes the next frame for the   *)
(* answer to its oldest request.  The frames here remember in r whose      *)
(* answer they are, which no client can see.                               *)
(*                                                                         *)
(* One queue.  Its messages are pending or in flight; which consumer holds *)
(* what is the matter of Queue and Session.  A payload is the set of the   *)
(* descriptors under which it can be unmarshalled.                         *)
(***************************************************************************)
EXTENDS Naturals, Sequences, FiniteSets, FiniteSetsExt, SequencesExt

CONSTANTS
  GoConns,      \* connections of the Go client
  TsConns,      \* connections of the TypeScript client
  Descriptors,  \* valid descriptors
  Invalid,      \* a descriptor that cannot be parsed, or lacks the type
  Payloads,     \* sets of descriptors
  Queries,      \* the requests whose handlers change nothing here
  Mixes,        \* sets of kinds of requests; the clients keep to one of them
  MaxRequests,  \* bound on the requests of all connections
  MaxPushed     \* no message is pushed to a connection with so many frames to read

Clients    == GoConns \cup TsConns
Requests == 1 .. MaxRequests

\* What a handler may answer, by request; every answer is one frame.
handleExtendVisibility == {"extendAck", "error"}
handleCall             == {"callResponse", "error"}
handleSchemaList       == {"schemaListResp"}

Answers == [extend |-> handleExtendVisibility, call |-> handleCall,
            schemaList |-> handleSchemaList, queueList |-> {"queueListResp"}]

\* The answer _sendAndWait expects.
Expected == [publish |-> "publishAck", register |-> "schemaResponse", extend |-> "extendAck",
             call |-> "callResponse", schemaList |-> "schemaListResp", queueList |-> "queueListResp"]

Idle == [op |-> "none"]

VARIABLES
  strict,      \* the schema mode of the server
  mix,         \* the kinds of requests the clients make
  link,        \* where the client is with its connection
  closing,     \* this.closing of the TypeScript client
  up,          \* frames to the server
  down,        \* frames to the client
  waiting,     \* this.pending, or the one call of the Go client
  loop,        \* the Go client is in Consume; the other has a handler
  handling,    \* the Go client is in the handler of Consume
  serving,     \* the publish a connection's goroutine is working on
  subscribed,  \* the connection has a delivery goroutine
  schema,      \* the registry's entry for the queue
  pending,     \* messages in the queue ...
  inFlight,    \* ... and in flight
  issued,      \* number of requests so far
  registered,  \* the requests behind the versions of the schema (history)
  accepted,    \* the publishes accepted, with what was registered (history)
  refused,     \* an ack or a nack of this connection got an answer (history)
  wrong        \* a call took the answer to another request (history)

clientVars  == <<link, closing, waiting, loop, handling>>
wires       == <<up, down>>
serverVars  == <<serving, subscribed, schema, pending, inFlight>>
seen        == <<registered, accepted, refused, wrong>>
requestVars == <<strict, mix, clientVars, wires, serverVars, issued, seen>>

RequestsTypeOK ==
  /\ strict \in BOOLEAN
  /\ link \in [Clients -> {"down", "timer", "dialing", "redialing", "up"}]
  /\ closing \in [Clients -> BOOLEAN]
  /\ \A c \in Clients : \A i \in DOMAIN waiting[c] : waiting[c][i].r \in Requests
  /\ \A c \in GoConns : Len(waiting[c]) <= 1
  /\ loop \in [Clients -> BOOLEAN] /\ handling \in [Clients -> BOOLEAN]
  /\ \A c \in Clients : serving[c] # Idle => serving[c].stage \in {"get", "validate", "apply"}
  /\ subscribed \in [Clients -> BOOLEAN]
  /\ schema \in [version : Nat, descriptor : Descriptors \cup {Invalid}]
  /\ pending \subseteq Requests /\ inFlight \subseteq Requests /\ pending \cap inFlight = {}
  /\ issued \in 0 .. MaxRequests

RequestsInit ==
  /\ strict \in BOOLEAN /\ mix \in Mixes
  /\ link = [c \in Clients |-> "down"] /\ closing = [c \in Clients |-> FALSE]
  /\ up = [c \in Clients |-> << >>] /\ down = [c \in Clients |-> << >>]
  /\ waiting = [c \in Clients |-> << >>]
  /\ loop = [c \in Clients |-> FALSE] /\ handling = [c \in Clients |-> FALSE]
  /\ serving = [c \in Clients |-> Idle] /\ subscribed = [c \in Clients |-> FALSE]
  /\ schema = [version |-> 0, descriptor |-> Invalid]
  /\ pending = {} /\ inFlight = {} /\ issued = 0
  /\ registered = << >> /\ accepted = {}
  /\ refused = [c \in Clients |-> FALSE] /\ wrong = FALSE

-----------------------------------------------------------------------------
(* Clients: connecting and closing.                                         *)

\* Both ends drop what they know of the connection.
Cut(c) ==
  /\ up' = [up EXCEPT ![c] = << >>] /\ down' = [down EXCEPT ![c] = << >>]
  /\ waiting' = [waiting EXCEPT ![c] = << >>]
  /\ handling' = [handling EXCEPT ![c] = FALSE]
  /\ serving' = [serving EXCEPT ![c] = Idle]
  /\ subscribed' = [subscribed EXCEPT ![c] = FALSE]
  /\ refused' = [refused EXCEPT ![c] = FALSE]
  /\ UNCHANGED <<strict, mix, schema, pending, inFlight, issued, registered, accepted, wrong>>

Goes(c, s) == link' = [link EXCEPT ![c] = s]

Dial(c) ==
  /\ c \in GoConns /\ link[c] = "down"
  /\ Goes(c, "up")
  /\ UNCHANGED <<strict, mix, closing, waiting, loop, handling, wires, serverVars, issued, seen>>

\* Close of the Go client, or the connection breaks under it: the call and the
\* loop return an error.
GoClose(c) ==
  /\ c \in GoConns /\ link[c] = "up"
  /\ Goes(c, "down") /\ loop' = [loop EXCEPT ![c] = FALSE]
  /\ Cut(c)
  /\ UNCHANGED closing

connect(c) ==
  /\ c \in TsConns /\ link[c] = "down"
  /\ Goes(c, "dialing") /\ closing' = [closing EXCEPT ![c] = FALSE]
  /\ UNCHANGED <<strict, mix, waiting, loop, handling, wires, serverVars, issued, seen>>

\* The reconnect timer fires.
Redial(c) ==
  /\ link[c] = "timer"
  /\ Goes(c, "redialing")
  /\ UNCHANGED <<strict, mix, closing, waiting, loop, handling, wires, serverVars, issued, seen>>

\* The socket is connected, whether or not the client has been closed in the
\* meantime.  A reconnect subscribes again.
Connected(c) ==
  /\ link[c] \in {"dialing", "redialing"}
  /\ Goes(c, "up")
  /\ up' = [up EXCEPT ![c] = IF link[c] = "redialing" /\ loop[c] THEN <<[op |-> "consume", r |-> 0]>> ELSE << >>]
  /\ UNCHANGED <<strict, mix, closing, waiting, loop, handling, down, serverVars, issued, seen>>

\* The "close" event of the socket, of one that never connected too: all pending
\* requests are rejected.
SocketClosed(c) ==
  /\ c \in TsConns /\ link[c] \in {"dialing", "redialing", "up"}
  /\ Goes(c, IF closing[c] THEN "down" ELSE "timer")
  /\ Cut(c)
  /\ UNCHANGED <<closing, loop>>

\* close() of the TypeScript client.  It stops the timer and ends the socket; a
\* socket that is still connecting it does not know.
close(c) ==
  /\ c \in TsConns
  /\ closing' = [closing EXCEPT ![c] = TRUE]
  /\ loop' = [loop EXCEPT ![c] = FALSE]
  /\ Goes(c, IF link[c] \in {"timer", "up"} THEN "down" ELSE link[c])
  /\ Cut(c)

-----------------------------------------------------------------------------
(* Clients: requests.                                                       *)

\* The client may write now: one goroutine uses a Go client, and while it is in
\* Consume only its handler runs.
May(c) ==
  /\ link[c] = "up" /\ issued < MaxRequests
  /\ c \in GoConns => waiting[c] = << >> /\ (loop[c] => handling[c])

Write(c, f) ==
  /\ May(c) /\ f.op \in mix
  /\ up' = [up EXCEPT ![c] = Append(@, f)]
  /\ issued' = issued + 1
  /\ UNCHANGED <<strict, mix, link, closing, handling, down, serverVars, seen>>

\* A call that waits for its answer: Publish, SchemaRegister, the lists of both
\* clients, extendVisibility and call of the second.
Call(c, f) ==
  /\ Write(c, f)
  /\ waiting' = [waiting EXCEPT ![c] = Append(@, [r |-> f.r, op |-> f.op])]
  /\ UNCHANGED loop

SendPublish(c, p)        == Call(c, [op |-> "publish", r |-> issued + 1, payload |-> p])
SchemaRegister(c, d) == Call(c, [op |-> "register", r |-> issued + 1, descriptor |-> d])
Query(c, q)          == Call(c, [op |-> q, r |-> issued + 1])

\* Consume and subscribe: no answer is awaited.
SendConsume(c) ==
  /\ ~loop[c]
  /\ Write(c, [op |-> "consume", r |-> issued + 1])
  /\ loop' = [loop EXCEPT ![c] = TRUE]
  /\ UNCHANGED waiting

\* Ack and nack, fire and forget, of a message that is there or (0) of one that
\* has been settled before.
SendSettle(c, m) ==
  /\ Write(c, [op |-> "settle", r |-> issued + 1, m |-> m])
  /\ UNCHANGED <<waiting, loop>>

-----------------------------------------------------------------------------
(* Clients: answers.                                                        *)

\* What a connection cannot tell apart: the answer to a refused ack and, for the
\* Go client, messages that were pushed.
Muddled(c) == refused[c] \/ (c \in GoConns /\ (loop[c] \/ handling[c] \/ subscribed[c]))

\* The oldest call of c takes frame f.
Takes(c, f) ==
  /\ waiting' = [waiting EXCEPT ![c] = Tail(@)]
  /\ wrong' = (wrong \/ (~Muddled(c) /\ f.r # Head(waiting[c]).r))

Received(c) ==
  /\ down[c] # << >>
  /\ down' = [down EXCEPT ![c] = Tail(@)]
  /\ UNCHANGED <<strict, mix, link, closing, up, serverVars, issued, registered, accepted, refused>>

\* The Go client takes the next frame, whichever it is.
Answer(c) ==
  /\ c \in GoConns /\ waiting[c] # << >>
  /\ Received(c)
  /\ Takes(c, Head(down[c]))
  /\ UNCHANGED <<loop, handling>>

\* A turn of ConsumeWithVisibility: an error ends it, a message goes to the
\* handler, anything else is skipped.
Turn(c) ==
  /\ c \in GoConns /\ waiting[c] = << >> /\ loop[c] /\ ~handling[c]
  /\ Received(c)
  /\ loop' = [loop EXCEPT ![c] = Head(down[c]).op # "error"]
  /\ handling' = [handling EXCEPT ![c] = Head(down[c]).op = "message"]
  /\ UNCHANGED <<waiting, wrong>>

\* The handler returns; its error ends the loop.
Handled(c) ==
  /\ handling[c] /\ waiting[c] = << >>
  /\ handling' = [handling EXCEPT ![c] = FALSE]
  /\ \E ok \in BOOLEAN : loop' = [loop EXCEPT ![c] = ok]
  /\ UNCHANGED <<strict, mix, link, closing, waiting, wires, serverVars, issued, seen>>

\* _handleFrame of the TypeScript client: messages go to the handler; an error rejects the oldest pending
\* request, another frame resolves it or rejects it if it is not the one expected.
tsHandleFrame(c) ==
  /\ c \in TsConns
  /\ Received(c)
  /\ LET f == Head(down[c]) IN
       IF f.op = "message" \/ waiting[c] = << >>
         THEN UNCHANGED <<waiting, wrong>>
         ELSE \/ f.op \in {"error", Expected[Head(waiting[c]).op]} /\ Takes(c, f)
              \/ /\ f.op \notin {"error", Expected[Head(waiting[c]).op]}
                 /\ waiting' = [waiting EXCEPT ![c] = Tail(@)] /\ UNCHANGED wrong
  /\ UNCHANGED <<loop, handling>>

-----------------------------------------------------------------------------
(* The server: one frame of a connection after the other.                   *)

\* handleFrame takes the next frame, which is an op.
Frame(c, op) ==
  /\ serving[c] = Idle /\ up[c] # << >> /\ Head(up[c]).op = op
  /\ up' = [up EXCEPT ![c] = Tail(@)]
  /\ UNCHANGED <<strict, mix, clientVars, issued, wrong>>

Reply(c, f) == down' = [down EXCEPT ![c] = Append(@, f)]

Error(r) == [op |-> "error", r |-> r]

\* handlePublish begins; in strict mode it looks the schema up first.
handlePublish(c) ==
  /\ Frame(c, "publish")
  /\ serving' = [serving EXCEPT ![c] =
       [op |-> "publish", r |-> Head(up[c]).r, payload |-> Head(up[c]).payload,
        from |-> schema.version, stage |-> IF strict THEN "get" ELSE "validate"]]
  /\ UNCHANGED <<down, subscribed, schema, pending, inFlight, registered, accepted, refused>>

Step(c, stage) ==
  /\ serving[c] # Idle /\ serving[c].stage = stage
  /\ UNCHANGED <<strict, mix, clientVars, up, subscribed, schema, inFlight, issued, registered, refused, wrong>>

Ends(c, f) == serving' = [serving EXCEPT ![c] = Idle] /\ Reply(c, f)

Enters(c, stage) == serving' = [serving EXCEPT ![c].stage = stage] /\ UNCHANGED down

PublishGet(c) ==
  /\ Step(c, "get")
  /\ IF schema.version = 0 THEN Ends(c, Error(serving[c].r)) ELSE Enters(c, "validate")
  /\ UNCHANGED <<pending, accepted>>

\* Validate: the payload against the schema of this moment, if there is one.
Valid(p) == schema.version # 0 => schema.descriptor \in p


PublishValidate(c) ==
  /\ Step(c, "validate")
  /\ IF Valid(serving[c].payload) THEN Enters(c, "apply") ELSE Ends(c, Error(serving[c].r))
  /\ UNCHANGED <<pending, accepted>>

\* HandlePublish or HandleStreamPublish, which may fail.
PublishApply(c) ==
  /\ Step(c, "apply")
  /\ \/ /\ Ends(c, Error(serving[c].r))
        /\ UNCHANGED <<pending, accepted>>
     \/ /\ Ends(c, [op |-> "publishAck", r |-> serving[c].r])
        /\ pending' = pending \cup {serving[c].r}
        /\ accepted' = accepted \cup
             {[payload |-> serving[c].payload, from |-> serving[c].from, to |-> schema.version]}

\* Registry.Register: parsed first; versions count up, whatever was there.
Register(r, d) ==
  IF d = Invalid THEN UNCHANGED <<schema, registered>>
  ELSE /\ schema' = [version |-> schema.version + 1, descriptor |-> d]
       /\ registered' = Append(registered, [r |-> r, descriptor |-> d])


handleSchemaRegister(c) ==
  LET f == Head(up[c]) IN
  /\ Frame(c, "register")
  /\ Register(f.r, f.descriptor)
  /\ Reply(c, IF f.descriptor = Invalid THEN Error(f.r)
              ELSE [op |-> "schemaResponse", r |-> f.r, version |-> schema'.version])
  /\ UNCHANGED <<serving, subscribed, pending, inFlight, accepted, refused>>

handleQuery(c, q) ==
  /\ Frame(c, q)
  /\ \E answer \in Answers[q] : Reply(c, [op |-> answer, r |-> Head(up[c]).r])
  /\ UNCHANGED <<serving, subscribed, schema, pending, inFlight, registered, accepted, refused>>

handleConsume(c) ==
  /\ Frame(c, "consume")
  /\ subscribed' = [subscribed EXCEPT ![c] = TRUE]
  /\ UNCHANGED <<down, serving, schema, pending, inFlight, registered, accepted, refused>>

\* handleAck and handleNack: success is silent; a message that is not in flight,
\* or a failing storage, is answered with an error.
handleAck(c) ==
  LET f == Head(up[c]) IN
  /\ Frame(c, "settle")
  /\ \/ f.m \in inFlight /\ inFlight' = inFlight \ {f.m} /\ UNCHANGED <<refused, down>>
     \/ /\ UNCHANGED inFlight
        /\ refused' = [refused EXCEPT ![c] = TRUE]
        /\ Reply(c, Error(f.r))
  /\ UNCHANGED <<serving, subscribed, schema, pending, registered, accepted>>

\* The delivery goroutine of handleConsume.
Deliver(c, m) ==
  /\ subscribed[c] /\ m \in pending /\ Len(down[c]) < MaxPushed
  /\ pending' = pending \ {m} /\ inFlight' = inFlight \cup {m}
  /\ Reply(c, [op |-> "message", r |-> 0])
  /\ UNCHANGED <<strict, mix, clientVars, up, serving, subscribed, schema, issued, seen>>

\* The visibility timeout of a message ends.
Expire(m) ==
  /\ m \in inFlight
  /\ inFlight' = inFlight \ {m} /\ pending' = pending \cup {m}
  /\ UNCHANGED <<strict, mix, clientVars, wires, serving, subscribed, schema, issued, seen>>

RequestsNext ==
  \/ \E c \in Clients :
       \/ Dial(c) \/ GoClose(c) \/ connect(c) \/ Redial(c) \/ Connected(c) \/ SocketClosed(c) \/ close(c)
       \/ \E p \in Payloads : SendPublish(c, p)
       \/ \E d \in Descriptors \cup {Invalid} : SchemaRegister(c, d)
       \/ \E q \in Queries : Query(c, q) \/ handleQuery(c, q)
       \/ SendConsume(c) \/ (\E m \in pending \cup inFlight \cup {0} : SendSettle(c, m))
       \/ Answer(c) \/ Turn(c) \/ Handled(c) \/ tsHandleFrame(c)
       \/ handlePublish(c) \/ PublishGet(c) \/ PublishValidate(c) \/ PublishApply(c)
       \/ handleSchemaRegister(c) \/ handleConsume(c) \/ handleAck(c)
       \/ \E m \in pending : Deliver(c, m)
  \/ \E m \in inFlight : Expire(m)

-----------------------------------------------------------------------------
(* Properties.                                                              *)


=============================================================================
