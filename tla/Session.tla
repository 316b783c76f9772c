------------------------------ MODULE Session ------------------------------
(***************************************************************************)
(* The connections of the broker (internal/broker/server.go) and what they *)
(* register at one queue: consumers, members of the queue's consumer group *)
(* and consumers of two stream queues.  A connection is one goroutine that *)
(* reads frames (handleConn), with one delivery goroutine per subscription.*)
(*                                                                         *)
(* Requests of one connection are handled one after the other.  Joining a  *)
(* group is GetOrCreateGroup followed by AddMember, leaving it RemoveMember*)
(* followed by RemoveGroup, and other connections run in between.  Which   *)
(* messages are in flight with whom is the matter of Queue and Group: here *)
(* a message is open in the queue's own list and in every group it was     *)
(* fanned out to, and any open message may be in flight.                   *)
(***************************************************************************)
EXTENDS Naturals, FiniteSets, FiniteSetsExt, Functions

CONSTANTS
  Conns,         \* client addresses
  Seekers,       \* those that may seek: streams do not connect connections
  None,          \* no subscription
  MaxSubs,       \* bound on the subscriptions a seeker makes
  MaxOtherSubs,  \* bound on those of the other connections
  MaxObjects,    \* bound on the group objects created under the one name
  MaxMessages,   \* bound on the messages published
  MaxSize,       \* the size limit of the queue
  AuthRequired   \* the server has an auth token

Messages == 1 .. MaxMessages
Objects  == 1 .. MaxObjects
Subs     == Conns \X (1 .. MaxSubs)
Streams  == {"s", "t"}

VARIABLES
  stage,      \* where handleConn of a connection is
  queue,      \* state.queueName: "" before the first subscription
  msgCh,      \* state.msgCh: the subscription it remembers
  groupName,  \* state.groupName is set
  stream,     \* state.streamConsumer; streamMode is implied by it
  target,     \* the group object a join or a leave works on
  opened,     \* number of subscriptions made
  consumers,  \* q.consumers
  members,    \* g.members of every group object
  registry,   \* q.groups: the object under the group's name, 0 if none
  readers,    \* sq.consumers of the two stream queues
  own,        \* open in the queue's own list, pending or in flight
  offered,    \* those of them that may be in flight
  copies,     \* open in a group object
  stored,     \* messages in storage
  published,  \* number of accepted messages
  settled,    \* messages acked or dropped by anyone (history)
  abandoned,  \* connections that forgot a subscription of theirs (history)
  overlapped  \* joins and leaves of the group have overlapped (history)

subVars     == <<queue, msgCh, groupName, stream, target, opened>>
connVars    == <<stage, subVars>>
regVars     == <<consumers, members, registry, readers>>
msgVars     == <<own, offered, copies, stored, published, settled>>
history     == <<abandoned, overlapped>>
sessionVars == <<connVars, regVars, msgVars, history>>

Stages == {"new", "unauth", "ready", "join", "leave", "stuck", "stop", "drop", "gone"}

SessionTypeOK ==
  /\ stage \in [Conns -> Stages]
  /\ queue \in [Conns -> {"", "q"} \cup Streams]
  /\ msgCh \in [Conns -> Subs \cup {None}]
  /\ groupName \in [Conns -> BOOLEAN]
  /\ stream \in [Conns -> Subs \cup {None}]
  /\ target \in [Conns -> 0 .. MaxObjects]
  /\ opened \in [Conns -> 0 .. MaxSubs]
  /\ consumers \subseteq Subs
  /\ members \in [Objects -> SUBSET Subs]
  /\ registry \in 0 .. MaxObjects
  /\ readers \in [Streams -> SUBSET Subs]
  /\ offered \subseteq own /\ own \subseteq 1 .. published
  /\ copies \in [Objects -> SUBSET (1 .. published)]
  /\ stored \subseteq 1 .. published /\ published \in 0 .. MaxMessages
  /\ settled \subseteq 1 .. published
  /\ abandoned \subseteq Conns /\ overlapped \in BOOLEAN

\* What the process holds in memory when it starts: LoadFromStorage has put the
\* stored messages into the queue; there are no consumers and no groups.
Fresh ==
  /\ stage' = [c \in Conns |-> "new"] /\ queue' = [c \in Conns |-> ""]
  /\ msgCh' = [c \in Conns |-> None] /\ groupName' = [c \in Conns |-> FALSE]
  /\ stream' = [c \in Conns |-> None] /\ target' = [c \in Conns |-> 0]
  /\ opened' = [c \in Conns |-> 0]
  /\ consumers' = {} /\ members' = [g \in Objects |-> {}]
  /\ registry' = 0 /\ readers' = [s \in Streams |-> {}]
  /\ own' = stored /\ offered' = {} /\ copies' = [g \in Objects |-> {}]
  /\ abandoned' = {} /\ overlapped' = FALSE

SessionInit ==
  /\ stage = [c \in Conns |-> "new"] /\ queue = [c \in Conns |-> ""]
  /\ msgCh = [c \in Conns |-> None] /\ groupName = [c \in Conns |-> FALSE]
  /\ stream = [c \in Conns |-> None] /\ target = [c \in Conns |-> 0]
  /\ opened = [c \in Conns |-> 0]
  /\ consumers = {} /\ members = [g \in Objects |-> {}]
  /\ registry = 0 /\ readers = [s \in Streams |-> {}]
  /\ own = {} /\ offered = {} /\ copies = [g \in Objects |-> {}]
  /\ stored = {} /\ published = 0 /\ settled = {}
  /\ abandoned = {} /\ overlapped = FALSE

-----------------------------------------------------------------------------
(* Connecting.                                                              *)

Goto(c, s) == stage' = [stage EXCEPT ![c] = s]

Accept(c) ==
  /\ stage[c] = "new"
  /\ Goto(c, IF AuthRequired THEN "unauth" ELSE "ready")
  /\ UNCHANGED <<subVars, regVars, msgVars, history>>

\* The first frame of an unauthenticated connection: the right token lets it
\* in, anything else ends it.
Authenticate(c) ==
  /\ stage[c] = "unauth"
  /\ \E accepted \in BOOLEAN : Goto(c, IF accepted THEN "ready" ELSE "stop")
  /\ UNCHANGED <<subVars, regVars, msgVars, history>>

\* DecodeFrame fails: the peer has closed, or sent something that is no frame.
\* The deferred cleanup closes stopCh and waits for the delivery goroutines.
Disconnect(c) ==
  /\ stage[c] = "ready"
  /\ Goto(c, "stop")
  /\ UNCHANGED <<subVars, regVars, msgVars, history>>

-----------------------------------------------------------------------------
(* Subscribing.                                                             *)

NewSub(c) == <<c, opened[c] + 1>>

Subscribed(c) == msgCh[c] # None \/ stream[c] # None

\* The registrations of c that are still served.
Registered(c) ==
  {s \in consumers \cup UNION Range(members) \cup UNION Range(readers) : s[1] = c}

\* A subscription on top of another one: the connection remembers only the new
\* one.  Seeking again in the same stream replaces the consumer.
Forgets(c) == abandoned' = abandoned \cup (IF Subscribed(c) THEN {c} ELSE {})

\* Another connection is in the middle of joining or leaving the group.
Busy(c) == \E d \in Conns \ {c} : stage[d] \in {"join", "leave", "drop"}

Overlaps(c) == overlapped' = (overlapped \/ Busy(c))

MaySubscribe(c) == opened[c] < (IF c \in Seekers THEN MaxSubs ELSE MaxOtherSubs)

\* handleConsume without a group: Dequeue registers a consumer and delivers.
Consume(c) ==
  /\ stage[c] = "ready" /\ MaySubscribe(c)
  /\ opened' = [opened EXCEPT ![c] = @ + 1]
  /\ queue' = [queue EXCEPT ![c] = "q"]
  /\ groupName' = [groupName EXCEPT ![c] = FALSE]
  /\ msgCh' = [msgCh EXCEPT ![c] = NewSub(c)]
  /\ consumers' = consumers \cup {NewSub(c)}
  /\ offered' = own
  /\ Forgets(c)
  /\ UNCHANGED <<stage, stream, target, members, registry, readers,
                 own, copies, stored, published, settled, overlapped>>

\* The group objects nobody refers to: a new group is one of them.
Unused == {g \in Objects : members[g] = {} /\ g # registry /\ \A c \in Conns : target[c] # g}

\* handleConsume with the group: GetOrCreateGroup ...
JoinLookup(c) ==
  /\ stage[c] = "ready" /\ MaySubscribe(c)
  /\ registry # 0 \/ Unused # {}
  /\ queue' = [queue EXCEPT ![c] = "q"]
  /\ groupName' = [groupName EXCEPT ![c] = TRUE]
  /\ registry' = IF registry = 0 THEN Min(Unused) ELSE registry
  /\ copies' = IF registry = 0 THEN [copies EXCEPT ![registry'] = {}] ELSE copies
  /\ target' = [target EXCEPT ![c] = registry']
  /\ Goto(c, "join")
  /\ Forgets(c)
  /\ Overlaps(c)
  /\ UNCHANGED <<msgCh, stream, opened, consumers, members, readers,
                 own, offered, stored, published, settled>>

\* ... and AddMember, on the object found before.
JoinAdd(c) ==
  /\ stage[c] = "join"
  /\ opened' = [opened EXCEPT ![c] = @ + 1]
  /\ msgCh' = [msgCh EXCEPT ![c] = NewSub(c)]
  /\ members' = [members EXCEPT ![target[c]] = @ \cup {NewSub(c)}]
  /\ target' = [target EXCEPT ![c] = 0]
  /\ Goto(c, "ready")
  /\ UNCHANGED <<queue, groupName, stream, consumers, registry, readers,
                 msgVars, history>>

\* Mutant: the consumer of the earlier seek is not removed.
SeekKeepsOld(c, q) ==
  /\ stage[c] = "ready" /\ MaySubscribe(c)
  /\ opened' = [opened EXCEPT ![c] = @ + 1]
  /\ queue' = [queue EXCEPT ![c] = q]
  /\ stream' = [stream EXCEPT ![c] = NewSub(c)]
  /\ msgCh' = [msgCh EXCEPT ![c] = NewSub(c)]
  /\ readers' = [readers EXCEPT ![q] = @ \cup {NewSub(c)}]
  /\ IF stream[c] \in readers[q] THEN UNCHANGED abandoned ELSE Forgets(c)
  /\ UNCHANGED <<stage, groupName, target, consumers, members, registry,
                 msgVars, overlapped>>

\* handleSeek: the consumer of an earlier seek is removed from the stream that
\* is sought now, whichever it was registered at.
Seek(c, q) ==
  /\ stage[c] = "ready" /\ MaySubscribe(c)
  /\ opened' = [opened EXCEPT ![c] = @ + 1]
  /\ queue' = [queue EXCEPT ![c] = q]
  /\ stream' = [stream EXCEPT ![c] = NewSub(c)]
  /\ msgCh' = [msgCh EXCEPT ![c] = NewSub(c)]
  /\ readers' = [readers EXCEPT ![q] = (@ \ {stream[c]}) \cup {NewSub(c)}]
  /\ IF stream[c] \in readers[q] THEN UNCHANGED abandoned ELSE Forgets(c)
  /\ UNCHANGED <<stage, groupName, target, consumers, members, registry,
                 msgVars, overlapped>>

-----------------------------------------------------------------------------
(* Unsubscribing and the end of a connection.                               *)

\* RemoveMember: the first member with the ID of the connection.
WithoutMember(g, c) ==
  LET mine == {s \in members[g] : s[1] = c}
  IN  IF mine = {} THEN members[g] ELSE members[g] \ {<<c, Min({s[2] : s \in mine})>>}

\* The connection forgets its subscription; streamConsumer is not cleared.
Clear(c) ==
  /\ msgCh' = [msgCh EXCEPT ![c] = None]
  /\ groupName' = [groupName EXCEPT ![c] = FALSE]

\* An unsubscribe that names no group removes the remembered channel from the
\* consumers of the queue, also if it is not one of them.
UnsubscribePlain(c) ==
  /\ stage[c] = "ready" /\ msgCh[c] # None
  /\ consumers' = consumers \ {msgCh[c]}
  /\ Clear(c)
  /\ abandoned' = abandoned \cup (IF groupName[c] THEN {c} ELSE {})
  /\ UNCHANGED <<stage, queue, stream, target, opened, members, registry, readers,
                 msgVars, overlapped>>

\* Mutant: the group is removed although others are members of it.
UnsubscribeGroupAlways(c) ==
  /\ stage[c] = "ready" /\ registry # 0
  /\ members' = [members EXCEPT ![registry] = WithoutMember(registry, c)]
  /\ Goto(c, "leave")
  /\ abandoned' = abandoned \cup (IF msgCh[c] # None /\ ~groupName[c] THEN {c} ELSE {})
  /\ Overlaps(c)
  /\ UNCHANGED <<msgCh, groupName, queue, stream, target, opened, consumers, registry, readers,
                 msgVars>>

\* One that names the group, whether or not the connection is a member of it.
UnsubscribeGroup(c) ==
  /\ stage[c] = "ready" /\ registry # 0
  /\ members' = [members EXCEPT ![registry] = WithoutMember(registry, c)]
  /\ IF members'[registry] = {} THEN Goto(c, "leave") /\ UNCHANGED <<msgCh, groupName>>
                                ELSE Clear(c) /\ UNCHANGED stage
  /\ abandoned' = abandoned \cup (IF msgCh[c] # None /\ ~groupName[c] THEN {c} ELSE {})
  /\ Overlaps(c)
  /\ UNCHANGED <<queue, stream, target, opened, consumers, registry, readers,
                 msgVars>>

\* RemoveGroup drops whatever is registered under the name by now.
UnsubscribeDrop(c) ==
  /\ stage[c] = "leave"
  /\ registry' = 0
  /\ Clear(c)
  /\ Goto(c, "ready")
  /\ UNCHANGED <<queue, stream, target, opened, consumers, members, readers,
                 msgVars, history>>

\* connState ends with handleConn.
Freed(c) ==
  /\ queue' = [queue EXCEPT ![c] = ""]
  /\ msgCh' = [msgCh EXCEPT ![c] = None]
  /\ groupName' = [groupName EXCEPT ![c] = FALSE]
  /\ stream' = [stream EXCEPT ![c] = None]
  /\ target' = [target EXCEPT ![c] = 0]
  /\ opened' = [opened EXCEPT ![c] = 0]

\* The deferred cleanup of handleConn, once the delivery goroutines are gone.
CleanupStream(c) ==
  /\ stream[c] # None
  /\ readers' = [q \in Streams |-> IF q = queue[c] THEN readers[q] \ {stream[c]} ELSE readers[q]]
  /\ Goto(c, "gone")
  /\ UNCHANGED <<consumers, members, overlapped>>

CleanupGroup(c) ==
  /\ stream[c] = None /\ msgCh[c] # None /\ groupName[c]
  /\ IF registry = 0
       THEN Goto(c, "gone") /\ UNCHANGED members
       ELSE /\ members' = [members EXCEPT ![registry] = WithoutMember(registry, c)]
            /\ Goto(c, IF members'[registry] = {} THEN "drop" ELSE "gone")
  /\ Overlaps(c)
  /\ UNCHANGED <<consumers, readers>>

CleanupPlain(c) ==
  /\ stream[c] = None /\ ~(msgCh[c] # None /\ groupName[c])
  /\ consumers' = consumers \ {msgCh[c]}
  /\ Goto(c, "gone")
  /\ UNCHANGED <<members, readers, overlapped>>


Cleanup(c) ==
  /\ stage[c] = "stop"
  /\ CleanupStream(c) \/ CleanupGroup(c) \/ CleanupPlain(c)
  /\ Freed(c)
  /\ UNCHANGED <<registry, msgVars, abandoned>>

CleanupDrop(c) ==
  /\ stage[c] = "drop"
  /\ registry' = 0
  /\ Goto(c, "gone")
  /\ Freed(c)
  /\ UNCHANGED <<consumers, members, readers, msgVars, history>>

-----------------------------------------------------------------------------
(* Messages, peers that do not read, the reaper, and the process.           *)

\* HandlePublish: stored, put into the queue's own list and fanned out to the
\* registered group.  The size limit counts what is pending in the own list.
Publish(c) ==
  /\ stage[c] = "ready"
  /\ published < MaxMessages /\ Cardinality(own \ offered) < MaxSize
  /\ published' = published + 1
  /\ stored' = stored \cup {published'}
  /\ own' = own \cup {published'}
  /\ offered' = IF consumers = {} THEN offered ELSE own'
  /\ copies' = [g \in Objects |-> IF g = registry THEN copies[g] \cup {published'} ELSE copies[g]]
  /\ UNCHANGED <<connVars, regVars, settled, history>>


\* An ack or a terminal nack goes to the group or to the queue itself, by the
\* state of the connection, and deletes the one stored copy.  It is found only
\* in flight, which takes a member, or a consumer at some time.
Settle(c, m) ==
  /\ stage[c] = "ready" /\ queue[c] = "q" /\ stream[c] = None
  /\ IF groupName[c]
       THEN /\ registry # 0 /\ members[registry] # {} /\ m \in copies[registry]
            /\ copies' = [copies EXCEPT ![registry] = @ \ {m}]
            /\ UNCHANGED <<own, offered>>
       ELSE /\ m \in offered
            /\ own' = own \ {m} /\ offered' = offered \ {m}
            /\ UNCHANGED copies
  /\ stored' = stored \ {m}
  /\ settled' = settled \cup {m}
  /\ UNCHANGED <<connVars, regVars, published, history>>

\* The reaper takes a member out whose heartbeat is overdue.
Reap(s) ==
  /\ registry # 0 /\ s \in members[registry]
  /\ members' = [members EXCEPT ![registry] = @ \ {s}]
  /\ UNCHANGED <<connVars, consumers, registry, readers, msgVars, history>>

\* A delivery goroutine of an ending connection has chosen a message over
\* stopCh, or was writing already, and the peer does not read.
Block(c) ==
  /\ stage[c] = "stop" /\ Registered(c) # {} /\ published > 0
  /\ Goto(c, "stuck")
  /\ UNCHANGED <<subVars, regVars, msgVars, history>>

PeerReads(c) ==
  /\ stage[c] = "stuck"
  /\ Goto(c, "stop")
  /\ UNCHANGED <<subVars, regVars, msgVars, history>>

\* The process dies and is started again.
Restart ==
  /\ Fresh
  /\ UNCHANGED <<stored, published, settled>>

SessionNext ==
  \/ \E c \in Conns :
       \/ Accept(c) \/ Authenticate(c) \/ Disconnect(c)
       \/ Consume(c) \/ JoinLookup(c) \/ JoinAdd(c) \/ (\E q \in Streams : c \in Seekers /\ Seek(c, q))
       \/ UnsubscribePlain(c) \/ UnsubscribeGroup(c) \/ UnsubscribeDrop(c)
       \/ Cleanup(c) \/ CleanupDrop(c)
       \/ Publish(c) \/ (\E m \in Messages : Settle(c, m))
       \/ Block(c) \/ PeerReads(c)
  \/ \E s \in Subs : Reap(s)
  \/ Restart

\* The goroutine of a connection goes on with what it has begun.  Only that of the
\* connections CleanupEnds is about need be assumed to.
SessionFairness ==
  \A c \in Seekers : WF_sessionVars(JoinAdd(c) \/ UnsubscribeDrop(c) \/ Cleanup(c) \/ CleanupDrop(c))

-----------------------------------------------------------------------------
(* Properties.                                                              *)

\* As long as joins and leaves do not overlap, whoever is a member of a group is
\* a member of the one the queue knows: fan-out, acks, heartbeats and the reaper
\* reach it.
MembersKnown ==
  /\ SessionTypeOK
  /\ ~overlapped => \A g \in Objects : members[g] # {} => g = registry

\* A connection that has ended has left nothing behind that still receives
\* messages, unless it subscribed on top of a subscription or unsubscribed from
\* something else than it had, or joins and leaves overlapped.
NothingLeftBehind ==
  \A c \in Conns :
    stage[c] = "gone" /\ c \notin abandoned /\ ~overlapped => Registered(c) = {}


=============================================================================
