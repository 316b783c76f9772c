------------------------------- MODULE Names --------------------------------
(***************************************************************************)
(* Queues by name: the two maps of the broker (internal/broker/broker.go), *)
(* the configurations they are rebuilt from, the handlers that create a    *)
(* queue or a stream on first use, and those that list and look at them    *)
(* over TCP, HTTP (internal/api) and the WebSocket of the dashboard.       *)
(*                                                                         *)
(* A queue or a stream is an object with the messages it holds; leases and *)
(* the order of storage writes are the matter of Queue, Stream, Durable.   *)
(***************************************************************************)
EXTENDS Naturals, Sequences, FiniteSets, Functions, SequencesExt

CONSTANTS
  QNames,      \* names of queues
  Sought,      \* those of them some client seeks in
  Workers,     \* goroutines of connections and of HTTP requests
  MaxAccepted  \* bound on the messages accepted

Modes    == {"queue", "stream"}
Things   == 1 .. Cardinality(Workers)   \* the objects created under one name
Accepted == 1 .. MaxAccepted

Resting == [op |-> "none"]
Quiet   == [kind |-> "none", todo |-> << >>, entries |-> << >>, before |-> {}]

VARIABLES
  maps,      \* b.queues and b.streamQueues: which object of the name, 0 for none
  holds,     \* messages every object holds, pending or in flight
  config,    \* storage: the mode of every queue that has a configuration
  disk,      \* storage: messages of a name, by mode
  doing,     \* what a goroutine is doing
  taken,     \* messages accepted and not acked, with name and mode (history)
  count,     \* number of accepted messages
  listing,   \* the listing that is being put together
  mixed      \* names that have had both modes (history)

nameVars == <<maps, holds, config, disk, doing, taken, count, listing, mixed>>

NamesTypeOK ==
  /\ maps \in [Modes -> [QNames -> Things \cup {0}]]
  /\ holds \in [Modes -> [QNames -> [Things -> SUBSET Accepted]]]
  /\ config \in [QNames -> Modes \cup {"none"}]
  /\ disk \in [Modes -> [QNames -> SUBSET Accepted]]
  /\ \A w \in Workers : doing[w] = Resting \/ doing[w].stage \in {"lookup", "create", "use"}
  /\ \A t \in taken : t.m \in 1 .. count /\ t.name \in QNames /\ t.mode \in Modes
  /\ count \in 0 .. MaxAccepted
  /\ mixed \subseteq QNames

NamesInit ==
  /\ maps = [d \in Modes |-> [n \in QNames |-> 0]]
  /\ holds = [d \in Modes |-> [n \in QNames |-> [o \in Things |-> {}]]]
  /\ config = [n \in QNames |-> "none"]
  /\ disk = [d \in Modes |-> [n \in QNames |-> {}]]
  /\ doing = [w \in Workers |-> Resting]
  /\ taken = {} /\ count = 0 /\ listing = Quiet /\ mixed = {}

-----------------------------------------------------------------------------
(* Requests that use a queue.                                               *)

Does(w, r) == doing' = [doing EXCEPT ![w] = r]

Elsewhere == UNCHANGED listing

\* A publish is routed by what the name is now: IsStreamQueue.  A consume wants a
\* queue, a seek a stream.
Begin(w, op, n) ==
  /\ doing[w] = Resting
  /\ Does(w, [op |-> op, name |-> n, object |-> 0, stage |-> "lookup",
              mode |-> IF op = "seek" \/ (op = "publish" /\ maps["stream"][n] # 0) THEN "stream" ELSE "queue"])
  /\ Elsewhere /\ UNCHANGED <<maps, holds, config, disk, taken, count, mixed>>

\* The request has its object.  A consume and a seek only subscribe.
Has(w, r, o) == Does(w, IF r.op = "publish" THEN [r EXCEPT !.stage = "use", !.object = o] ELSE Resting)

\* GetOrCreate...WithError under the read lock.
Lookup(w) ==
  LET r == doing[w]
      o == maps[r.mode][r.name] IN
  /\ r # Resting /\ r.stage = "lookup"
  /\ IF o # 0 THEN Has(w, r, o) ELSE Does(w, [r EXCEPT !.stage = "create"])
  /\ Elsewhere /\ UNCHANGED <<maps, holds, config, disk, taken, count, mixed>>

\* A new object under the name of r, its configuration stored first.
Creates(w, r) ==
  LET o == maps[r.mode][r.name] + 1 IN
  /\ maps' = [maps EXCEPT ![r.mode][r.name] = o]
  /\ holds' = [holds EXCEPT ![r.mode][r.name][o] = IF r.mode = "stream" THEN disk["stream"][r.name] ELSE {}]
  /\ config' = [config EXCEPT ![r.name] = r.mode]
  /\ mixed' = mixed \cup (IF config[r.name] \in {"none", r.mode} THEN {} ELSE {r.name})
  /\ Has(w, r, o)
  /\ UNCHANGED <<disk, taken, count>>


\* GetOrCreate...WithError under the write lock.
Create(w) ==
  LET r == doing[w]
      o == maps[r.mode][r.name] IN
  /\ r # Resting /\ r.stage = "create"
  /\ \/ /\ o # 0
        /\ Has(w, r, o)
        /\ UNCHANGED <<maps, holds, config, disk, taken, count, mixed>>
     \/ o = 0 /\ Creates(w, r)
  /\ Elsewhere

\* What the stored configurations make of the broker: LoadFromStorage.
Loaded ==
  /\ maps' = [d \in Modes |-> [n \in QNames |-> IF config[n] = d THEN 1 ELSE 0]]
  /\ holds' = [d \in Modes |-> [n \in QNames |-> [o \in Things |->
                IF config[n] = d /\ o = 1 THEN disk[d][n] ELSE {}]]]
  /\ doing' = [w \in Workers |-> Resting]
  /\ listing' = Quiet
  /\ UNCHANGED <<config, disk, taken, count, mixed>>

\* The configuration cannot be stored: a publish is refused; a consume and a seek
\* go on with no queue at all, and the process goes down.
CreateFails(w) ==
  LET r == doing[w] IN
  /\ r # Resting /\ r.stage = "create" /\ maps[r.mode][r.name] = 0
  /\ IF r.op = "publish"
       THEN Does(w, Resting) /\ Elsewhere /\ UNCHANGED <<maps, holds, config, disk, taken, count, mixed>>
       ELSE Loaded

\* A publish is stored, held by the object it found, and answered; or it fails.
Use(w, mode) ==
  LET r == doing[w]
      m == count + 1 IN
  /\ r # Resting /\ r.stage = "use" /\ r.mode = mode
  /\ Does(w, Resting)
  /\ \/ /\ count < MaxAccepted
        /\ count' = m
        /\ holds' = [holds EXCEPT ![mode][r.name][r.object] = @ \cup {m}]
        /\ disk' = [disk EXCEPT ![mode][r.name] = @ \cup {m}]
        /\ taken' = taken \cup {[m |-> m, name |-> r.name, mode |-> mode]}
     \/ UNCHANGED <<count, holds, disk, taken>>
  /\ Elsewhere /\ UNCHANGED <<maps, config, mixed>>

HandlePublish(w)       == Use(w, "queue")
HandleStreamPublish(w) == Use(w, "stream")

\* A message is acked, of a queue only.
AckOne(t) ==
  LET o == maps["queue"][t.name] IN
  /\ t.mode = "queue" /\ o # 0 /\ t.m \in holds["queue"][t.name][o]
  /\ holds' = [holds EXCEPT !["queue"][t.name][o] = @ \ {t.m}]
  /\ disk' = [disk EXCEPT !["queue"][t.name] = @ \ {t.m}]
  /\ taken' = taken \ {t}
  /\ Elsewhere /\ UNCHANGED <<maps, config, doing, count, mixed>>

Crash == Loaded

-----------------------------------------------------------------------------
(* Requests that look at them.                                              *)

GetQueue(n) == maps["queue"][n]

\* What the requests that change nothing answer about queue n at this moment: the
\* number of its messages (depth and in flight), or messages of it.
NotFound == [status |-> "not found"]

handleQueueInfo(n) ==
  IF GetQueue(n) = 0 THEN NotFound
  ELSE [status |-> "ok", messages |-> Cardinality(holds["queue"][n][GetQueue(n)])]

handleMessagesPeek(n) ==
  IF GetQueue(n) = 0 THEN NotFound
  ELSE [status |-> "ok", messages |-> holds["queue"][n][GetQueue(n)]]

\* Here n is the name of the dead letter queue, and none at all is an empty one.
handleDLQList(n) ==
  [status |-> "ok", messages |-> IF GetQueue(n) = 0 THEN {} ELSE holds["queue"][n][GetQueue(n)]]

\* PurgeQueue: the stored messages, which may fail, then those in memory.
PurgeQueue(n) ==
  /\ \/ UNCHANGED <<holds, disk, taken>>
     \/ /\ holds' = [holds EXCEPT !["queue"][n][GetQueue(n)] = {}]
        /\ disk' = [disk EXCEPT !["queue"][n] = {}]
        /\ taken' = {t \in taken : t.name # n \/ t.mode # "queue"}
  /\ UNCHANGED <<maps, config, doing, count, listing, mixed>>

\* Of a queue or, in handleDLQPurge, of a dead letter queue that is there; there is
\* nothing to do otherwise.
handleQueuePurge(n) == GetQueue(n) # 0 /\ PurgeQueue(n)
handleDLQPurge(n)   == GetQueue(n) # 0 /\ PurgeQueue(n)

NamesOf(d) == {n \in QNames : maps[d][n] # 0}

\* ListQueues: the names of both maps, one after the other, then sorted.
ListQueues == SetToSeq(NamesOf("queue")) \o SetToSeq(NamesOf("stream"))

\* Begins a listing of queues, or of queues and streams.
Lists(kind) ==
  /\ listing.kind = "none"
  /\ listing' = [kind |-> kind, todo |-> ListQueues, entries |-> << >>,
                 before |-> NamesOf("queue") \cup (IF kind = "both" THEN NamesOf("stream") ELSE {})]
  /\ UNCHANGED <<maps, holds, config, disk, doing, taken, count, mixed>>

handleQueueList  == Lists("both")
handleQueues     == Lists("queues")

\* A tick of the broadcast, while some client watches.
startWSBroadcast == Lists("queues")

\* The next name: handleQueueList shows a stream or a queue; handleQueues and the
\* broadcast pass over what is no queue.
ListNext ==
  LET n     == Head(listing.todo)
      shown == maps["queue"][n] # 0 \/ (listing.kind = "both" /\ maps["stream"][n] # 0) IN
  /\ listing.todo # << >>
  /\ listing' = [listing EXCEPT !.todo = Tail(@), !.entries = IF shown THEN Append(@, n) ELSE @]
  /\ UNCHANGED <<maps, holds, config, disk, doing, taken, count, mixed>>

\* The answer, or the round of broadcasts, is complete.
EndListing ==
  /\ listing.kind # "none" /\ listing.todo = << >>
  /\ listing' = Quiet
  /\ UNCHANGED <<maps, holds, config, disk, doing, taken, count, mixed>>

NamesNext ==
  \/ \E w \in Workers :
       \/ \E op \in {"publish", "consume"}, n \in QNames : Begin(w, op, n)
       \/ \E n \in Sought : Begin(w, "seek", n)
       \/ Lookup(w) \/ Create(w) \/ CreateFails(w) \/ HandlePublish(w) \/ HandleStreamPublish(w)
  \/ \E t \in taken : AckOne(t)
  \/ \E n \in QNames : handleQueuePurge(n) \/ handleDLQPurge(n)
  \/ handleQueueList \/ handleQueues \/ startWSBroadcast
  \/ ListNext \/ EndListing \/ Crash

-----------------------------------------------------------------------------
(* Properties.                                                              *)

=============================================================================
