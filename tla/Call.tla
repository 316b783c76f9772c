-------------------------------- MODULE Call --------------------------------
(***************************************************************************)
(* Request and reply (internal/broker/call.go): the call managers that the *)
(* connections of one client address create one after the other, and the   *)
(* reply queue they share, which is named after the address.               *)
(*                                                                         *)
(* handleCall runs in the goroutine that reads the connection's frames, so *)
(* a connection has one call at a time and is not closed during it.  A     *)
(* manager's listener is a goroutine of its own; closing the manager ends  *)
(* it and leaves its consumer registered at the reply queue.               *)
(***************************************************************************)
EXTENDS Naturals, Sequences, FiniteSetsExt

CONSTANTS
  MaxManagers,   \* bound on the connections from the address that call
  MaxCalls,      \* bound on the calls
  MaxReplies     \* bound on the replies; far below the queue's limit of 1000

Managers == 1 .. MaxManagers
Calls    == 1 .. MaxCalls
Replies  == 1 .. MaxReplies

VARIABLES
  manager,    \* state.callManager: the newest manager's number, 0 if none
  created,    \* number of managers created
  call,       \* the running call: its number, 0 if none
  made,       \* number of calls made
  sent,       \* calls whose request is in the target queue
  pending,    \* cm.pending of every manager
  replyCh,    \* the reply channel of every call
  listener,   \* where the listener of a manager is
  held,       \* the reply it works on
  corr,       \* correlation_id of the published replies, 0 for none
  replyQ,     \* the reply queue: messages, in flight, channels, nextIdx
  faults      \* "panic": nil read, channel closed twice; "foreign": wrong reply

managerVars == <<manager, created, pending>>
callerVars  == <<call, made, sent>>
callVars    == <<managerVars, callerVars, replyCh, listener, held, corr, replyQ, faults>>

\* A channel of capacity one: what it holds, and whether it is closed.
Channel == [full : 0 .. MaxReplies, closed : BOOLEAN]
Empty   == [full |-> 0, closed |-> FALSE]

CallTypeOK ==
  /\ manager \in {0, created} /\ created \in 0 .. MaxManagers
  /\ call \in {0, made} /\ made \in 0 .. MaxCalls /\ sent \subseteq 1 .. made
  /\ pending \in [Managers -> SUBSET Calls]
  /\ replyCh \in [Calls -> Channel]
  /\ listener \in [Managers -> {"none", "idle", "handover", "ack", "ended"}]
  /\ held \in [Managers -> 0 .. MaxReplies]
  /\ corr \in Seq(0 .. MaxCalls) /\ Len(corr) <= MaxReplies
  /\ replyQ.messages \in Seq(Replies) /\ replyQ.inFlight \subseteq Replies
  /\ replyQ.box \in Seq(0 .. MaxReplies) /\ Len(replyQ.box) = created
  /\ replyQ.nextIdx \in 0 .. MaxManagers
  /\ faults \subseteq {"panic", "foreign"}

CallInit ==
  /\ manager = 0 /\ created = 0 /\ pending = [k \in Managers |-> {}]
  /\ call = 0 /\ made = 0 /\ sent = {}
  /\ replyCh = [c \in Calls |-> Empty]
  /\ listener = [k \in Managers |-> "none"] /\ held = [k \in Managers |-> 0]
  /\ corr = <<>>
  /\ replyQ = [messages |-> <<>>, inFlight |-> {}, box |-> <<>>, nextIdx |-> 0]
  /\ faults = {}

-----------------------------------------------------------------------------
(* The reply queue.                                                         *)

\* The consumers with room, in the order of the round robin.
Free(q) ==
  LET n == Len(q.box)
  IN  SelectSeq([j \in 1 .. n |-> ((q.nextIdx + j - 1) % n) + 1], LAMBDA k : q.box[k] = 0)

\* tryDeliver: the head goes to the next consumer with room, until there is
\* none or the queue is empty.  A channel holds one message.
TryDeliver(q) ==
  LET free == Free(q)
      n    == Min({Len(q.messages), Len(free)})
  IN  IF n = 0 THEN q
      ELSE [messages |-> SubSeq(q.messages, n + 1, Len(q.messages)),
            inFlight |-> q.inFlight \cup {q.messages[i] : i \in 1 .. n},
            box      |-> [k \in 1 .. Len(q.box) |->
                            IF \E i \in 1 .. n : free[i] = k
                              THEN q.messages[CHOOSE i \in 1 .. n : free[i] = k] ELSE q.box[k]],
            nextIdx  |-> free[n] % Len(q.box)]

\* NewCallManager: Dequeue adds a consumer, and the listener starts.
NewCallManager ==
  /\ created' = created + 1
  /\ manager' = created'
  /\ replyQ' = TryDeliver([replyQ EXCEPT !.box = Append(@, 0)])
  /\ listener' = [listener EXCEPT ![created'] = "idle"]

\* A responder publishes a reply to a request it has seen, again and late as
\* it likes, or a message without a correlation ID.
PublishReply(c) ==
  /\ Len(corr) < MaxReplies /\ created > 0
  /\ corr' = Append(corr, c)
  /\ replyQ' = TryDeliver([replyQ EXCEPT !.messages = Append(@, Len(corr'))])
  /\ UNCHANGED <<managerVars, callerVars, replyCh, listener, held, faults>>

\* Mutant: what is requeued waits for the next publish or ack.
RequeueReplyUndelivered(r) ==
  /\ r \in replyQ.inFlight
  /\ replyQ' = [replyQ EXCEPT !.inFlight = @ \ {r}, !.messages = Append(@, r)]
  /\ UNCHANGED <<managerVars, callerVars, replyCh, listener, held, corr, faults>>

\* A tick of the reaper: it finds the visibility timeout of an unacked reply
\* over, or of none (0), and delivers.
RequeueReply(r) ==
  /\ r \in replyQ.inFlight \cup {0}
  /\ replyQ' = TryDeliver(IF r = 0 THEN replyQ
                          ELSE [replyQ EXCEPT !.inFlight = @ \ {r}, !.messages = Append(@, r)])
  /\ UNCHANGED <<managerVars, callerVars, replyCh, listener, held, corr, faults>>

-----------------------------------------------------------------------------
(* The caller.                                                              *)

\* handleCall creates the manager at the first call; Call registers the reply
\* channel, ...
CallStart ==
  /\ call = 0 /\ made < MaxCalls
  /\ IF manager # 0 THEN UNCHANGED <<manager, created, replyQ, listener>>
                    ELSE created < MaxManagers /\ NewCallManager
  /\ made' = made + 1 /\ call' = made'
  /\ pending' = [pending EXCEPT ![manager'] = @ \cup {made'}]
  /\ UNCHANGED <<sent, replyCh, held, corr, faults>>

\* ... publishes the request, which may be refused, ...
CallPublish ==
  /\ call # 0 /\ call \notin sent
  /\ \/ sent' = sent \cup {call} /\ UNCHANGED <<call, pending>>
     \/ call' = 0 /\ pending' = [pending EXCEPT ![manager] = @ \ {call}] /\ UNCHANGED sent
  /\ UNCHANGED <<manager, created, made, replyCh, listener, held, corr, replyQ, faults>>

\* ... and waits.  A closed channel without a reply yields nil, whose payload
\* cannot be read.
CallReceive ==
  /\ call \in sent
  /\ replyCh[call].full # 0 \/ replyCh[call].closed
  /\ replyCh' = [replyCh EXCEPT ![call].full = 0]
  /\ LET reply == replyCh[call].full
     IN  faults' = faults \cup (IF reply = 0 THEN {"panic"}
                                ELSE IF corr[reply] # call THEN {"foreign"} ELSE {})
  /\ pending' = [pending EXCEPT ![manager] = @ \ {call}]
  /\ call' = 0
  /\ UNCHANGED <<manager, created, made, sent, listener, held, corr, replyQ>>

CallTimeout ==
  /\ call \in sent
  /\ pending' = [pending EXCEPT ![manager] = @ \ {call}]
  /\ call' = 0
  /\ UNCHANGED <<manager, created, made, sent, replyCh, listener, held, corr, replyQ, faults>>

\* Close, in the deferred cleanup of the connection.
Close ==
  /\ manager # 0 /\ call = 0
  /\ replyCh' = [c \in Calls |-> IF c \in pending[manager] THEN [replyCh[c] EXCEPT !.closed = TRUE]
                                                           ELSE replyCh[c]]
  /\ faults' = faults \cup {"panic" : c \in {d \in pending[manager] : replyCh[d].closed}}
  /\ pending' = [pending EXCEPT ![manager] = {}]
  /\ manager' = 0
  /\ UNCHANGED <<created, callerVars, listener, held, corr, replyQ>>

-----------------------------------------------------------------------------
(* The listener of manager k.                                               *)

Goes(k, s) == listener' = [listener EXCEPT ![k] = s]

\* done is closed; select may still prefer a reply.
Stop(k) ==
  /\ listener[k] = "idle" /\ manager # k
  /\ Goes(k, "ended")
  /\ UNCHANGED <<managerVars, callerVars, replyCh, held, corr, replyQ, faults>>

\* Mutant: the caller's deferred delete is left to clear the entry.
ReceiveKeepsPending(k) ==
  LET r == replyQ.box[k] c == corr[r]
  IN  /\ listener[k] = "idle" /\ r # 0
      /\ replyQ' = [replyQ EXCEPT !.box[k] = 0]
      /\ IF c = 0 THEN UNCHANGED <<held, listener>>
         ELSE held' = [held EXCEPT ![k] = r] /\ Goes(k, IF c \in pending[k] THEN "handover" ELSE "ack")
      /\ UNCHANGED <<managerVars, callerVars, replyCh, corr, faults>>

\* handleReply: a reply without a correlation ID is ignored and stays in
\* flight; otherwise the pending entry is taken out under the lock, ...
Receive(k) ==
  LET r == replyQ.box[k] c == corr[r]
  IN  /\ listener[k] = "idle" /\ r # 0
      /\ replyQ' = [replyQ EXCEPT !.box[k] = 0]
      /\ IF c = 0 THEN UNCHANGED <<held, listener>>
         ELSE held' = [held EXCEPT ![k] = r] /\ Goes(k, IF c \in pending[k] THEN "handover" ELSE "ack")
      /\ pending' = [pending EXCEPT ![k] = @ \ {c}]
      /\ UNCHANGED <<manager, created, callerVars, replyCh, corr, faults>>

\* ... the reply is handed over if the channel has room, the channel closed, ...
Handover(k) ==
  LET c == corr[held[k]]
  IN  /\ listener[k] = "handover"
      /\ replyCh' = [replyCh EXCEPT ![c] = [full   |-> IF @.full = 0 THEN held[k] ELSE @.full,
                                            closed |-> TRUE]]
      /\ faults' = faults \cup (IF replyCh[c].closed THEN {"panic"} ELSE {})
      /\ Goes(k, "ack")
      /\ UNCHANGED <<managerVars, callerVars, held, corr, replyQ>>

\* ... and the reply acked, wherever it is by now.
AckReply(k) ==
  /\ listener[k] = "ack"
  /\ replyQ' = IF held[k] \in replyQ.inFlight
                 THEN TryDeliver([replyQ EXCEPT !.inFlight = @ \ {held[k]}])
                 ELSE replyQ
  /\ held' = [held EXCEPT ![k] = 0]
  /\ Goes(k, "idle")
  /\ UNCHANGED <<managerVars, callerVars, replyCh, corr, faults>>

CallNext ==
  \/ \E c \in sent \cup {0} : PublishReply(c)
  \/ \E r \in Replies \cup {0} : RequeueReply(r)
  \/ CallStart \/ CallPublish \/ CallReceive \/ CallTimeout \/ Close
  \/ \E k \in Managers : Receive(k) \/ Stop(k) \/ Handover(k) \/ AckReply(k)

\* The reaper ticks, the goroutines run, and a caller takes the reply it was
\* handed.  Nothing says that a call times out, or that anyone replies.
CallFairness ==
  /\ \A r \in Replies \cup {0} : WF_callVars(RequeueReply(r))
  /\ WF_callVars(CallReceive)
  /\ \A k \in Managers : WF_callVars(Receive(k) \/ Handover(k) \/ AckReply(k))

-----------------------------------------------------------------------------
(* Properties.                                                              *)

\* Duplicate, late and foreign replies do no harm: a call returns a reply to
\* itself or none, no channel is closed twice or read as nil, and only the
\* running call has an entry in the pending map.
CallOwnReply ==
  /\ CallTypeOK
  /\ faults = {}
  /\ \A k \in Managers : pending[k] \subseteq {call}

\* The reply is still in the reply queue, waiting or in flight.
Open(r) == r \in replyQ.inFlight \/ \E i \in 1 .. Len(replyQ.messages) : replyQ.messages[i] = r

\* The caller waits for just this reply.
Awaited(r) == call \in sent /\ r <= Len(corr) /\ corr[r] = call

\* Only the listener of the running connection works on replies.
Alone == \A k \in Managers \ {manager} : listener[k] \in {"none", "ended"}

\* A reply that is in the reply queue while its caller waits ends the wait,
\* also if the queue still has the consumer of a connection that is gone and
\* delivers the reply to it first.
ReplyArrives ==
  (Alone /\ \E r \in Replies : Awaited(r) /\ Open(r)) ~> (call = 0)
=============================================================================
