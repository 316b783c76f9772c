------------------------------- MODULE Queue -------------------------------
(***************************************************************************)
(* One queue of the broker (internal/broker/queue.go), without consumer    *)
(* groups: pending messages, messages in flight, the consumers competing   *)
(* for them and the ordering-key assignments.                              *)
(*                                                                         *)
(* Every operation runs under q.mu.  Most end in tryDeliver, a loop that   *)
(* hands out the head of the queue; while it runs, the consumers' own      *)
(* goroutines may empty their channels.  So an operation that ends in      *)
(* tryDeliver leaves the lock held, and only the steps of the loop (one    *)
(* per message, and the one that ends it) and receives can follow.         *)
(*                                                                         *)
(* Time is abstracted to one bit per message: it is in `hidden` while its  *)
(* VisibleAt lies in the future.                                           *)
(***************************************************************************)
EXTENDS Slices

CONSTANTS
  MaxMessages,      \* how many messages are ever offered to the queue
  Ids, IdOf,        \* the ID each message carries (custom IDs may repeat)
  Keys, NoKey,      \* ordering keys; NoKey for a message without one
  KeyOf, Hash,      \* a message's ordering key; fnv32a of a key
  Consumers,        \* the consumers that may subscribe
  NoConsumer,       \* "no entry" in keyAssignments
  MaxSize,          \* q.maxSize, 0 for unlimited
  FailurePolicy,    \* q.failurePolicy
  MaxRetries,       \* q.maxRetries
  RestoredAttempts, \* attempt counts a recovered message may carry
  RestoredHidden,   \* may a recovered message carry a future VisibleAt?
  MaxAttempt        \* bound: a message is not redelivered beyond this attempt

Messages == 1 .. MaxMessages
Policies == {"dlq", "drop", "infinite"}
ChanCap  == 1       \* make(chan *Message, 1)

ASSUME QueueAssumption ==
  /\ MaxMessages \in Nat
  /\ IdOf \in [Messages -> Ids]
  /\ NoKey \notin Keys
  /\ KeyOf \in [Messages -> Keys \cup {NoKey}]
  /\ Hash \in [Keys -> Nat]
  /\ NoConsumer \notin Consumers
  /\ MaxSize \in Nat
  /\ FailurePolicy \in Policies
  /\ MaxRetries \in Nat
  /\ RestoredAttempts \subseteq Nat
  /\ RestoredHidden \subseteq BOOLEAN
  /\ MaxAttempt \in Nat

VARIABLES
  messages,        \* q.messages: pending messages, head first
  inFlight,        \* the values of q.inFlight (at most one per ID)
  consumers,       \* q.consumers
  nextIdx,         \* q.nextIdx, 0-based as in the code
  keyAssignments,  \* q.keyAssignments
  ch,              \* the copies buffered in each consumer's channel
  attempt,         \* msg.Attempt
  hidden,          \* messages whose VisibleAt is after now
  locked,          \* q.mu is held by a running tryDeliver
  outcome          \* history: how far each message has come

vars == <<messages, inFlight, consumers, nextIdx, keyAssignments, ch, attempt,
          hidden, locked, outcome>>

Copies   == [msg : Messages, attempt : Nat]
Terminal == {"acked", "dead", "dropped", "purged", "removed"}
Outcomes == {"unpublished", "rejected", "accepted"} \cup Terminal

Pending    == Range(messages)
Registered == Range(consumers)
Accepted   == {m \in Messages : outcome[m] = "accepted"}

TypeOK ==
  /\ messages \in Seq(Messages)
  /\ inFlight \subseteq Messages
  /\ consumers \in Seq(Consumers)
  /\ nextIdx \in Nat
  /\ keyAssignments \in [Keys -> Consumers \cup {NoConsumer}]
  /\ ch \in [Consumers -> Seq(Copies)]
  /\ \A c \in Consumers : Len(ch[c]) <= ChanCap
  /\ attempt \in [Messages -> Nat]
  /\ hidden \subseteq Messages
  /\ locked \in BOOLEAN
  /\ outcome \in [Messages -> Outcomes]

Init ==
  /\ messages = << >>
  /\ inFlight = {}
  /\ consumers = << >>
  /\ nextIdx = 0
  /\ keyAssignments = [k \in Keys |-> NoConsumer]
  /\ ch = [c \in Consumers |-> << >>]
  /\ attempt = [m \in Messages |-> 0]
  /\ hidden = {}
  /\ locked = FALSE
  /\ outcome = [m \in Messages |-> "unpublished"]

-----------------------------------------------------------------------------
(* The delivery loop.                                                       *)

HasRoom(c) == Len(ch[c]) < ChanCap

\* The loop looks at the head, and only when it is visible.
HeadReady == /\ consumers # << >>
             /\ messages # << >>
             /\ Head(messages) \notin hidden

\* Mutant: the hash alone decides, so a key moves when a consumer joins.
AssigneeByHash(k) == consumers[(Hash[k] % Len(consumers)) + 1]

\* The consumer an ordering key goes to: its assigned one, or else the one
\* its hash selects among the present consumers.
Assignee(k) == IF keyAssignments[k] # NoConsumer
               THEN keyAssignments[k]
               ELSE consumers[(Hash[k] % Len(consumers)) + 1]

\* Consumers with room, as distances from the round-robin index.
Slot(j)   == ((nextIdx + j) % Len(consumers)) + 1
FreeSlots == {j \in 0 .. Len(consumers) - 1 : HasRoom(consumers[Slot(j)])}

\* A copy carrying the next attempt number is sent, the head is popped, and
\* the message is entered in the in-flight map under its ID.
SendHead(c) ==
  LET m == Head(messages) IN
  /\ ch' = [ch EXCEPT ![c] = Append(@, [msg |-> m, attempt |-> attempt[m] + 1])]
  /\ messages' = Tail(messages)
  /\ attempt' = [attempt EXCEPT ![m] = @ + 1]
  /\ hidden' = hidden \cup {m}
  /\ inFlight' = {n \in inFlight : IdOf[n] # IdOf[m]} \cup {m}

DeliverOrdered ==
  /\ locked
  /\ HeadReady
  /\ KeyOf[Head(messages)] # NoKey
  /\ LET k == KeyOf[Head(messages)]
         c == Assignee(k)
     IN  /\ HasRoom(c)
         /\ keyAssignments' = [keyAssignments EXCEPT ![k] = c]
         /\ SendHead(c)
  /\ UNCHANGED <<consumers, nextIdx, locked, outcome>>

DeliverRoundRobin ==
  /\ locked
  /\ HeadReady
  /\ KeyOf[Head(messages)] = NoKey
  /\ \E j \in FreeSlots :
       /\ \A i \in FreeSlots : j <= i
       /\ SendHead(consumers[Slot(j)])
       /\ nextIdx' = Slot(j) % Len(consumers)
  /\ UNCHANGED <<consumers, keyAssignments, locked, outcome>>

\* The loop ends: nothing to deliver, the head is not visible, or there is no
\* room.  A key met for the first time is assigned even if nothing was sent.
DeliverStop ==
  /\ locked
  /\ \/ /\ ~HeadReady
        /\ UNCHANGED keyAssignments
     \/ /\ HeadReady
        /\ KeyOf[Head(messages)] # NoKey
        /\ LET k == KeyOf[Head(messages)] IN
             /\ ~HasRoom(Assignee(k))
             /\ keyAssignments' = [keyAssignments EXCEPT ![k] = Assignee(k)]
     \/ /\ HeadReady
        /\ KeyOf[Head(messages)] = NoKey
        /\ FreeSlots = {}
        /\ UNCHANGED keyAssignments
  /\ locked' = FALSE
  /\ UNCHANGED <<messages, inFlight, consumers, nextIdx, ch, attempt, hidden,
                 outcome>>

-----------------------------------------------------------------------------
(* Operations.                                                              *)

IsNext(m) == /\ outcome[m] = "unpublished"
             /\ \A n \in Messages : n < m => outcome[n] # "unpublished"

IsFull == MaxSize > 0 /\ Len(messages) >= MaxSize

\* Mutant: new messages overtake those already waiting.
EnqueueAtHead(m) ==
  /\ ~locked
  /\ IsNext(m)
  /\ ~IsFull
  /\ messages' = <<m>> \o messages
  /\ outcome' = [outcome EXCEPT ![m] = "accepted"]
  /\ locked' = TRUE
  /\ UNCHANGED <<inFlight, consumers, nextIdx, keyAssignments, ch, attempt, hidden>>

Enqueue(m) ==
  /\ ~locked
  /\ IsNext(m)
  /\ ~IsFull
  /\ messages' = Append(messages, m)
  /\ outcome' = [outcome EXCEPT ![m] = "accepted"]
  /\ locked' = TRUE
  /\ UNCHANGED <<inFlight, consumers, nextIdx, keyAssignments, ch, attempt, hidden>>

EnqueueFull(m) ==
  /\ ~locked
  /\ IsNext(m)
  /\ IsFull
  /\ outcome' = [outcome EXCEPT ![m] = "rejected"]
  /\ UNCHANGED <<messages, inFlight, consumers, nextIdx, keyAssignments, ch,
                 attempt, hidden, locked>>

\* Recovery: no size check, and the message keeps its stored delivery state.
EnqueueDirect(m, a, h) ==
  /\ ~locked
  /\ IsNext(m)
  /\ messages' = Append(messages, m)
  /\ attempt' = [attempt EXCEPT ![m] = a]
  /\ hidden' = IF h THEN hidden \cup {m} ELSE hidden
  /\ outcome' = [outcome EXCEPT ![m] = "accepted"]
  /\ locked' = TRUE
  /\ UNCHANGED <<inFlight, consumers, nextIdx, keyAssignments, ch>>

Dequeue(c) ==
  /\ ~locked
  /\ c \notin Registered
  /\ ch[c] = << >>
  /\ consumers' = Append(consumers, c)
  /\ locked' = TRUE
  /\ UNCHANGED <<messages, inFlight, nextIdx, keyAssignments, ch, attempt,
                 hidden, outcome>>

\* The channel is closed, but what it buffers can still be received.
RemoveConsumer(i) ==
  /\ ~locked
  /\ keyAssignments' = [k \in Keys |-> IF keyAssignments[k] = consumers[i]
                                       THEN NoConsumer ELSE keyAssignments[k]]
  /\ consumers' = Without(consumers, i)
  /\ UNCHANGED <<messages, inFlight, nextIdx, ch, attempt, hidden, locked,
                 outcome>>

\* The consumer's goroutine takes a copy off its channel; no lock is needed.
Receive(c) ==
  /\ ch[c] # << >>
  /\ ch' = [ch EXCEPT ![c] = Tail(@)]
  /\ UNCHANGED <<messages, inFlight, consumers, nextIdx, keyAssignments,
                 attempt, hidden, locked, outcome>>

\* A message leaves the in-flight map for good.
SettleInFlight(m, o) ==
  /\ inFlight' = inFlight \ {m}
  /\ hidden' = hidden \ {m}
  /\ outcome' = [outcome EXCEPT ![m] = o]
  /\ UNCHANGED <<messages, consumers, nextIdx, keyAssignments, ch, attempt>>

Ack(m) ==
  /\ ~locked
  /\ m \in inFlight
  /\ SettleInFlight(m, "acked")
  /\ locked' = TRUE

RetriesExhausted(m) == FailurePolicy # "infinite" /\ attempt[m] >= MaxRetries

\* A nack that does not put the message back; it does not deliver others.
NackTerminal(m, requeue) ==
  /\ ~locked
  /\ m \in inFlight
  /\ requeue => RetriesExhausted(m)
  /\ SettleInFlight(m, IF FailurePolicy = "dlq" THEN "dead" ELSE "dropped")
  /\ UNCHANGED locked

\* Mutant: the message stays in the in-flight map as well.
NackRequeueKeepsLease(m) ==
  /\ ~locked
  /\ m \in inFlight
  /\ ~RetriesExhausted(m)
  /\ attempt[m] < MaxAttempt
  /\ hidden' = hidden \ {m}
  /\ messages' = Append(messages, m)
  /\ locked' = TRUE
  /\ UNCHANGED <<inFlight, consumers, nextIdx, keyAssignments, ch, attempt, outcome>>

NackRequeue(m) ==
  /\ ~locked
  /\ m \in inFlight
  /\ ~RetriesExhausted(m)
  /\ attempt[m] < MaxAttempt
  /\ inFlight' = inFlight \ {m}
  /\ hidden' = hidden \ {m}
  /\ messages' = Append(messages, m)
  /\ locked' = TRUE
  /\ UNCHANGED <<consumers, nextIdx, keyAssignments, ch, attempt, outcome>>

\* Mutant: expired messages that find the queue full are dropped.
RequeueExpiredRespectsMaxSize ==
  /\ ~locked
  /\ LET expired == inFlight \ hidden IN
       /\ inFlight' = inFlight \ expired
       /\ IF IsFull THEN UNCHANGED messages
          ELSE \E s \in MapOrders(expired) :
                 messages' = messages \o s
  /\ locked' = TRUE
  /\ UNCHANGED <<consumers, nextIdx, keyAssignments, ch, attempt, hidden, outcome>>

\* Mutant: a tick that finds nothing expired does not try to deliver.
RequeueExpiredQuietTick ==
  /\ ~locked
  /\ LET expired == inFlight \ hidden IN
       /\ inFlight' = inFlight \ expired
       /\ \E s \in MapOrders(expired) :
            messages' = messages \o s
       /\ locked' = (expired # {})
  /\ UNCHANGED <<consumers, nextIdx, keyAssignments, ch, attempt, hidden, outcome>>

\* Mutant: the scan is skipped when nobody is connected.
RequeueExpiredNeedsConsumer ==
  /\ ~locked
  /\ consumers # << >>
  /\ LET expired == inFlight \ hidden IN
       /\ inFlight' = inFlight \ expired
       /\ \E s \in MapOrders(expired) :
            messages' = messages \o s
  /\ locked' = TRUE
  /\ UNCHANGED <<consumers, nextIdx, keyAssignments, ch, attempt, hidden, outcome>>

\* The reaper's scan: expired messages go to the back, in map order.
RequeueExpired ==
  /\ ~locked
  /\ LET expired == inFlight \ hidden IN
       /\ inFlight' = inFlight \ expired
       /\ \E s \in MapOrders(expired) :
            messages' = messages \o s
  /\ locked' = TRUE
  /\ UNCHANGED <<consumers, nextIdx, keyAssignments, ch, attempt, hidden, outcome>>

\* The new VisibleAt may lie in the future or, for an extension of 0, not.
ExtendVisibility(m, future) ==
  /\ ~locked
  /\ m \in inFlight
  /\ future \/ attempt[m] < MaxAttempt
  /\ hidden' = IF future THEN hidden \cup {m} ELSE hidden \ {m}
  /\ UNCHANGED <<messages, inFlight, consumers, nextIdx, keyAssignments, ch,
                 attempt, locked, outcome>>

\* The first pending message with the ID, else the one in flight, is deleted.
RemoveById(id) ==
  /\ ~locked
  /\ LET at == {i \in DOMAIN messages : IdOf[messages[i]] = id} IN
     \/ \E i \in at :
          /\ \A j \in at : i <= j
          /\ messages' = Without(messages, i)
          /\ hidden' = hidden \ {messages[i]}
          /\ outcome' = [outcome EXCEPT ![messages[i]] = "removed"]
          /\ UNCHANGED <<inFlight, consumers, nextIdx, keyAssignments, ch, attempt>>
     \/ /\ at = {}
        /\ \E m \in inFlight : IdOf[m] = id /\ SettleInFlight(m, "removed")
  /\ UNCHANGED locked

\* Channels keep what they hold: a purged message can still be received.
Purge ==
  /\ ~locked
  /\ messages' = << >>
  /\ inFlight' = {}
  /\ hidden' = hidden \ (Pending \cup inFlight)
  /\ outcome' = [m \in Messages |-> IF m \in Pending \cup inFlight
                                    THEN "purged" ELSE outcome[m]]
  /\ UNCHANGED <<consumers, nextIdx, keyAssignments, ch, attempt, locked>>

\* Time passes the VisibleAt of a message.  An operation reads the clock once,
\* after taking the lock, so it sees no expiry that happens while it runs.
Expire(m) ==
  /\ ~locked
  /\ m \in hidden
  /\ attempt[m] < MaxAttempt \/ m \in Pending
  /\ hidden' = hidden \ {m}
  /\ UNCHANGED <<messages, inFlight, consumers, nextIdx, keyAssignments, ch,
                 attempt, locked, outcome>>

-----------------------------------------------------------------------------
TryDeliver == DeliverOrdered \/ DeliverRoundRobin \/ DeliverStop

Next ==
  \/ TryDeliver
  \/ \E m \in Messages :
       \/ Enqueue(m)
       \/ EnqueueFull(m)
       \/ \E a \in RestoredAttempts, h \in RestoredHidden : EnqueueDirect(m, a, h)
       \/ Ack(m)
       \/ \E requeue \in BOOLEAN : NackTerminal(m, requeue)
       \/ NackRequeue(m)
       \/ \E future \in BOOLEAN : ExtendVisibility(m, future)
       \/ Expire(m)
  \/ \E c \in Consumers : Dequeue(c) \/ Receive(c)
  \/ \E i \in DOMAIN consumers : RemoveConsumer(i)
  \/ \E id \in Ids : RemoveById(id)
  \/ RequeueExpired
  \/ Purge

Spec == Init /\ [][Next]_vars

(* The loop of a lock holder runs on; consumers drain their channels; time  *)
(* passes; the reaper, which ticks for ever, keeps getting a mutex that is  *)
(* again and again free.  Clients owe nothing.                              *)
Fairness ==
  /\ WF_vars(TryDeliver)
  /\ \A c \in Consumers : WF_vars(Receive(c))
  /\ \A m \in Messages : SF_vars(Expire(m))
  /\ SF_vars(RequeueExpired)

FairSpec == Spec /\ Fairness

-----------------------------------------------------------------------------
(* Properties.                                                              *)

\* At-least-once: a message that Enqueue accepted and nobody has settled is
\* pending or in flight, whatever consumers, timeouts and nacks do.
AcceptedNotLost == Accepted \subseteq Pending \cup inFlight

\* No double work: a message is pending at most once and not also in flight,
\* and a settled message is neither, so neither tryDeliver nor the reaper can
\* hand it out again.
OnePlace ==
  /\ IsInjective(messages)
  /\ Pending \cap inFlight = {}
  /\ Pending \cup inFlight \subseteq Accepted

\* deliverOrdered sends to an assigned consumer without looking it up in
\* q.consumers: an assignment that outlived RemoveConsumer would be a send on
\* a closed channel.
AssigneeRegistered ==
  \A k \in Keys : keyAssignments[k] \in Registered \cup {NoConsumer}

\* Same key, same consumer: among the connected consumers only the assignee of
\* an ordering key ever has a message of that key in its channel.
KeyAffinity ==
  \A c \in Registered : \A i \in DOMAIN ch[c] :
    LET k == KeyOf[ch[c][i].msg] IN k # NoKey => keyAssignments[k] = c

\* cloneMessage numbers the copy before msg.Attempt is incremented: every copy
\* of a message still waiting in a channel has its own attempt number, none
\* beyond the message's own count.
CopiesDistinct ==
  \A c, d \in Consumers : \A i \in DOMAIN ch[c], j \in DOMAIN ch[d] :
    /\ ch[c][i].attempt <= attempt[ch[c][i].msg]
    /\ ch[c][i] = ch[d][j] => c = d /\ i = j

\* The strict-FIFO loop stops at a head that is not yet visible.  Unless
\* recovery brings one, no pending message is: requeued messages are made
\* visible before they are appended, so nothing blocks the line by time.
PendingVisible == RestoredHidden \subseteq {FALSE} => Pending \cap hidden = {}

\* The queue implements the contract of LeaseQueue.  A message is mapped by
\* where it is; one that is accepted and nowhere has no abstract status.
StatusOf(m) ==
  IF m \in inFlight THEN "leased"
  ELSE IF m \in Pending THEN (IF attempt[m] = 0 THEN "fresh" ELSE "ready")
  ELSE IF outcome[m] \in Terminal THEN "settled"
  ELSE IF outcome[m] = "rejected" THEN "refused"
  ELSE IF outcome[m] = "accepted" THEN "lost" ELSE "unpublished"

Status == [m \in Messages |-> StatusOf(m)]

Contract == INSTANCE LeaseQueue WITH status <- Status

ImplementsContract == Contract!LeaseSpec

\* A queue that keeps having a consumer hands out every pending message, also
\* behind a full channel of an ordering key's consumer: channels drain, and
\* the reaper's tick delivers again even when no client does anything.
PendingDelivered ==
  <>[](consumers # << >>) => \A m \in Messages : m \in Pending ~> m \notin Pending

\* An expired message does not stay in flight: the reaper requeues it unless
\* it is settled or its visibility extended first.
ExpiredRequeued ==
  \A m \in Messages :
    m \in inFlight \ hidden ~> m \notin inFlight \/ m \in hidden
=============================================================================
