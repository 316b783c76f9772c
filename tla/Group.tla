------------------------------- MODULE Group -------------------------------
(***************************************************************************)
(* A consumer group of a queue (internal/broker/group.go): its own pending *)
(* messages, the member that holds each message in flight, heartbeats and  *)
(* the group's delivery loop.                                              *)
(*                                                                         *)
(* As in Queue, an operation that ends in tryDeliver leaves the lock held; *)
(* the loop then runs one select per step, and members may empty their     *)
(* channels between two selects.  The loop is kept as the code has it: the *)
(* `break` after a send leaves the select, not the scan over the members.  *)
(***************************************************************************)
EXTENDS Slices

CONSTANTS
  MaxMessages,      \* how many messages the queue fans out to the group
  Members,          \* the consumers that may join, by member ID
  NoMember,         \* "not in flight"
  MaxMembers,       \* bound: how many are members at the same time
  FailurePolicy,    \* the queue's failure policy and retry limit
  MaxRetries,
  AttemptCap        \* attempts are counted up to this many; the code only
                    \* compares them with the retry limit

Messages == 1 .. MaxMessages
Policies == {"dlq", "drop", "infinite"}
ChanCap  == 1       \* make(chan *Message, 1)
NoMessage == 0

ASSUME GroupAssumption ==
  /\ MaxMessages \in Nat
  /\ NoMember \notin Members
  /\ MaxMembers \in Nat
  /\ FailurePolicy \in Policies
  /\ MaxRetries \in Nat
  /\ AttemptCap \in Nat \ {0}
  /\ AttemptCap >= MaxRetries

VARIABLES
  messages,   \* g.messages
  owner,      \* g.inFlight: the member each message is in flight with
  members,    \* g.members
  nextIdx,    \* g.nextIdx, 0-based
  ch,         \* what each member's channel buffers
  attempt,    \* msg.Attempt of the group's clone
  hidden,     \* clones whose VisibleAt is after now
  silent,     \* members whose last heartbeat is older than the timeout
  pc,         \* "idle", or where the lock holder's tryDeliver is
  cur, j,     \* msg and j of the loop
  delivered,  \* `delivered` of the loop
  panicked,   \* the process has died of a run-time panic
  outcome     \* history: how far each message has come in this group

vars == <<messages, owner, members, nextIdx, ch, attempt, hidden, silent, pc,
          cur, j, delivered, panicked, outcome>>

Terminal == {"acked", "dead", "dropped"}

Pending  == Range(messages)
InFlight == {n \in Messages : owner[n] # NoMember}
Joined   == Range(members)

GroupTypeOK ==
  /\ messages \in Seq(Messages)
  /\ owner \in [Messages -> Members \cup {NoMember}]
  /\ members \in Seq(Members)
  /\ nextIdx \in Nat
  /\ ch \in [Members -> Seq(Messages)]
  /\ \A m \in Members : Len(ch[m]) <= ChanCap
  /\ attempt \in [Messages -> Nat]
  /\ hidden \subseteq Messages
  /\ silent \subseteq Joined
  /\ pc \in {"idle", "head", "scan"}
  /\ cur \in Messages \cup {NoMessage}
  /\ j \in Nat
  /\ delivered \in BOOLEAN
  /\ panicked \in BOOLEAN
  /\ outcome \in [Messages -> {"unpublished", "accepted"} \cup Terminal]

Init ==
  /\ messages = << >>
  /\ owner = [n \in Messages |-> NoMember]
  /\ members = << >>
  /\ nextIdx = 0
  /\ ch = [m \in Members |-> << >>]
  /\ attempt = [n \in Messages |-> 0]
  /\ hidden = {}
  /\ silent = {}
  /\ pc = "idle"
  /\ cur = NoMessage
  /\ j = 0
  /\ delivered = FALSE
  /\ panicked = FALSE
  /\ outcome = [n \in Messages |-> "unpublished"]

-----------------------------------------------------------------------------
(* tryDeliver.                                                              *)

\* Mutant: the loop condition is off by one, so the last message stays.
HeadReadyOffByOne == /\ members # << >>
                     /\ Len(messages) > 1
                     /\ Head(messages) \notin hidden

HeadReady == /\ members # << >>
             /\ messages # << >>
             /\ Head(messages) \notin hidden

HasRoom(m) == Len(ch[m]) < ChanCap

\* The outer loop takes the head, or returns.
TryHead ==
  /\ pc = "head"
  /\ IF HeadReady THEN pc' = "scan" /\ cur' = Head(messages)
                  ELSE pc' = "idle" /\ UNCHANGED cur
  /\ UNCHANGED <<messages, owner, members, nextIdx, ch, attempt, hidden, silent,
                 j, delivered, panicked, outcome>>

\* The member that iteration j looks at; g.nextIdx moves with every send.
Idx       == (nextIdx + j) % Len(members)
Candidate == members[Idx + 1]


\* The next iteration; after the last one the outer loop goes on if something
\* was sent, and the loop's variables are gone.
Advance(sent) ==
  LET more == j + 1 < Len(members) IN
  /\ pc' = IF more THEN "scan" ELSE IF sent THEN "head" ELSE "idle"
  /\ j' = IF more THEN j + 1 ELSE 0
  /\ delivered' = (more /\ sent)
  /\ cur' = IF more THEN cur ELSE NoMessage

\* case m.ch <- msg: the head is popped, whichever message it is by now; with
\* nothing left to pop, g.messages[1:] is out of range.
TrySend ==
  /\ pc = "scan"
  /\ ~panicked
  /\ HasRoom(Candidate)
  /\ ch' = [ch EXCEPT ![Candidate] = Append(@, cur)]
  /\ IF messages = << >>
     THEN /\ panicked' = TRUE
          /\ UNCHANGED <<messages, owner, nextIdx, attempt, hidden, pc, cur, j, delivered>>
     ELSE /\ messages' = Tail(messages)
          /\ attempt' = [attempt EXCEPT ![cur] = IF @ < AttemptCap THEN @ + 1 ELSE @]
          /\ hidden' = hidden \cup {cur}
          /\ owner' = [owner EXCEPT ![cur] = Candidate]
          /\ nextIdx' = (Idx + 1) % Len(members)
          /\ Advance(TRUE)
          /\ UNCHANGED panicked
  /\ UNCHANGED <<members, silent, outcome>>

\* default: the channel is full.
TryFull ==
  /\ pc = "scan"
  /\ ~panicked
  /\ ~HasRoom(Candidate)
  /\ Advance(delivered)
  /\ UNCHANGED <<messages, owner, members, nextIdx, ch, attempt, hidden, silent,
                 panicked, outcome>>

TryDeliver == TryHead \/ TrySend \/ TryFull

-----------------------------------------------------------------------------
(* Operations.  Each takes g.mu; all but Heartbeat and the nacks that settle *)
(* a message end in tryDeliver.                                             *)

Idle       == pc = "idle" /\ ~panicked
AndDeliver == pc' = "head" /\ UNCHANGED <<cur, j, delivered, panicked>>
AndReturn  == UNCHANGED <<pc, cur, j, delivered, panicked>>

\* Mutant: new messages overtake those already waiting.
EnqueueAtHead(n) ==
  /\ Idle
  /\ outcome[n] = "unpublished"
  /\ \A k \in Messages : k < n => outcome[k] # "unpublished"
  /\ messages' = <<n>> \o messages
  /\ outcome' = [outcome EXCEPT ![n] = "accepted"]
  /\ AndDeliver
  /\ UNCHANGED <<owner, members, nextIdx, ch, attempt, hidden, silent>>

\* The queue fans a message out: the group's clone starts afresh.
Enqueue(n) ==
  /\ Idle
  /\ outcome[n] = "unpublished"
  /\ \A k \in Messages : k < n => outcome[k] # "unpublished"
  /\ messages' = Append(messages, n)
  /\ outcome' = [outcome EXCEPT ![n] = "accepted"]
  /\ AndDeliver
  /\ UNCHANGED <<owner, members, nextIdx, ch, attempt, hidden, silent>>

\* A connection consumes with a group name; its channel is new.
AddMember(m) ==
  /\ Idle
  /\ m \notin Joined
  /\ ch[m] = << >>
  /\ Len(members) < MaxMembers
  /\ members' = Append(members, m)
  /\ AndDeliver
  /\ UNCHANGED <<messages, owner, nextIdx, ch, attempt, hidden, silent, outcome>>

\* Messages S go back to the end of the queue in order s, visible at once.
Requeue(S, s) ==
  /\ messages' = messages \o s
  /\ owner' = [n \in Messages |-> IF n \in S THEN NoMember ELSE owner[n]]
  /\ hidden' = hidden \ S

HeldBy(M) == {n \in Messages : owner[n] \in M}

\* nextIdx is corrected when the list has become too short for it.
Reindex(newMembers) ==
  nextIdx' = IF nextIdx >= Len(newMembers) /\ newMembers # << >> THEN 0 ELSE nextIdx

RemoveMember(i) ==
  /\ Idle
  /\ members' = Without(members, i)
  /\ Reindex(Without(members, i))
  /\ \E s \in MapOrders(HeldBy({members[i]})) : Requeue(HeldBy({members[i]}), s)
  /\ silent' = silent \ {members[i]}
  /\ AndDeliver
  /\ UNCHANGED <<ch, attempt, outcome>>

Heartbeat(m) ==
  /\ Idle
  /\ m \in Joined
  /\ silent' = silent \ {m}
  /\ AndReturn
  /\ UNCHANGED <<messages, owner, members, nextIdx, ch, attempt, hidden, outcome>>


\* Mutant: the last member is never reaped.
ReapDeadMembersSparesLast ==
  LET alive == SelectSeq(members, LAMBDA m : m \notin silent) IN
  /\ Idle
  /\ Len(members) > 1
  /\ \E s \in MapOrders(HeldBy(silent)) : Requeue(HeldBy(silent), s)
  /\ members' = alive
  /\ Reindex(alive)
  /\ silent' = {}
  /\ AndDeliver
  /\ UNCHANGED <<ch, attempt, outcome>>

\* Silent members leave in list order, each giving back what it held.
ReapDeadMembers ==
  LET alive == SelectSeq(members, LAMBDA m : m \notin silent)
      at(n) == CHOOSE i \in DOMAIN members : members[i] = owner[n]
  IN  /\ Idle
      /\ \E s \in MapOrders(HeldBy(silent)) :
           /\ \A a, b \in DOMAIN s : a < b => at(s[a]) <= at(s[b])
           /\ Requeue(HeldBy(silent), s)
      /\ members' = alive
      /\ Reindex(alive)
      /\ silent' = {}
      /\ AndDeliver
      /\ UNCHANGED <<ch, attempt, outcome>>

RequeueExpired ==
  LET expired == InFlight \ hidden IN
  /\ Idle
  /\ \E s \in MapOrders(expired) : Requeue(expired, s)
  /\ AndDeliver
  /\ UNCHANGED <<members, nextIdx, ch, attempt, silent, outcome>>

\* A message leaves the group for good.
Settle(n, o) ==
  /\ owner' = [owner EXCEPT ![n] = NoMember]
  /\ hidden' = hidden \ {n}
  /\ outcome' = [outcome EXCEPT ![n] = o]
  /\ UNCHANGED <<messages, members, nextIdx, ch, attempt, silent>>

Ack(n) ==
  /\ Idle
  /\ n \in InFlight
  /\ Settle(n, "acked")
  /\ AndDeliver

RetriesExhausted(n) == FailurePolicy # "infinite" /\ attempt[n] >= MaxRetries

NackTerminal(n, requeue) ==
  /\ Idle
  /\ n \in InFlight
  /\ requeue => RetriesExhausted(n)
  /\ Settle(n, IF FailurePolicy = "dlq" THEN "dead" ELSE "dropped")
  /\ AndReturn

NackRequeue(n) ==
  /\ Idle
  /\ n \in InFlight
  /\ ~RetriesExhausted(n)
  /\ Requeue({n}, <<n>>)
  /\ AndDeliver
  /\ UNCHANGED <<members, nextIdx, ch, attempt, silent, outcome>>

\* A member's goroutine takes the message from its channel, at any time.
Receive(m) ==
  /\ ~panicked
  /\ ch[m] # << >>
  /\ ch' = [ch EXCEPT ![m] = Tail(@)]
  /\ AndReturn
  /\ UNCHANGED <<messages, owner, members, nextIdx, attempt, hidden, silent, outcome>>

\* Time passes: a visibility timeout, or the heartbeat timeout of a member.
\* Operations read the clock once, after taking the lock.
Expire(n) ==
  /\ Idle
  /\ n \in hidden
  /\ hidden' = hidden \ {n}
  /\ AndReturn
  /\ UNCHANGED <<messages, owner, members, nextIdx, ch, attempt, silent, outcome>>

FallSilent(m) ==
  /\ Idle
  /\ m \in Joined \ silent
  /\ silent' = silent \cup {m}
  /\ AndReturn
  /\ UNCHANGED <<messages, owner, members, nextIdx, ch, attempt, hidden, outcome>>

Next ==
  \/ TryDeliver
  \/ \E n \in Messages :
       \/ Enqueue(n)
       \/ Ack(n)
       \/ \E requeue \in BOOLEAN : NackTerminal(n, requeue)
       \/ NackRequeue(n)
       \/ Expire(n)
  \/ \E m \in Members :
       AddMember(m) \/ Heartbeat(m) \/ Receive(m) \/ FallSilent(m)
  \/ \E i \in DOMAIN members : RemoveMember(i)
  \/ ReapDeadMembers
  \/ RequeueExpired

Spec == Init /\ [][Next]_vars

(* As for the queue: the lock holder's loop runs on, members drain their    *)
(* channels, time passes, and the reaper, which ticks for ever, keeps       *)
(* getting the mutex.  Members owe neither heartbeats nor acks.             *)
Fairness ==
  /\ WF_vars(TryDeliver)
  /\ \A m \in Members : WF_vars(Receive(m))
  /\ \A n \in Messages : SF_vars(Expire(n))
  /\ SF_vars(RequeueExpired)
  /\ SF_vars(ReapDeadMembers)

FairSpec == Spec /\ Fairness

-----------------------------------------------------------------------------
(* Properties.                                                              *)

\* At-least-once within the group: a message fanned out to the group and not
\* settled in it is pending or in flight with a member.
GroupNotLost ==
  \A n \in Messages : outcome[n] = "accepted" => n \in Pending \cup InFlight



\* The group implements the contract of LeaseQueue.
StatusOf(n) ==
  IF n \in InFlight THEN "leased"
  ELSE IF n \in Pending THEN (IF attempt[n] = 0 THEN "fresh" ELSE "ready")
  ELSE IF outcome[n] \in Terminal THEN "settled"
  ELSE IF outcome[n] = "accepted" THEN "lost" ELSE "unpublished"

Status == [n \in Messages |-> StatusOf(n)]

Contract == INSTANCE LeaseQueue WITH status <- Status

GroupImplementsContract == Contract!LeaseSpec

\* A group that keeps having a member hands out every pending message, also to
\* a member that never sends a heartbeat and until it is reaped.
GroupPendingDelivered ==
  <>[](members # << >>) => \A n \in Messages : n \in Pending ~> n \notin Pending

\* A member that fell silent does not stay: the reaper takes it out unless it is
\* heard again.  Until then visibility timeouts alone would hand the messages it
\* never answers for to it again and again.
SilentReaped == \A m \in Members : m \in silent ~> m \notin silent
=============================================================================
