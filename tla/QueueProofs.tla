---------------------------- MODULE QueueProofs ----------------------------
(***************************************************************************)
(* What holds of every queue, for any number of messages and consumers and *)
(* any configuration: the invariants of Queue by induction over its steps. *)
(***************************************************************************)
EXTENDS Queue, SeqLemmas

-----------------------------------------------------------------------------
(* Type correctness.                                                        *)

LEMMA FiniteMessages == IsFiniteSet(Messages)
  BY QueueAssumption, FS_Interval DEF Messages

\* The delivery loop only ever picks a consumer: the assignee of a key is one
\* if assignments are, and so is the consumer in a round-robin slot.
LEMMA PicksConsumer ==
  ASSUME TypeOK, consumers # << >>
  PROVE  /\ \A k \in Keys : Assignee(k) \in Consumers
         /\ \A j \in 0 .. Len(consumers) - 1 :
              Slot(j) \in 1 .. Len(consumers) /\ consumers[Slot(j)] \in Consumers
  <1>1. Len(consumers) \in Nat \ {0} /\ nextIdx \in Nat
    BY EmptySeq DEF TypeOK
  <1>2. \A n \in Nat : (n % Len(consumers)) + 1 \in 1 .. Len(consumers)
    BY <1>1
  <1>3. \A i \in 1 .. Len(consumers) : consumers[i] \in Consumers
    BY ElementOfSeq DEF TypeOK
  <1>4. ASSUME NEW k \in Keys PROVE Assignee(k) \in Consumers
    <2>1. Hash[k] \in Nat
      BY QueueAssumption
    <2>2. consumers[(Hash[k] % Len(consumers)) + 1] \in Consumers
      BY <1>2, <1>3, <2>1
    <2> QED BY <2>2 DEF Assignee, TypeOK
  <1>5. ASSUME NEW j \in 0 .. Len(consumers) - 1
        PROVE  Slot(j) \in 1 .. Len(consumers) /\ consumers[Slot(j)] \in Consumers
    <2>1. nextIdx + j \in Nat
      BY <1>1
    <2> QED BY <1>2, <1>3, <2>1 DEF Slot
  <1> QED BY <1>4, <1>5

\* Handing out the head keeps the types, and no channel overflows.
LEMMA SendHeadType ==
  ASSUME TypeOK, messages # << >>, NEW c \in Consumers, HasRoom(c), SendHead(c)
  PROVE  /\ messages' \in Seq(Messages)
         /\ inFlight' \subseteq Messages
         /\ ch' \in [Consumers -> Seq(Copies)]
         /\ \A d \in Consumers : Len(ch'[d]) <= ChanCap
         /\ attempt' \in [Messages -> Nat]
         /\ hidden' \subseteq Messages
  <1> DEFINE m == Head(messages)
             x == [msg |-> m, attempt |-> attempt[m] + 1]
  <1>1. m \in Messages /\ Tail(messages) \in Seq(Messages)
    BY RangeTail DEF TypeOK
  <1>2. x \in Copies
    BY <1>1 DEF TypeOK, Copies
  <1>3. ch' = [ch EXCEPT ![c] = Append(@, x)]
    BY DEF SendHead
  <1>4. /\ Append(ch[c], x) \in Seq(Copies)
        /\ Len(Append(ch[c], x)) = Len(ch[c]) + 1 /\ Len(ch[c]) \in Nat
    BY <1>2, AppendProperties DEF TypeOK
  <1>5. /\ ch' \in [Consumers -> Seq(Copies)]
        /\ \A d \in Consumers : Len(ch'[d]) <= ChanCap
    <2> HIDE DEF x
    <2>1. \A d \in Consumers : ch'[d] = IF d = c THEN Append(ch[c], x) ELSE ch[d]
      BY <1>3 DEF TypeOK
    <2> QED BY <1>3, <1>4, <2>1 DEF TypeOK, HasRoom, ChanCap
  <1>6. messages' \in Seq(Messages) /\ inFlight' \subseteq Messages
        /\ hidden' \subseteq Messages
    BY <1>1 DEF SendHead, TypeOK
  <1>7. attempt' \in [Messages -> Nat]
    BY <1>1 DEF SendHead, TypeOK
  <1> QED BY <1>5, <1>6, <1>7

LEMMA InitTypeOK == Init => TypeOK
  <1> SUFFICES ASSUME Init PROVE TypeOK
    OBVIOUS
  <1>1. ch \in [Consumers -> Seq(Copies)] /\ \A c \in Consumers : Len(ch[c]) <= ChanCap
    BY DEF Init, ChanCap
  <1>2. messages \in Seq(Messages) /\ consumers \in Seq(Consumers)
    BY DEF Init
  <1>3. outcome \in [Messages -> Outcomes]
    BY DEF Init, Outcomes
  <1> QED BY <1>1, <1>2, <1>3 DEF Init, TypeOK

\* No step of the queue breaks its types; in particular tryDeliver never sends
\* to a channel without room (it would block with q.mu held).
LEMMA NextTypeOK == TypeOK /\ [Next]_vars => TypeOK'
  <1> SUFFICES ASSUME TypeOK, [Next]_vars PROVE TypeOK'
    OBVIOUS
  <1>1. CASE DeliverOrdered
    <2> DEFINE k == KeyOf[Head(messages)]
    <2>1. messages # << >> /\ consumers # << >> /\ k # NoKey
      BY <1>1 DEF DeliverOrdered, HeadReady
    <2>2. k \in Keys
      BY <2>1, RangeTail, QueueAssumption DEF TypeOK
    <2>3. Assignee(k) \in Consumers
      BY <2>1, <2>2, PicksConsumer
    <2>4. HasRoom(Assignee(k)) /\ SendHead(Assignee(k))
          /\ keyAssignments' = [keyAssignments EXCEPT ![k] = Assignee(k)]
          /\ UNCHANGED <<consumers, nextIdx, locked, outcome>>
      BY <1>1 DEF DeliverOrdered
    <2>5. keyAssignments' \in [Keys -> Consumers \cup {NoConsumer}]
      BY <2>2, <2>3, <2>4 DEF TypeOK
    <2> QED BY <2>1, <2>3, <2>4, <2>5, SendHeadType DEF TypeOK
  <1>2. CASE DeliverRoundRobin
    <2>1. messages # << >> /\ consumers # << >>
      BY <1>2 DEF DeliverRoundRobin, HeadReady
    <2>2. PICK j \in FreeSlots :
            SendHead(consumers[Slot(j)]) /\ nextIdx' = Slot(j) % Len(consumers)
      BY <1>2 DEF DeliverRoundRobin
    <2>3. /\ j \in 0 .. Len(consumers) - 1 /\ HasRoom(consumers[Slot(j)])
          /\ Len(consumers) \in Nat \ {0}
      BY <2>1, <2>2, EmptySeq DEF FreeSlots, TypeOK
    <2>4. Slot(j) \in Nat /\ consumers[Slot(j)] \in Consumers
      BY <2>1, <2>3, PicksConsumer
    <2>5. nextIdx' \in Nat
      BY <2>2, <2>3, <2>4
    <2>6. UNCHANGED <<consumers, keyAssignments, locked, outcome>>
      BY <1>2 DEF DeliverRoundRobin
    <2> QED BY <2>1, <2>2, <2>3, <2>4, <2>5, <2>6, SendHeadType DEF TypeOK
  <1>3. CASE DeliverStop
    <2>1. keyAssignments' \in [Keys -> Consumers \cup {NoConsumer}]
      <3>1. CASE UNCHANGED keyAssignments
        BY <3>1 DEF TypeOK
      <3>2. CASE HeadReady /\ KeyOf[Head(messages)] # NoKey /\ keyAssignments' =
                   [keyAssignments EXCEPT ![KeyOf[Head(messages)]] =
                      Assignee(KeyOf[Head(messages)])]
        <4>1. messages # << >> /\ consumers # << >>
          BY <3>2 DEF HeadReady
        <4>2. KeyOf[Head(messages)] \in Keys
          BY <3>2, <4>1, RangeTail, QueueAssumption DEF TypeOK
        <4>3. Assignee(KeyOf[Head(messages)]) \in Consumers
          BY <4>1, <4>2, PicksConsumer
        <4> QED BY <3>2, <4>2, <4>3 DEF TypeOK
      <3> QED BY <1>3, <3>1, <3>2 DEF DeliverStop
    <2> QED BY <1>3, <2>1 DEF DeliverStop, TypeOK
  <1>4. ASSUME NEW m \in Messages, Enqueue(m) PROVE TypeOK'
    <2>1. messages' \in Seq(Messages)
      BY <1>4, RangeAppend DEF Enqueue, TypeOK
    <2>2. outcome' \in [Messages -> Outcomes]
      BY <1>4 DEF Enqueue, TypeOK, Outcomes
    <2> QED BY <1>4, <2>1, <2>2 DEF Enqueue, TypeOK
  <1>5. ASSUME NEW m \in Messages, EnqueueFull(m) PROVE TypeOK'
    <2>1. outcome' \in [Messages -> Outcomes]
      BY <1>5 DEF EnqueueFull, TypeOK, Outcomes
    <2> QED BY <1>5, <2>1 DEF EnqueueFull, TypeOK
  <1>6. ASSUME NEW m \in Messages, NEW a \in RestoredAttempts, NEW h \in RestoredHidden,
               EnqueueDirect(m, a, h)
        PROVE  TypeOK'
    <2>1. messages' \in Seq(Messages)
      BY <1>6, RangeAppend DEF EnqueueDirect, TypeOK
    <2>2. outcome' \in [Messages -> Outcomes]
      BY <1>6 DEF EnqueueDirect, TypeOK, Outcomes
    <2>3. attempt' \in [Messages -> Nat] /\ hidden' \subseteq Messages
      BY <1>6, QueueAssumption DEF EnqueueDirect, TypeOK
    <2> QED BY <1>6, <2>1, <2>2, <2>3 DEF EnqueueDirect, TypeOK
  <1>7. ASSUME NEW m \in Messages, NEW o \in Terminal, SettleInFlight(m, o),
               locked' \in BOOLEAN
        PROVE  TypeOK'
    <2>1. outcome' \in [Messages -> Outcomes]
      BY <1>7 DEF SettleInFlight, TypeOK, Outcomes
    <2> QED BY <1>7, <2>1 DEF SettleInFlight, TypeOK
  <1>8. ASSUME NEW m \in Messages, Ack(m) PROVE TypeOK'
    BY <1>7, <1>8 DEF Ack, Terminal
  <1>9. ASSUME NEW m \in Messages, NEW requeue \in BOOLEAN, NackTerminal(m, requeue)
        PROVE  TypeOK'
    BY <1>7, <1>9 DEF NackTerminal, Terminal, TypeOK
  <1>10. ASSUME NEW m \in Messages, NackRequeue(m) PROVE TypeOK'
    <2>1. messages' \in Seq(Messages)
      BY <1>10, RangeAppend DEF NackRequeue, TypeOK
    <2> QED BY <1>10, <2>1 DEF NackRequeue, TypeOK
  <1>11. ASSUME NEW m \in Messages, NEW future \in BOOLEAN, ExtendVisibility(m, future)
         PROVE  TypeOK'
    BY <1>11 DEF ExtendVisibility, TypeOK
  <1>12. ASSUME NEW m \in Messages, Expire(m) PROVE TypeOK'
    BY <1>12 DEF Expire, TypeOK
  <1>13. ASSUME NEW c \in Consumers, Dequeue(c) PROVE TypeOK'
    <2>1. consumers' \in Seq(Consumers)
      BY <1>13, RangeAppend DEF Dequeue, TypeOK
    <2> QED BY <1>13, <2>1 DEF Dequeue, TypeOK
  <1>14. ASSUME NEW c \in Consumers, Receive(c) PROVE TypeOK'
    <2>1. /\ Tail(ch[c]) \in Seq(Copies)
          /\ Len(Tail(ch[c])) = Len(ch[c]) - 1 /\ Len(ch[c]) \in Nat
      BY <1>14, HeadTailProperties, EmptySeq DEF Receive, TypeOK
    <2>2. \A d \in Consumers : ch'[d] = IF d = c THEN Tail(ch[c]) ELSE ch[d]
      BY <1>14 DEF Receive, TypeOK
    <2>3. ch' \in [Consumers -> Seq(Copies)]
      BY <1>14, <2>1 DEF Receive, TypeOK
    <2>4. \A d \in Consumers : Len(ch'[d]) <= ChanCap
      <3>1. Len(ch[c]) <= ChanCap /\ \A d \in Consumers : Len(ch[d]) <= ChanCap
        BY DEF TypeOK
      <3>2. Len(Tail(ch[c])) <= ChanCap
        BY <2>1, <3>1 DEF ChanCap
      <3> QED BY <2>2, <3>1, <3>2
    <2> QED BY <1>14, <2>3, <2>4 DEF Receive, TypeOK
  <1>15. ASSUME NEW i \in DOMAIN consumers, RemoveConsumer(i) PROVE TypeOK'
    <2>1. i \in 1 .. Len(consumers)
      BY <1>15 DEF TypeOK
    <2>2. consumers' \in Seq(Consumers)
      BY <1>15, <2>1, RangeWithout DEF RemoveConsumer, TypeOK
    <2> QED BY <1>15, <2>2 DEF RemoveConsumer, TypeOK
  <1>16. ASSUME NEW id \in Ids, RemoveById(id) PROVE TypeOK'
    <2>1. CASE \E i \in DOMAIN messages :
                 /\ messages' = Without(messages, i)
                 /\ hidden' = hidden \ {messages[i]}
                 /\ outcome' = [outcome EXCEPT ![messages[i]] = "removed"]
                 /\ UNCHANGED <<inFlight, consumers, nextIdx, keyAssignments, ch, attempt>>
      <3>1. PICK i \in 1 .. Len(messages) :
                 /\ messages' = Without(messages, i)
                 /\ hidden' = hidden \ {messages[i]}
                 /\ outcome' = [outcome EXCEPT ![messages[i]] = "removed"]
                 /\ UNCHANGED <<inFlight, consumers, nextIdx, keyAssignments, ch, attempt>>
        <4>1. DOMAIN messages = 1 .. Len(messages)
          BY DEF TypeOK
        <4> QED BY <2>1, <4>1
      <3>2. messages' \in Seq(Messages)
        BY <3>1, RangeWithout DEF TypeOK
      <3>3. outcome' \in [Messages -> Outcomes]
        BY <3>1 DEF TypeOK, Outcomes, Terminal
      <3> QED BY <1>16, <3>1, <3>2, <3>3 DEF RemoveById, TypeOK
    <2>2. CASE \E m \in inFlight : SettleInFlight(m, "removed")
      BY <1>7, <1>16, <2>2 DEF RemoveById, TypeOK, Terminal
    <2> QED BY <1>16, <2>1, <2>2 DEF RemoveById
  <1>17. CASE RequeueExpired
    <2>1. PICK s \in MapOrders(inFlight \ hidden) : messages' = messages \o s
      BY <1>17 DEF RequeueExpired
    <2>2. s \in Seq(Messages)
      <3>1. IsFiniteSet(inFlight \ hidden)
        BY FiniteMessages, FS_Subset DEF TypeOK
      <3> QED BY <3>1, MapOrderVisitsAll, SeqMonotonic DEF TypeOK
    <2>3. messages' \in Seq(Messages)
      BY <2>1, <2>2, RangeConcat DEF TypeOK
    <2> QED BY <1>17, <2>3 DEF RequeueExpired, TypeOK
  <1>18. CASE Purge
    <2>1. outcome' \in [Messages -> Outcomes] /\ messages' \in Seq(Messages)
      BY <1>18 DEF Purge, TypeOK, Outcomes, Terminal
    <2> QED BY <1>18, <2>1 DEF Purge, TypeOK
  <1>19. CASE UNCHANGED vars
    BY <1>19 DEF vars, TypeOK
  <1> QED BY <1>1, <1>2, <1>3, <1>4, <1>5, <1>6, <1>8, <1>9, <1>10, <1>11, <1>12,
             <1>13, <1>14, <1>15, <1>16, <1>17, <1>18, <1>19 DEF Next, TryDeliver

\* Type correctness of every queue (queue.go, the Queue struct).
THEOREM TypeCorrect == Spec => []TypeOK
  BY InitTypeOK, NextTypeOK, PTL DEF Spec

-----------------------------------------------------------------------------
(* Where messages are.  OnePlace is inductive with the types; no accepted   *)
(* message is lost as long as no two messages carry the same ID.            *)

UniqueIds == \A m, n \in Messages : IdOf[m] = IdOf[n] => m = n

\* Sending the head moves it from the pending messages to those in flight;
\* an entry of the in-flight map under the same ID is overwritten.
LEMMA SendHeadMoves ==
  ASSUME TypeOK, OnePlace, messages # << >>, NEW c, SendHead(c)
  PROVE  /\ Head(messages) \in Pending /\ Head(messages) \in Messages
         /\ IsInjective(messages')
         /\ Pending' = Pending \ {Head(messages)}
         /\ inFlight' = {n \in inFlight : IdOf[n] # IdOf[Head(messages)]}
                         \cup {Head(messages)}
  BY RangeTail DEF TypeOK, OnePlace, SendHead, Pending

\* One step on the two sets and the history.
LEMMA NextOnePlace ==
  TypeOK /\ OnePlace /\ [Next]_vars =>
    OnePlace' /\ (UniqueIds /\ AcceptedNotLost => AcceptedNotLost')
  <1> SUFFICES ASSUME TypeOK, OnePlace, [Next]_vars
               PROVE  OnePlace' /\ (UniqueIds /\ AcceptedNotLost => AcceptedNotLost')
    OBVIOUS
  <1> DEFINE Kept == OnePlace' /\ (UniqueIds /\ AcceptedNotLost => AcceptedNotLost')
  <1>1. ASSUME NEW c, messages # << >>, SendHead(c), UNCHANGED outcome PROVE Kept
    BY <1>1, SendHeadMoves
    DEF UniqueIds, OnePlace, AcceptedNotLost, Accepted, TypeOK
  <1>2. CASE DeliverOrdered \/ DeliverRoundRobin
    BY <1>1, <1>2 DEF DeliverOrdered, DeliverRoundRobin, HeadReady
  <1>3. ASSUME UNCHANGED <<messages, inFlight, outcome>> PROVE Kept
    BY <1>3 DEF OnePlace, AcceptedNotLost, Accepted, Pending
  <1>4. ASSUME NEW m \in Messages, Enqueue(m) \/ \E a, h : EnqueueDirect(m, a, h)
        PROVE  Kept
    <2>1. /\ messages' = Append(messages, m) /\ outcome[m] = "unpublished"
          /\ outcome' = [outcome EXCEPT ![m] = "accepted"] /\ UNCHANGED inFlight
      BY <1>4 DEF Enqueue, EnqueueDirect, IsNext
    <2>2. m \notin Pending \cup inFlight
      BY <2>1 DEF OnePlace, Accepted
    <2>3. Pending' = Pending \cup {m} /\ IsInjective(messages')
      BY <2>1, <2>2, RangeAppend DEF TypeOK, OnePlace, Pending
    <2> QED BY <2>1, <2>2, <2>3 DEF OnePlace, AcceptedNotLost, Accepted, TypeOK
  <1>5. ASSUME NEW m \in Messages, EnqueueFull(m) PROVE Kept
    <2>1. Pending' = Pending
      BY <1>5 DEF EnqueueFull, Pending
    <2> QED BY <1>5, <2>1
        DEF EnqueueFull, IsNext, OnePlace, AcceptedNotLost, Accepted, TypeOK
  <1>6. ASSUME NEW m \in inFlight, NEW o \in Terminal, SettleInFlight(m, o) PROVE Kept
    <2>1. Pending' = Pending
      BY <1>6 DEF SettleInFlight, Pending
    <2> QED BY <1>6, <2>1
        DEF SettleInFlight, OnePlace, AcceptedNotLost, Accepted, TypeOK, Terminal
  <1>7. ASSUME NEW m \in Messages, Ack(m) \/ \E r \in BOOLEAN : NackTerminal(m, r)
        PROVE  Kept
    BY <1>6, <1>7 DEF Ack, NackTerminal, Terminal
  <1>8. ASSUME NEW m \in Messages, NackRequeue(m) PROVE Kept
    <2>1. Pending' = Pending \cup {m} /\ IsInjective(messages')
      BY <1>8, RangeAppend DEF NackRequeue, TypeOK, OnePlace, Pending
    <2> QED BY <1>8, <2>1
        DEF NackRequeue, OnePlace, AcceptedNotLost, Accepted, TypeOK
  <1>9. ASSUME NEW id \in Ids, RemoveById(id) PROVE Kept
    <2>1. ASSUME NEW i \in DOMAIN messages,
                 /\ messages' = Without(messages, i)
                 /\ outcome' = [outcome EXCEPT ![messages[i]] = "removed"]
                 /\ UNCHANGED inFlight
          PROVE  Kept
      <3>1. i \in 1 .. Len(messages) /\ messages[i] \in Messages
        BY <2>1, ElementOfSeq DEF TypeOK
      <3>2. Pending' = Pending \ {messages[i]} /\ IsInjective(messages')
        <4>1. messages \in Seq(Messages) /\ IsInjective(messages)
          BY DEF TypeOK, OnePlace
        <4>2. /\ Range(Without(messages, i)) \cup {messages[i]} = Range(messages)
              /\ IsInjective(Without(messages, i))
              /\ messages[i] \notin Range(Without(messages, i))
          BY <3>1, <4>1, RangeWithout
        <4> QED BY <2>1, <4>2 DEF Pending
      <3>3. messages[i] \in Pending
        BY <2>1 DEF Pending, Range
      <3> QED BY <2>1, <3>1, <3>2, <3>3 DEF OnePlace, AcceptedNotLost, Accepted, TypeOK
    <2>2. CASE \E m \in inFlight : SettleInFlight(m, "removed")
      BY <1>6, <2>2 DEF Terminal
    <2> QED BY <1>9, <2>1, <2>2 DEF RemoveById
  <1>10. CASE RequeueExpired
    <2>1. PICK s \in MapOrders(inFlight \ hidden) : messages' = messages \o s
      BY <1>10 DEF RequeueExpired
    <2>2. s \in Seq(Messages) /\ Range(s) = inFlight \ hidden /\ IsInjective(s)
      <3>1. IsFiniteSet(inFlight \ hidden)
        BY FiniteMessages, FS_Subset DEF TypeOK
      <3> QED BY <3>1, MapOrderVisitsAll, SeqMonotonic DEF TypeOK
    <2>3. Pending' = Pending \cup (inFlight \ hidden) /\ IsInjective(messages')
      BY <2>1, <2>2, RangeConcat DEF TypeOK, OnePlace, Pending
    <2> QED BY <1>10, <2>3
        DEF RequeueExpired, OnePlace, AcceptedNotLost, Accepted, TypeOK
  <1>11. CASE Purge
    <2>1. Pending' = {} /\ IsInjective(messages')
      BY <1>11 DEF Purge, Pending, Range, IsInjective
    <2> QED BY <1>11, <2>1 DEF Purge, OnePlace, AcceptedNotLost, Accepted, TypeOK
  <1> QED
    <2>1. CASE DeliverStop
      BY <1>3, <2>1 DEF DeliverStop
    <2>2. ASSUME NEW m \in Messages,
                 Expire(m) \/ \E future \in BOOLEAN : ExtendVisibility(m, future)
          PROVE  Kept
      BY <1>3, <2>2 DEF Expire, ExtendVisibility
    <2>3. ASSUME NEW c \in Consumers, Dequeue(c) \/ Receive(c) PROVE Kept
      BY <1>3, <2>3 DEF Dequeue, Receive
    <2>4. ASSUME NEW i \in DOMAIN consumers, RemoveConsumer(i) PROVE Kept
      BY <1>3, <2>4 DEF RemoveConsumer
    <2>5. CASE UNCHANGED vars
      BY <1>3, <2>5 DEF vars
    <2> QED BY <1>2, <1>4, <1>5, <1>7, <1>8, <1>9, <1>10, <1>11,
               <2>1, <2>2, <2>3, <2>4, <2>5 DEF Next, TryDeliver

LEMMA InitOnePlace == Init => OnePlace /\ AcceptedNotLost
  BY DEF Init, OnePlace, AcceptedNotLost, Accepted, Pending, Range, IsInjective

\* No double work, for every configuration and also when IDs repeat: Enqueue,
\* tryDeliver, Nack, RequeueExpired, Remove and Purge never leave a message in
\* two places, nor a settled one in any.
THEOREM MessageInOnePlace == Spec => []OnePlace
  BY InitOnePlace, NextOnePlace, TypeCorrect, PTL DEF Spec

\* At-least-once: with unique IDs no accepted message disappears before it is
\* acked, dead-lettered, dropped, removed or purged.
THEOREM NothingLost == UniqueIds => (Spec => []AcceptedNotLost)
  <1> SUFFICES ASSUME UniqueIds PROVE Spec => []AcceptedNotLost
    OBVIOUS
  <1>1. TypeOK /\ OnePlace /\ AcceptedNotLost /\ [Next]_vars => AcceptedNotLost'
    BY NextOnePlace
  <1> QED BY <1>1, InitOnePlace, TypeCorrect, MessageInOnePlace, PTL DEF Spec

-----------------------------------------------------------------------------
(* Ordering keys.  The inductive invariant adds that no consumer is         *)
(* registered twice, so removing one removes it entirely.                   *)

KeyInv == IsInjective(consumers) /\ AssigneeRegistered /\ KeyAffinity

\* Assigning the consumer that Assignee computes keeps assignments registered,
\* and no connected consumer but that one holds a message of the key.
LEMMA AssignKey ==
  ASSUME TypeOK, KeyInv, consumers # << >>, NEW k \in Keys,
         UNCHANGED consumers,
         keyAssignments' = [keyAssignments EXCEPT ![k] = Assignee(k)]
  PROVE  /\ AssigneeRegistered'
         /\ keyAssignments'[k] = Assignee(k)
         /\ Assignee(k) \in Consumers
         /\ \A c \in Registered : \A i \in DOMAIN ch[c] :
              KeyOf[ch[c][i].msg] # NoKey => keyAssignments'[KeyOf[ch[c][i].msg]] = c
  <1>1. Assignee(k) \in Registered /\ Assignee(k) \in Consumers
    <2>1. Len(consumers) \in Nat \ {0} /\ Hash[k] \in Nat
      BY EmptySeq, QueueAssumption DEF TypeOK
    <2>2. (Hash[k] % Len(consumers)) + 1 \in DOMAIN consumers
      BY <2>1 DEF TypeOK
    <2>3. consumers[(Hash[k] % Len(consumers)) + 1] \in Registered
      BY <2>2 DEF Registered, Range
    <2> QED BY <2>3, PicksConsumer DEF Assignee, KeyInv, AssigneeRegistered
  <1>2. \A q \in Keys : keyAssignments'[q] = IF q = k THEN Assignee(k) ELSE keyAssignments[q]
    BY DEF TypeOK
  <1>3. Registered' = Registered
    BY DEF Registered
  <1>4. AssigneeRegistered'
    BY <1>1, <1>2, <1>3 DEF KeyInv, AssigneeRegistered
  <1>5. ASSUME NEW c \in Registered, NEW i \in DOMAIN ch[c],
               KeyOf[ch[c][i].msg] # NoKey
        PROVE  keyAssignments'[KeyOf[ch[c][i].msg]] = c
    <2>1. c \in Consumers
      BY DEF Registered, Range, TypeOK
    <2>2. ch[c] \in Seq(Copies) /\ ch[c][i] \in Copies
      BY <2>1, ElementOfSeq DEF TypeOK
    <2>3. KeyOf[ch[c][i].msg] \in Keys
      BY <1>5, <2>2, QueueAssumption DEF Copies
    <2>4. keyAssignments[KeyOf[ch[c][i].msg]] = c
      BY <1>5 DEF KeyInv, KeyAffinity
    <2>5. c # NoConsumer
      BY <2>1, QueueAssumption
    <2> QED BY <1>2, <2>3, <2>4, <2>5 DEF Assignee
  <1> QED BY <1>1, <1>2, <1>4, <1>5

LEMMA InitKeyInv == Init => KeyInv
  BY DEF Init, KeyInv, AssigneeRegistered, KeyAffinity, Registered, Range, IsInjective

\* A copy appended to d's channel by SendHead is the only new one.
LEMMA SendHeadCopies ==
  ASSUME TypeOK, messages # << >>, NEW d \in Consumers, SendHead(d),
         NEW c \in Consumers, NEW i \in DOMAIN ch'[c]
  PROVE  \/ i \in DOMAIN ch[c] /\ ch'[c][i] = ch[c][i]
         \/ /\ c = d /\ i = Len(ch[d]) + 1
            /\ ch'[c][i] = [msg |-> Head(messages),
                            attempt |-> attempt[Head(messages)] + 1]
  <1> DEFINE x == [msg |-> Head(messages), attempt |-> attempt[Head(messages)] + 1]
  <1>1. x \in Copies
    BY RangeTail DEF TypeOK, Copies
  <1>2. ch' = [ch EXCEPT ![d] = Append(@, x)]
    BY DEF SendHead
  <1> HIDE DEF x
  <1>3. CASE c # d
    BY <1>2, <1>3 DEF TypeOK
  <1>4. CASE c = d
    <2>1. ch'[c] = Append(ch[c], x) /\ ch[c] \in Seq(Copies)
      BY <1>2, <1>4 DEF TypeOK
    <2>2. /\ DOMAIN ch'[c] = 1 .. Len(ch[c]) + 1 /\ DOMAIN ch[c] = 1 .. Len(ch[c])
          /\ Len(ch[c]) \in Nat
      BY <1>1, <2>1
    <2>3. CASE i = Len(ch[c]) + 1
      BY <1>1, <1>4, <2>1, <2>3, AppendProperties DEF x
    <2>4. CASE i # Len(ch[c]) + 1
      <3>1. i \in 1 .. Len(ch[c])
        BY <2>2, <2>4
      <3> QED BY <1>1, <2>1, <2>2, <3>1, AppendProperties
    <2> QED BY <2>3, <2>4
  <1> QED BY <1>3, <1>4

LEMMA NextKeyInv == TypeOK /\ KeyInv /\ [Next]_vars => KeyInv'
  <1> SUFFICES ASSUME TypeOK, KeyInv, [Next]_vars PROVE KeyInv'
    OBVIOUS
  <1>1. CASE DeliverOrdered
    <2> DEFINE m == Head(messages)
               k == KeyOf[m]
    <2>1. messages # << >> /\ consumers # << >> /\ k # NoKey
      BY <1>1 DEF DeliverOrdered, HeadReady
    <2>2. k \in Keys
      BY <2>1, RangeTail, QueueAssumption DEF TypeOK
    <2>3. /\ SendHead(Assignee(k)) /\ UNCHANGED consumers
          /\ keyAssignments' = [keyAssignments EXCEPT ![k] = Assignee(k)]
      BY <1>1 DEF DeliverOrdered
    <2>4. /\ AssigneeRegistered' /\ keyAssignments'[k] = Assignee(k)
          /\ Assignee(k) \in Consumers
          /\ \A c \in Registered : \A i \in DOMAIN ch[c] :
               KeyOf[ch[c][i].msg] # NoKey => keyAssignments'[KeyOf[ch[c][i].msg]] = c
      BY <2>1, <2>2, <2>3, AssignKey
    <2>5. ASSUME NEW c \in Registered', NEW i \in DOMAIN ch'[c],
                 KeyOf[ch'[c][i].msg] # NoKey
          PROVE  keyAssignments'[KeyOf[ch'[c][i].msg]] = c
      <3>1. c \in Registered /\ c \in Consumers
        BY <2>3 DEF Registered, Range, TypeOK
      <3>2. \/ i \in DOMAIN ch[c] /\ ch'[c][i] = ch[c][i]
            \/ c = Assignee(k) /\ ch'[c][i].msg = m
        BY <2>1, <2>3, <2>4, <3>1, SendHeadCopies
      <3> QED BY <2>4, <2>5, <3>1, <3>2
    <2> QED BY <2>3, <2>4, <2>5 DEF KeyInv, KeyAffinity
  <1>2. CASE DeliverRoundRobin
    <2>1. messages # << >> /\ consumers # << >> /\ KeyOf[Head(messages)] = NoKey
          /\ UNCHANGED <<consumers, keyAssignments>>
      BY <1>2 DEF DeliverRoundRobin, HeadReady
    <2>2. PICK j \in FreeSlots : SendHead(consumers[Slot(j)])
      BY <1>2 DEF DeliverRoundRobin
    <2>3. consumers[Slot(j)] \in Consumers
      BY <2>1, PicksConsumer DEF FreeSlots
    <2>4. ASSUME NEW c \in Registered', NEW i \in DOMAIN ch'[c],
                 KeyOf[ch'[c][i].msg] # NoKey
          PROVE  keyAssignments'[KeyOf[ch'[c][i].msg]] = c
      <3>1. c \in Registered /\ c \in Consumers
        BY <2>1 DEF Registered, Range, TypeOK
      <3>2. \/ i \in DOMAIN ch[c] /\ ch'[c][i] = ch[c][i]
            \/ ch'[c][i].msg = Head(messages)
        BY <2>1, <2>2, <2>3, <3>1, SendHeadCopies
      <3> QED BY <2>1, <2>4, <3>1, <3>2 DEF KeyInv, KeyAffinity
    <2> QED BY <2>1, <2>4 DEF KeyInv, KeyAffinity, AssigneeRegistered, Registered
  <1>3. ASSUME UNCHANGED <<consumers, keyAssignments, ch>> PROVE KeyInv'
    BY <1>3 DEF KeyInv, KeyAffinity, AssigneeRegistered, Registered
  <1>4. CASE DeliverStop
    <2>1. UNCHANGED <<consumers, ch>>
      BY <1>4 DEF DeliverStop
    <2>2. CASE HeadReady /\ KeyOf[Head(messages)] # NoKey /\ keyAssignments' =
                 [keyAssignments EXCEPT ![KeyOf[Head(messages)]] =
                    Assignee(KeyOf[Head(messages)])]
      <3>1. messages # << >> /\ consumers # << >>
        BY <2>2 DEF HeadReady
      <3>2. KeyOf[Head(messages)] \in Keys
        BY <2>2, <3>1, RangeTail, QueueAssumption DEF TypeOK
      <3>3. /\ AssigneeRegistered'
            /\ \A c \in Registered : \A i \in DOMAIN ch[c] :
                 KeyOf[ch[c][i].msg] # NoKey => keyAssignments'[KeyOf[ch[c][i].msg]] = c
        BY <2>1, <2>2, <3>1, <3>2, AssignKey
      <3> QED BY <2>1, <3>3 DEF KeyInv, KeyAffinity, Registered
    <2> QED BY <1>3, <1>4, <2>1, <2>2 DEF DeliverStop
  <1>5. ASSUME NEW c \in Consumers, Dequeue(c) PROVE KeyInv'
    <2>1. Registered' = Registered \cup {c} /\ IsInjective(consumers')
      BY <1>5, RangeAppend DEF Dequeue, TypeOK, KeyInv, Registered
    <2>2. ch' = ch /\ keyAssignments' = keyAssignments /\ DOMAIN ch[c] = {}
      BY SMTT(30), <1>5 DEF Dequeue
    <2> QED BY <2>1, <2>2 DEF KeyInv, KeyAffinity, AssigneeRegistered
  <1>6. ASSUME NEW c \in Consumers, Receive(c) PROVE KeyInv'
    <2>1. /\ Len(Tail(ch[c])) = Len(ch[c]) - 1 /\ Len(ch[c]) \in Nat \ {0}
          /\ \A i \in 1 .. Len(ch[c]) - 1 : Tail(ch[c])[i] = ch[c][i + 1]
          /\ DOMAIN Tail(ch[c]) = 1 .. Len(ch[c]) - 1
          /\ DOMAIN ch[c] = 1 .. Len(ch[c])
      BY <1>6, HeadTailProperties, EmptySeq DEF Receive, TypeOK
    <2>2. \A d \in Consumers : ch'[d] = IF d = c THEN Tail(ch[c]) ELSE ch[d]
      BY <1>6 DEF Receive, TypeOK
    <2>3. UNCHANGED <<consumers, keyAssignments>>
      BY <1>6 DEF Receive
    <2>4. ASSUME NEW d \in Registered, NEW i \in DOMAIN ch'[d]
          PROVE  \E j \in DOMAIN ch[d] : ch'[d][i] = ch[d][j]
      <3>1. d \in Consumers
        BY DEF Registered, Range, TypeOK
      <3>2. CASE d # c
        BY <2>2, <3>1, <3>2
      <3>3. CASE d = c
        <4>1. i \in 1 .. Len(ch[c]) - 1 /\ ch'[d][i] = Tail(ch[c])[i]
          BY <2>1, <2>2, <3>1, <3>3
        <4>2. i + 1 \in DOMAIN ch[d] /\ ch'[d][i] = ch[d][i + 1]
          BY <2>1, <3>3, <4>1
        <4> QED BY <4>2
      <3> QED BY <3>2, <3>3
    <2> QED BY SMTT(30), <2>3, <2>4 DEF KeyInv, KeyAffinity, AssigneeRegistered, Registered
  <1>7. ASSUME NEW i \in DOMAIN consumers, RemoveConsumer(i) PROVE KeyInv'
    <2>1. i \in 1 .. Len(consumers) /\ consumers \in Seq(Consumers)
      BY <1>7 DEF TypeOK
    <2>2. /\ Range(Without(consumers, i)) \cup {consumers[i]} = Range(consumers)
          /\ IsInjective(Without(consumers, i))
          /\ consumers[i] \notin Range(Without(consumers, i))
      BY <2>1, RangeWithout DEF KeyInv
    <2>3. Registered' = Registered \ {consumers[i]} /\ IsInjective(consumers')
      BY <1>7, <2>2 DEF RemoveConsumer, Registered
    <2>4. ch' = ch /\ \A k \in Keys : keyAssignments'[k] =
             IF keyAssignments[k] = consumers[i] THEN NoConsumer ELSE keyAssignments[k]
      BY <1>7 DEF RemoveConsumer
    <2>5. ASSUME NEW c \in Registered', NEW j \in DOMAIN ch[c],
                 KeyOf[ch[c][j].msg] # NoKey
          PROVE  keyAssignments'[KeyOf[ch[c][j].msg]] = c
      <3>0. c \in Registered /\ c # consumers[i]
        BY <2>3
      <3>1. c \in Registered /\ c # consumers[i] /\ c \in Consumers
        BY <3>0 DEF Registered, Range, TypeOK
      <3>2. ch[c] \in Seq(Copies) /\ ch[c][j] \in Copies
        BY <3>1, ElementOfSeq DEF TypeOK
      <3>3. KeyOf[ch[c][j].msg] \in Keys
        BY <2>5, <3>2, QueueAssumption DEF Copies
      <3>4. keyAssignments[KeyOf[ch[c][j].msg]] = c
        BY <2>5, <3>1 DEF KeyInv, KeyAffinity
      <3> QED BY <2>4, <3>1, <3>3, <3>4
    <2> QED BY <2>3, <2>4, <2>5 DEF KeyInv, KeyAffinity, AssigneeRegistered
  <1> QED
    <2>1. ASSUME NEW m \in Messages,
                 \/ Enqueue(m) \/ EnqueueFull(m) \/ Ack(m) \/ NackRequeue(m) \/ Expire(m)
                 \/ \E a \in RestoredAttempts, h \in RestoredHidden : EnqueueDirect(m, a, h)
                 \/ \E requeue \in BOOLEAN : NackTerminal(m, requeue)
                 \/ \E future \in BOOLEAN : ExtendVisibility(m, future)
          PROVE  KeyInv'
      BY <1>3, <2>1 DEF Enqueue, EnqueueFull, Ack, NackRequeue, Expire, EnqueueDirect,
                        NackTerminal, ExtendVisibility, SettleInFlight
    <2>2. CASE RequeueExpired \/ Purge \/ UNCHANGED vars
      BY <1>3, <2>2 DEF RequeueExpired, Purge, vars
    <2>3. ASSUME NEW id \in Ids, RemoveById(id) PROVE KeyInv'
      BY <1>3, <2>3 DEF RemoveById, SettleInFlight
    <2> QED BY <1>1, <1>2, <1>4, <1>5, <1>6, <1>7, <2>1, <2>2, <2>3 DEF Next, TryDeliver

\* deliverOrdered never sends on the channel of a consumer that RemoveConsumer
\* has taken out and closed.
THEOREM NoSendToRemoved == Spec => []AssigneeRegistered
  BY InitKeyInv, NextKeyInv, TypeCorrect, PTL DEF Spec, KeyInv

\* A connected consumer that holds a message of a key in its channel is the
\* only one that tryDeliver may choose for that key.
THEOREM KeysStayTogether == Spec => []KeyAffinity
  BY InitKeyInv, NextKeyInv, TypeCorrect, PTL DEF Spec, KeyInv
=============================================================================
