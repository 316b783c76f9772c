-------------------------- MODULE QueueRefinement --------------------------
(***************************************************************************)
(* Every queue whose messages have distinct IDs implements the contract of *)
(* LeaseQueue.  The only guard of the contract that the queue does not     *)
(* test is that first deliveries follow the publish order, so the          *)
(* invariant needed is about the order of messages not yet delivered.      *)
(***************************************************************************)
EXTENDS QueueProofs

\* The messages of s that have never been delivered are in publish order.
FreshOrdered(s, a) ==
  \A i, j \in DOMAIN s : i < j /\ a[s[i]] = 0 /\ a[s[j]] = 0 => s[i] < s[j]

FreshInv ==
  /\ \A m \in Messages : outcome[m] = "unpublished" =>
       attempt[m] = 0 /\ m \notin hidden
  /\ \A m, n \in Messages : n < m /\ outcome[m] # "unpublished" =>
       outcome[n] # "unpublished"
  /\ \A m \in inFlight : attempt[m] > 0
  /\ FreshOrdered(messages, attempt)

\* Appending keeps the order if the message was delivered before, or follows
\* every pending one.
LEMMA FreshAppend ==
  ASSUME NEW a, NEW s \in Seq(Messages), NEW m \in Messages, FreshOrdered(s, a),
         a[m] # 0 \/ \A n \in Range(s) : n < m
  PROVE  FreshOrdered(Append(s, m), a)
  <1> DEFINE t == Append(s, m)
  <1>1. /\ t \in Seq(Messages) /\ Len(t) = Len(s) + 1 /\ Len(s) \in Nat
        /\ \A i \in 1 .. Len(s) : t[i] = s[i]
        /\ t[Len(s) + 1] = m
        /\ DOMAIN s = 1 .. Len(s) /\ DOMAIN t = 1 .. Len(s) + 1
    BY AppendProperties
  <1> HIDE DEF t
  <1>2. \A i \in DOMAIN s : s[i] \in Range(s)
    BY DEF Range
  <1>3. FreshOrdered(t, a)
    <2> SUFFICES ASSUME NEW i \in DOMAIN t, NEW j \in DOMAIN t, i < j,
                        a[t[i]] = 0, a[t[j]] = 0
                 PROVE  t[i] < t[j]
      BY DEF FreshOrdered
    <2>1. i \in DOMAIN s /\ t[i] = s[i]
      BY <1>1
    <2>2. CASE j = Len(s) + 1
      BY <1>1, <1>2, <2>1, <2>2
    <2>3. CASE j # Len(s) + 1
      <3>1. j \in DOMAIN s /\ t[j] = s[j]
        BY <1>1, <2>3
      <3> QED BY <2>1, <3>1 DEF FreshOrdered
    <2> QED BY <2>2, <2>3
  <1> QED BY <1>3 DEF t

\* Appending messages that were all delivered before keeps the order.
LEMMA FreshConcat ==
  ASSUME NEW a, NEW s \in Seq(Messages), NEW u \in Seq(Messages), FreshOrdered(s, a),
         \A n \in Range(u) : a[n] # 0
  PROVE  FreshOrdered(s \o u, a)
  <1> DEFINE t == s \o u
  <1>1. /\ t \in Seq(Messages) /\ Len(t) = Len(s) + Len(u)
        /\ \A i \in 1 .. Len(t) : t[i] = IF i <= Len(s) THEN s[i] ELSE u[i - Len(s)]
    BY ConcatProperties
  <1> HIDE DEF t
  <1>2. /\ DOMAIN t = 1 .. Len(s) + Len(u) /\ DOMAIN s = 1 .. Len(s)
        /\ DOMAIN u = 1 .. Len(u) /\ Len(s) \in Nat /\ Len(u) \in Nat
    BY <1>1
  <1>3. ASSUME NEW i \in DOMAIN t, a[t[i]] = 0 PROVE i \in DOMAIN s /\ t[i] = s[i]
    <2>1. CASE i <= Len(s)
      BY <1>1, <1>2, <2>1
    <2>2. CASE i > Len(s)
      <3>1. i - Len(s) \in DOMAIN u /\ t[i] = u[i - Len(s)]
        BY <1>1, <1>2, <2>2
      <3> QED BY <1>3, <3>1 DEF Range
    <2> QED BY <1>2, <2>1, <2>2
  <1>4. FreshOrdered(t, a)
    BY <1>3 DEF FreshOrdered
  <1> QED BY <1>4 DEF t

\* Cutting a message out keeps the order of the others.
LEMMA FreshWithout ==
  ASSUME NEW a, NEW s \in Seq(Messages), NEW i \in 1 .. Len(s), FreshOrdered(s, a)
  PROVE  FreshOrdered(Without(s, i), a)
  <1> DEFINE t == Without(s, i)
             at(j) == IF j < i THEN j ELSE j + 1
  <1>1. /\ t \in Seq(Messages) /\ Len(t) = Len(s) - 1 /\ Len(s) \in Nat
        /\ \A j \in 1 .. Len(s) - 1 : t[j] = s[at(j)]
    BY WithoutElements
  <1> HIDE DEF t
  <1>2. DOMAIN t = 1 .. Len(s) - 1 /\ DOMAIN s = 1 .. Len(s)
    BY <1>1
  <1>3. \A j \in DOMAIN t : at(j) \in DOMAIN s /\ t[j] = s[at(j)]
    BY <1>1, <1>2
  <1>4. \A j, k \in DOMAIN t : j < k => at(j) < at(k)
    BY <1>2
  <1> HIDE DEF at
  <1>5. FreshOrdered(t, a)
    BY <1>3, <1>4 DEF FreshOrdered
  <1> QED BY <1>5 DEF t

\* Popping the head and counting its delivery keeps the order.
LEMMA FreshTail ==
  ASSUME NEW a \in [Messages -> Nat], NEW b \in [Messages -> Nat],
         NEW s \in Seq(Messages), s # << >>, FreshOrdered(s, a),
         \A m \in Messages : b[m] = 0 => a[m] = 0
  PROVE  FreshOrdered(Tail(s), b)
  <1> DEFINE t == Tail(s)
  <1>1. /\ t \in Seq(Messages) /\ Len(t) = Len(s) - 1 /\ Len(s) \in Nat \ {0}
        /\ \A i \in 1 .. Len(t) : t[i] = s[i + 1]
        /\ DOMAIN t = 1 .. Len(s) - 1 /\ DOMAIN s = 1 .. Len(s)
    BY HeadTailProperties, EmptySeq
  <1> HIDE DEF t
  <1>2. FreshOrdered(t, b)
    <2> SUFFICES ASSUME NEW i \in 1 .. Len(s) - 1, NEW j \in 1 .. Len(s) - 1, i < j,
                        b[t[i]] = 0, b[t[j]] = 0
                 PROVE  t[i] < t[j]
      BY <1>1 DEF FreshOrdered
    <2>1. /\ i + 1 \in DOMAIN s /\ j + 1 \in DOMAIN s /\ i + 1 < j + 1
          /\ t[i] = s[i + 1] /\ t[j] = s[j + 1]
      <3>1. t[i] = s[i + 1] /\ t[j] = s[j + 1]
        BY <1>1
      <3>2. i + 1 \in 1 .. Len(s) /\ j + 1 \in 1 .. Len(s) /\ i + 1 < j + 1
        BY <1>1
      <3> QED BY <1>1, <3>1, <3>2
    <2>2. t[i] \in Messages /\ t[j] \in Messages
      BY <1>1, ElementOfSeq
    <2>3. a[s[i + 1]] = 0 /\ a[s[j + 1]] = 0
      BY <2>1, <2>2
    <2> QED BY <2>1, <2>3 DEF FreshOrdered
  <1> QED BY <1>2 DEF t

LEMMA InitFreshInv == Init => FreshInv
  BY DEF Init, FreshInv, FreshOrdered

LEMMA NextFreshInv == TypeOK /\ OnePlace /\ FreshInv /\ [Next]_vars => FreshInv'
  <1> SUFFICES ASSUME TypeOK, OnePlace, FreshInv, [Next]_vars PROVE FreshInv'
    OBVIOUS
  <1>0. ASSUME NEW m \in Messages, IsNext(m) PROVE \A n \in Pending : n < m
    <2> SUFFICES ASSUME NEW n \in Pending PROVE n < m
      OBVIOUS
    <2>1. n \in Messages /\ outcome[n] = "accepted"
      BY DEF OnePlace, Accepted
    <2>2. outcome[m] = "unpublished"
      BY <1>0 DEF IsNext
    <2>3. ~(m < n)
      BY <2>1, <2>2 DEF FreshInv
    <2> QED BY <2>1, <2>2, <2>3, QueueAssumption DEF Messages
  <1>1. ASSUME NEW c, messages # << >>, SendHead(c), UNCHANGED outcome PROVE FreshInv'
    <2> DEFINE h == Head(messages)
    <2>1. h \in Pending /\ h \in Messages /\ outcome[h] = "accepted"
      BY <1>1, SendHeadMoves DEF OnePlace, Accepted
    <2>2. /\ attempt' \in [Messages -> Nat] /\ attempt \in [Messages -> Nat]
          /\ \A m \in Messages :
               attempt'[m] = IF m = h THEN attempt[m] + 1 ELSE attempt[m]
      BY <1>1, <2>1 DEF SendHead, TypeOK
    <2>3. \A m \in Messages : attempt'[m] = 0 => attempt[m] = 0
      BY <2>2
    <2>4. FreshOrdered(messages', attempt')
      BY <1>1, <2>2, <2>3, FreshTail DEF SendHead, TypeOK, FreshInv
    <2>5. \A m \in inFlight' : attempt'[m] > 0
      BY <1>1, <2>1, <2>2 DEF SendHead, TypeOK, FreshInv
    <2>6. \A m \in Messages : outcome'[m] = "unpublished" =>
            attempt'[m] = 0 /\ m \notin hidden'
      BY <1>1, <2>1, <2>2 DEF SendHead, FreshInv
    <2> QED BY <1>1, <2>4, <2>5, <2>6 DEF FreshInv
  <1>2. CASE DeliverOrdered \/ DeliverRoundRobin
    BY <1>1, <1>2 DEF DeliverOrdered, DeliverRoundRobin, HeadReady
  <1>3. ASSUME NEW m \in Messages, IsNext(m), UNCHANGED inFlight,
               NEW o \in {"accepted", "rejected"},
               outcome' = [outcome EXCEPT ![m] = o],
               \A n \in Messages : n # m => attempt'[n] = attempt[n],
               hidden' \subseteq hidden \cup {m},
               FreshOrdered(messages', attempt')
        PROVE  FreshInv'
    <2>1. m \notin inFlight /\ inFlight \subseteq Messages
      BY <1>3 DEF OnePlace, Accepted, IsNext, TypeOK
    <2>2. \A n \in Messages : outcome'[n] = IF n = m THEN o ELSE outcome[n]
      BY <1>3 DEF TypeOK
    <2>3. \A n \in Messages : outcome'[n] = "unpublished" =>
            attempt'[n] = 0 /\ n \notin hidden'
      <3> SUFFICES ASSUME NEW n \in Messages, outcome'[n] = "unpublished"
                   PROVE  attempt'[n] = 0 /\ n \notin hidden'
        OBVIOUS
      <3>1. n # m /\ outcome[n] = "unpublished"
        BY <1>3, <2>2
      <3>2. attempt[n] = 0 /\ n \notin hidden
        BY <3>1 DEF FreshInv
      <3> QED BY <1>3, <3>1, <3>2
    <2>4. \A p, n \in Messages : n < p /\ outcome'[p] # "unpublished" =>
            outcome'[n] # "unpublished"
      <3> SUFFICES ASSUME NEW p \in Messages, NEW n \in Messages, n < p,
                          outcome'[p] # "unpublished"
                   PROVE  outcome'[n] # "unpublished"
        OBVIOUS
      <3>1. o # "unpublished"
        OBVIOUS
      <3>2. CASE p = m
        BY <1>3, <2>2, <3>1, <3>2 DEF IsNext
      <3>3. CASE p # m
        BY <2>2, <3>1, <3>3 DEF FreshInv
      <3> QED BY <3>2, <3>3
    <2>5. \A n \in inFlight' : attempt'[n] > 0
      <3> SUFFICES ASSUME NEW n \in inFlight PROVE attempt'[n] > 0
        BY <1>3
      <3>1. n \in Messages /\ n # m /\ attempt[n] > 0
        BY <2>1 DEF FreshInv
      <3> QED BY <1>3, <3>1
    <2> QED BY <1>3, <2>3, <2>4, <2>5 DEF FreshInv
  <1>4. ASSUME NEW m \in Messages, Enqueue(m) PROVE FreshInv'
    <2>1. FreshOrdered(messages', attempt')
      BY <1>0, <1>4, FreshAppend DEF Enqueue, TypeOK, FreshInv, Pending
    <2> QED BY <1>3, <1>4, <2>1 DEF Enqueue
  <1>5. ASSUME NEW m \in Messages, EnqueueFull(m) PROVE FreshInv'
    <2>1. FreshOrdered(messages', attempt')
      BY <1>5 DEF EnqueueFull, FreshInv
    <2> QED BY <1>3, <1>5, <2>1 DEF EnqueueFull
  <1>6. ASSUME NEW m \in Messages, NEW a \in RestoredAttempts, NEW h \in RestoredHidden,
               EnqueueDirect(m, a, h)
        PROVE  FreshInv'
    <2>1. m \notin Pending
      BY <1>6 DEF EnqueueDirect, IsNext, OnePlace, Accepted
    <2>2. \A n \in Messages : n # m => attempt'[n] = attempt[n]
      BY <1>6 DEF EnqueueDirect, TypeOK
    <2>3. \A i \in DOMAIN messages : messages[i] \in Messages /\ messages[i] # m
      BY <2>1, ElementOfSeq DEF TypeOK, Pending, Range
    <2>4. FreshOrdered(messages, attempt')
      BY <2>2, <2>3 DEF FreshOrdered, FreshInv
    <2>5. FreshOrdered(messages', attempt')
      BY <1>0, <1>6, <2>4, FreshAppend DEF EnqueueDirect, TypeOK, Pending
    <2> QED BY <1>3, <1>6, <2>2, <2>5 DEF EnqueueDirect
  <1>7. ASSUME UNCHANGED <<attempt, outcome>>, hidden' \subseteq hidden,
               inFlight' \subseteq inFlight, FreshOrdered(messages', attempt)
        PROVE  FreshInv'
    BY <1>7 DEF FreshInv
  <1>8. ASSUME NEW m \in inFlight, NEW o \in Terminal, SettleInFlight(m, o) PROVE FreshInv'
    <2>1. m \in Messages /\ outcome[m] = "accepted" /\ o # "unpublished"
      BY <1>8 DEF OnePlace, Accepted, TypeOK, Terminal
    <2>2. \A n \in Messages : outcome'[n] = IF n = m THEN o ELSE outcome[n]
      BY <1>8 DEF SettleInFlight, TypeOK
    <2> QED BY <1>8, <2>1, <2>2 DEF SettleInFlight, FreshInv
  <1>9. ASSUME NEW m \in Messages, Ack(m) \/ \E r \in BOOLEAN : NackTerminal(m, r)
        PROVE  FreshInv'
    BY <1>8, <1>9 DEF Ack, NackTerminal, Terminal
  <1>10. ASSUME NEW m \in Messages, NackRequeue(m) PROVE FreshInv'
    <2>1. attempt[m] # 0
      BY <1>10 DEF NackRequeue, FreshInv
    <2>2. FreshOrdered(messages', attempt)
      BY <1>10, <2>1, FreshAppend DEF NackRequeue, TypeOK, FreshInv
    <2> QED BY <1>7, <1>10, <2>2 DEF NackRequeue
  <1>11. CASE RequeueExpired
    <2>1. PICK s \in MapOrders(inFlight \ hidden) : messages' = messages \o s
      BY <1>11 DEF RequeueExpired
    <2>2. s \in Seq(Messages) /\ Range(s) = inFlight \ hidden
      <3>1. IsFiniteSet(inFlight \ hidden)
        BY FiniteMessages, FS_Subset DEF TypeOK
      <3> QED BY <3>1, MapOrderVisitsAll, SeqMonotonic DEF TypeOK
    <2>3. \A n \in Range(s) : attempt[n] # 0
      BY <2>2 DEF FreshInv
    <2>4. FreshOrdered(messages', attempt)
      BY <2>1, <2>2, <2>3, FreshConcat DEF TypeOK, FreshInv
    <2> QED BY <1>7, <1>11, <2>4 DEF RequeueExpired
  <1>12. ASSUME NEW m \in Messages, NEW future \in BOOLEAN, ExtendVisibility(m, future)
         PROVE  FreshInv'
    <2>1. outcome[m] = "accepted"
      BY <1>12 DEF ExtendVisibility, OnePlace, Accepted
    <2> QED BY <1>12, <2>1 DEF ExtendVisibility, FreshInv
  <1>13. ASSUME NEW id \in Ids, RemoveById(id) PROVE FreshInv'
    <2>1. ASSUME NEW i \in DOMAIN messages,
                 /\ messages' = Without(messages, i)
                 /\ hidden' = hidden \ {messages[i]}
                 /\ outcome' = [outcome EXCEPT ![messages[i]] = "removed"]
                 /\ UNCHANGED <<inFlight, attempt>>
          PROVE  FreshInv'
      <3>1. i \in 1 .. Len(messages) /\ messages[i] \in Messages
        BY <2>1, ElementOfSeq DEF TypeOK
      <3>2. messages[i] \in Pending
        BY <2>1 DEF Pending, Range
      <3>3. outcome[messages[i]] = "accepted"
        BY <3>2 DEF OnePlace, Accepted
      <3>4. FreshOrdered(messages', attempt)
        BY <2>1, <3>1, FreshWithout DEF TypeOK, FreshInv
      <3>5. \A n \in Messages : (outcome'[n] = "unpublished") = (outcome[n] = "unpublished")
        BY <2>1, <3>1, <3>3 DEF TypeOK
      <3> QED BY <2>1, <3>4, <3>5 DEF FreshInv
    <2>2. CASE \E m \in inFlight : SettleInFlight(m, "removed")
      BY <1>8, <2>2 DEF Terminal
    <2> QED BY <1>13, <2>1, <2>2 DEF RemoveById
  <1>14. CASE Purge
    <2>1. FreshOrdered(messages', attempt)
      BY <1>14 DEF Purge, FreshOrdered
    <2>2. \A n \in Messages : (outcome'[n] = "unpublished") = (outcome[n] = "unpublished")
      BY <1>14 DEF Purge, OnePlace, Accepted
    <2> QED BY <1>14, <2>1, <2>2 DEF Purge, FreshInv
  <1> QED
    <2>1. CASE DeliverStop \/ UNCHANGED vars
      BY <1>7, <2>1 DEF DeliverStop, vars, FreshInv
    <2>2. ASSUME NEW m \in Messages, Expire(m) PROVE FreshInv'
      BY <1>7, <2>2 DEF Expire, FreshInv
    <2>3. ASSUME NEW c \in Consumers, Dequeue(c) \/ Receive(c) PROVE FreshInv'
      BY <1>7, <2>3 DEF Dequeue, Receive, FreshInv
    <2>4. ASSUME NEW i \in DOMAIN consumers, RemoveConsumer(i) PROVE FreshInv'
      BY <1>7, <2>4 DEF RemoveConsumer, FreshInv
    <2> QED BY <1>2, <1>4, <1>5, <1>6, <1>9, <1>10, <1>11, <1>12, <1>13, <1>14,
               <2>1, <2>2, <2>3, <2>4 DEF Next, TryDeliver

LEMMA AlwaysFresh == Spec => [](TypeOK /\ OnePlace /\ FreshInv)
  BY InitFreshInv, NextFreshInv, TypeCorrect, MessageInOnePlace, PTL DEF Spec

-----------------------------------------------------------------------------
(* The refinement.                                                          *)

QInv == TypeOK /\ OnePlace /\ AcceptedNotLost /\ FreshInv

\* What the abstract status says under the invariant.
LEMMA StatusFacts ==
  ASSUME QInv, NEW m \in Messages
  PROVE  /\ Status[m] = StatusOf(m)
         /\ m \in inFlight => Status[m] = "leased"
         /\ m \in Pending => Status[m] = IF attempt[m] = 0 THEN "fresh" ELSE "ready"
         /\ Status[m] = "fresh" => m \in Pending /\ attempt[m] = 0
         /\ outcome[m] = "unpublished" => Status[m] = "unpublished"
  BY DEF QInv, OnePlace, Accepted, StatusOf, Status, Terminal

\* A step that moves one message to status s and leaves the others alone.
LEMMA StatusExcept ==
  ASSUME NEW m \in Messages, NEW s, StatusOf(m)' = s,
         \A n \in Messages : n # m => StatusOf(n)' = StatusOf(n)
  PROVE  Status' = [Status EXCEPT ![m] = s]
  BY DEF Status

LEMMA StepRefines ==
  ASSUME UniqueIds, QInv, QInv', [Next]_vars
  PROVE  [Contract!LeaseNext]_Status
  <1> USE DEF QInv
  <1>1. ASSUME NEW c, messages # << >>, SendHead(c), UNCHANGED outcome
        PROVE  Contract!LeaseNext
    <2>0. PICK h \in Messages : h = Head(messages)
      BY <1>1, SendHeadMoves
    <2>1. /\ h \in Pending /\ Pending' = Pending \ {h} /\ inFlight' = inFlight \cup {h}
      BY <1>1, <2>0, SendHeadMoves DEF UniqueIds, OnePlace, Accepted, TypeOK
    <2>2. \A n \in Messages : n # h => attempt'[n] = attempt[n]
      BY <1>1, <2>0 DEF SendHead, TypeOK
    <2>3. Status' = [Status EXCEPT ![h] = "leased"]
      <3>1. StatusOf(h)' = "leased"
        BY <2>1 DEF StatusOf
      <3>2. ASSUME NEW n \in Messages, n # h PROVE StatusOf(n)' = StatusOf(n)
        BY <1>1, <2>1, <2>2, <3>2 DEF StatusOf
      <3> QED BY <2>1, <3>1, <3>2, StatusExcept
    <2>4. ASSUME NEW n \in Messages, n < h, Status[h] = "fresh" PROVE Status[n] # "fresh"
      <3> SUFFICES ASSUME Status[n] = "fresh" PROVE FALSE
        OBVIOUS
      <3>1. n \in Pending /\ attempt[n] = 0 /\ attempt[h] = 0
        BY <2>1, <2>4, StatusFacts
      <3>2. /\ messages \in Seq(Messages) /\ DOMAIN messages = 1 .. Len(messages)
            /\ Len(messages) \in Nat /\ h = messages[1]
        BY <1>1, <2>0, EmptySeq DEF TypeOK
      <3>3. PICK i \in 1 .. Len(messages) : messages[i] = n
        BY <3>1, <3>2 DEF Pending, Range
      <3>4. CASE i = 1
        BY <2>1, <2>4, <3>2, <3>3, <3>4, QueueAssumption DEF Messages
      <3>5. CASE i # 1
        <4>1. 1 \in DOMAIN messages /\ i \in DOMAIN messages /\ 1 < i
          BY <3>2, <3>3, <3>5
        <4>2. h < n
          BY <3>1, <3>2, <3>3, <4>1 DEF FreshInv, FreshOrdered
        <4> QED BY <2>1, <2>4, <4>2, QueueAssumption DEF Messages
      <3> QED BY <3>4, <3>5
    <2>5. Status[h] \in {"fresh", "ready"}
      BY <2>1, StatusFacts
    <2>6. Contract!Lease(h)
      BY <2>1, <2>3, <2>4, <2>5 DEF Contract!Lease
    <2> QED BY <2>1, <2>6 DEF Contract!LeaseNext
  <1>2. CASE DeliverOrdered \/ DeliverRoundRobin
    BY <1>1, <1>2 DEF DeliverOrdered, DeliverRoundRobin, HeadReady
  <1>3. ASSUME UNCHANGED <<messages, inFlight, attempt, outcome>> PROVE UNCHANGED Status
    BY <1>3 DEF Status, StatusOf, Pending
  <1>4. ASSUME NEW m \in Messages, outcome[m] = "unpublished", UNCHANGED inFlight,
               \A n \in Messages : n # m => /\ attempt'[n] = attempt[n]
                                           /\ outcome'[n] = outcome[n],
               \/ Pending' = Pending \cup {m}
               \/ Pending' = Pending /\ outcome'[m] = "rejected"
        PROVE  Contract!LeaseNext
    <2>1. m \notin Pending \cup inFlight /\ Status[m] = "unpublished"
      BY <1>4, StatusFacts DEF OnePlace, Accepted
    <2>2. StatusOf(m)' \in {"refused", "fresh", "ready"}
      BY <1>4, <2>1 DEF StatusOf, Terminal
    <2>3. ASSUME NEW n \in Messages, n # m PROVE StatusOf(n)' = StatusOf(n)
      BY <1>4, <2>1, <2>3 DEF StatusOf
    <2>4. Status' = [Status EXCEPT ![m] = StatusOf(m)']
      BY <2>3, StatusExcept
    <2> QED BY <2>1, <2>2, <2>4 DEF Contract!LeaseNext, Contract!Offer
  <1>5. ASSUME NEW m \in Messages, Enqueue(m) \/ EnqueueFull(m) PROVE Contract!LeaseNext
    <2>1. CASE Enqueue(m)
      <3>1. Pending' = Pending \cup {m}
        BY <2>1, RangeAppend DEF Enqueue, TypeOK, Pending
      <3> QED BY <1>4, <2>1, <3>1 DEF Enqueue, IsNext, TypeOK
    <2>2. CASE EnqueueFull(m)
      <3>1. Pending' = Pending /\ outcome'[m] = "rejected"
        BY <2>2 DEF EnqueueFull, Pending, TypeOK
      <3> QED BY <1>4, <2>2, <3>1 DEF EnqueueFull, IsNext, TypeOK
    <2> QED BY <1>5, <2>1, <2>2
  <1>6. ASSUME NEW m \in Messages, NEW a \in RestoredAttempts, NEW h \in RestoredHidden,
               EnqueueDirect(m, a, h)
        PROVE  Contract!LeaseNext
    <2>1. Pending' = Pending \cup {m}
      BY SMTT(30), <1>6, RangeAppend DEF EnqueueDirect, TypeOK, Pending
    <2> QED BY <1>4, <1>6, <2>1 DEF EnqueueDirect, IsNext, TypeOK
  <1>7. ASSUME NEW m \in inFlight, NEW o \in Terminal, SettleInFlight(m, o)
        PROVE  Contract!LeaseNext
    <2>1. m \in Messages /\ m \notin Pending /\ Pending' = Pending /\ Status[m] = "leased"
      BY <1>7, StatusFacts DEF SettleInFlight, TypeOK, OnePlace, Pending
    <2>2. outcome'[m] = o /\ \A n \in Messages : n # m => outcome'[n] = outcome[n]
      BY <1>7, <2>1 DEF SettleInFlight, TypeOK
    <2>3. StatusOf(m)' = "settled"
      BY <1>7, <2>1, <2>2 DEF SettleInFlight, StatusOf, Terminal
    <2>4. ASSUME NEW n \in Messages, n # m PROVE StatusOf(n)' = StatusOf(n)
      BY <1>7, <2>1, <2>2, <2>4 DEF SettleInFlight, StatusOf
    <2>5. Status' = [Status EXCEPT ![m] = "settled"]
      BY <2>1, <2>3, <2>4, StatusExcept
    <2> QED BY <2>1, <2>5 DEF Contract!LeaseNext, Contract!Settle
  <1>8. ASSUME NEW m \in Messages, Ack(m) \/ \E r \in BOOLEAN : NackTerminal(m, r)
        PROVE  Contract!LeaseNext
    BY <1>7, <1>8 DEF Ack, NackTerminal, Terminal
  <1>9. ASSUME NEW S \in SUBSET inFlight, UNCHANGED <<attempt, outcome>>,
               inFlight' = inFlight \ S, Pending' = Pending \cup S
        PROVE  Contract!LeaseNext
    <2>1. S \in SUBSET Messages /\ \A m \in S : Status[m] = "leased"
      BY <1>9, StatusFacts DEF TypeOK
    <2>2. ASSUME NEW m \in Messages
          PROVE  StatusOf(m)' = IF m \in S THEN "ready" ELSE Status[m]
      <3>1. CASE m \in S
        <4>1. attempt[m] # 0
          BY <3>1 DEF FreshInv
        <4> QED BY <1>9, <3>1, <4>1 DEF StatusOf
      <3>2. CASE m \notin S
        BY <1>9, <3>2 DEF StatusOf, Status
      <3> QED BY <3>1, <3>2
    <2>3. Contract!Release(S)
      BY <2>1, <2>2 DEF Contract!Release, Status
    <2> QED BY <2>1, <2>3 DEF Contract!LeaseNext
  <1>10. ASSUME NEW m \in Messages, NackRequeue(m) PROVE Contract!LeaseNext
    <2>1. Pending' = Pending \cup {m}
      BY <1>10, RangeAppend DEF NackRequeue, TypeOK, Pending
    <2> QED BY <1>9, <1>10, <2>1 DEF NackRequeue
  <1>11. CASE RequeueExpired
    <2>1. PICK s \in MapOrders(inFlight \ hidden) : messages' = messages \o s
      BY <1>11 DEF RequeueExpired
    <2>2. s \in Seq(Messages) /\ Range(s) = inFlight \ hidden
      <3>1. IsFiniteSet(inFlight \ hidden)
        BY FiniteMessages, FS_Subset DEF TypeOK
      <3> QED BY <3>1, MapOrderVisitsAll, SeqMonotonic DEF TypeOK
    <2>3. Pending' = Pending \cup (inFlight \ hidden)
      BY <2>1, <2>2, RangeConcat DEF TypeOK, Pending
    <2> QED BY <1>9, <1>11, <2>3 DEF RequeueExpired
  <1>12. ASSUME NEW S \in SUBSET (Pending \cup inFlight), UNCHANGED attempt,
                Pending' = Pending \ S, inFlight' = inFlight \ S,
                \A m \in Messages : IF m \in S THEN outcome'[m] \in Terminal
                                    ELSE outcome'[m] = outcome[m]
         PROVE  Contract!LeaseNext
    <2>1. /\ S \in SUBSET Messages
          /\ \A m \in S : Status[m] \in {"fresh", "ready", "leased"}
      BY <1>12, StatusFacts DEF OnePlace, Accepted
    <2>2. ASSUME NEW m \in Messages
          PROVE  StatusOf(m)' = IF m \in S THEN "settled" ELSE Status[m]
      <3>1. CASE m \in S
        <4>1. m \notin Pending' /\ m \notin inFlight' /\ outcome'[m] \in Terminal
          BY <1>12, <3>1
        <4> QED BY <3>1, <4>1 DEF StatusOf
      <3>2. CASE m \notin S
        <4>1. /\ (m \in Pending') = (m \in Pending) /\ (m \in inFlight') = (m \in inFlight)
              /\ outcome'[m] = outcome[m] /\ attempt' = attempt
          BY <1>12, <3>2
        <4> QED BY <3>2, <4>1 DEF StatusOf, Status
      <3> QED BY <3>1, <3>2
    <2>3. Contract!Discard(S)
      BY <2>1, <2>2 DEF Contract!Discard, Status
    <2> QED BY <2>1, <2>3 DEF Contract!LeaseNext
  <1>13. ASSUME NEW id \in Ids, RemoveById(id) PROVE Contract!LeaseNext
    <2>1. ASSUME NEW i \in DOMAIN messages,
                 /\ messages' = Without(messages, i)
                 /\ outcome' = [outcome EXCEPT ![messages[i]] = "removed"]
                 /\ UNCHANGED <<inFlight, attempt>>
          PROVE  Contract!LeaseNext
      <3>1. /\ i \in 1 .. Len(messages) /\ messages[i] \in Messages
            /\ messages \in Seq(Messages) /\ IsInjective(messages)
        BY <2>1, ElementOfSeq DEF TypeOK, OnePlace
      <3>2. messages[i] \in Pending /\ messages[i] \notin inFlight
        BY <2>1 DEF Pending, Range, OnePlace
      <3>3. /\ Range(Without(messages, i)) \cup {messages[i]} = Range(messages)
            /\ messages[i] \notin Range(Without(messages, i))
        BY <3>1, RangeWithout
      <3>4. Pending' = Pending \ {messages[i]} /\ inFlight' = inFlight \ {messages[i]}
        BY <2>1, <3>2, <3>3 DEF Pending
      <3>5. /\ outcome'[messages[i]] \in Terminal
            /\ \A m \in Messages : m # messages[i] => outcome'[m] = outcome[m]
        BY <2>1, <3>1 DEF TypeOK, Terminal
      <3>6. {messages[i]} \in SUBSET (Pending \cup inFlight)
        BY <3>2
      <3> HIDE DEF QInv
      <3> QED BY <1>12, <2>1, <3>4, <3>5, <3>6
    <2>2. CASE \E m \in inFlight : SettleInFlight(m, "removed")
      BY <1>7, <2>2 DEF Terminal
    <2> QED BY <1>13, <2>1, <2>2 DEF RemoveById
  <1>14. CASE Purge
    <2>1. /\ Pending' = Pending \ (Pending \cup inFlight)
          /\ inFlight' = inFlight \ (Pending \cup inFlight)
      BY <1>14 DEF Purge, Pending, Range
    <2>2. \A m \in Messages : IF m \in Pending \cup inFlight THEN outcome'[m] \in Terminal
                              ELSE outcome'[m] = outcome[m]
      BY <1>14 DEF Purge, Terminal
    <2> QED BY <1>12, <1>14, <2>1, <2>2 DEF Purge
  <1> QED
    <2>1. CASE DeliverStop \/ UNCHANGED vars
      BY <1>3, <2>1 DEF DeliverStop, vars
    <2>2. ASSUME NEW m \in Messages,
                 Expire(m) \/ \E future \in BOOLEAN : ExtendVisibility(m, future)
          PROVE  UNCHANGED Status
      BY <1>3, <2>2 DEF Expire, ExtendVisibility
    <2>3. ASSUME NEW c \in Consumers, Dequeue(c) \/ Receive(c) PROVE UNCHANGED Status
      BY <1>3, <2>3 DEF Dequeue, Receive
    <2>4. ASSUME NEW i \in DOMAIN consumers, RemoveConsumer(i) PROVE UNCHANGED Status
      BY <1>3, <2>4 DEF RemoveConsumer
    <2> QED BY <1>2, <1>5, <1>6, <1>8, <1>10, <1>11, <1>13, <1>14,
               <2>1, <2>2, <2>3, <2>4 DEF Next, TryDeliver

\* The whole of queue.go implements the contract: no message skips a status,
\* first deliveries happen in publish order, only leased messages are settled
\* or released.
THEOREM QueueImplementsContract == UniqueIds => (Spec => ImplementsContract)
  <1> SUFFICES ASSUME UniqueIds PROVE Spec => ImplementsContract
    OBVIOUS
  <1>1. Init => Contract!LeaseInit
    <2> SUFFICES ASSUME Init PROVE Contract!LeaseInit
      OBVIOUS
    <2>1. Pending = {} /\ inFlight = {}
      BY DEF Init, Pending, Range
    <2>2. \A m \in Messages : StatusOf(m) = "unpublished"
      BY <2>1 DEF Init, StatusOf, Terminal
    <2> QED BY <2>2 DEF Contract!LeaseInit, Status
  <1>2. QInv /\ QInv' /\ [Next]_vars => [Contract!LeaseNext]_Status
    BY StepRefines
  <1>4. Spec => []QInv
    BY AlwaysFresh, NothingLost, PTL DEF QInv
  <1> QED BY <1>1, <1>2, <1>4, PTL DEF Spec, ImplementsContract, Contract!LeaseSpec

-----------------------------------------------------------------------------
(* Two consequences for delivery.                                           *)

\* tryDeliver's strict-FIFO test of the head's VisibleAt never blocks the line
\* behind a requeued message: Nack and RequeueExpired make messages visible.
THEOREM NoHiddenHead == Spec => []PendingVisible
  <1>1. Init => PendingVisible
    BY DEF Init, PendingVisible
  <1>2. ASSUME TypeOK, OnePlace, FreshInv, PendingVisible, [Next]_vars PROVE PendingVisible'
    <2> SUFFICES ASSUME RestoredHidden \subseteq {FALSE}, Pending \cap hidden = {}
                 PROVE  Pending' \cap hidden' = {}
      BY <1>2 DEF PendingVisible
    <2> USE <1>2
    <2>1. CASE DeliverOrdered \/ DeliverRoundRobin
      <3>1. PICK c : messages # << >> /\ SendHead(c)
        BY <2>1 DEF DeliverOrdered, DeliverRoundRobin, HeadReady
      <3> QED BY <3>1, SendHeadMoves DEF SendHead
    <2>2. ASSUME NEW m \in Messages,
                 \/ Enqueue(m)
                 \/ \E a \in RestoredAttempts, h \in RestoredHidden : EnqueueDirect(m, a, h)
          PROVE  Pending' \cap hidden' = {}
      <3>1. m \notin hidden
        BY <2>2 DEF Enqueue, EnqueueDirect, IsNext, FreshInv
      <3>2. messages' = Append(messages, m) /\ hidden' = hidden
        BY <2>2 DEF Enqueue, EnqueueDirect
      <3>3. Pending' = Pending \cup {m}
        BY <3>2, RangeAppend DEF TypeOK, Pending
      <3> QED BY <3>1, <3>2, <3>3
    <2>3. ASSUME NEW m \in Messages, NackRequeue(m) PROVE Pending' \cap hidden' = {}
      <3>1. Pending' = Pending \cup {m}
        BY <2>3, RangeAppend DEF NackRequeue, TypeOK, Pending
      <3> QED BY <2>3, <3>1 DEF NackRequeue
    <2>4. CASE RequeueExpired
      <3>1. PICK s \in MapOrders(inFlight \ hidden) : messages' = messages \o s
        BY <2>4 DEF RequeueExpired
      <3>2. s \in Seq(Messages) /\ Range(s) = inFlight \ hidden
        <4>1. IsFiniteSet(inFlight \ hidden)
          BY FiniteMessages, FS_Subset DEF TypeOK
        <4> QED BY <4>1, MapOrderVisitsAll, SeqMonotonic DEF TypeOK
      <3>3. Pending' = Pending \cup (inFlight \ hidden)
        BY <3>1, <3>2, RangeConcat DEF TypeOK, Pending
      <3> QED BY <2>4, <3>3 DEF RequeueExpired
    <2>5. ASSUME NEW m \in Messages, NEW future \in BOOLEAN, ExtendVisibility(m, future)
          PROVE  Pending' \cap hidden' = {}
      <3>1. Pending' = Pending
        BY <2>5 DEF ExtendVisibility, Pending
      <3> QED BY <2>5, <3>1 DEF ExtendVisibility, OnePlace
    <2>6. ASSUME NEW id \in Ids, RemoveById(id) PROVE Pending' \cap hidden' = {}
      <3>1. ASSUME NEW i \in DOMAIN messages, messages' = Without(messages, i),
                   hidden' = hidden \ {messages[i]}
            PROVE  Pending' \cap hidden' = {}
        <4>1. i \in 1 .. Len(messages) /\ messages \in Seq(Messages)
          BY <3>1 DEF TypeOK
        <4>2. Range(Without(messages, i)) \cup {messages[i]} = Range(messages)
          BY <4>1, RangeWithout
        <4> QED BY <3>1, <4>2 DEF Pending
      <3>2. ASSUME NEW m \in inFlight, SettleInFlight(m, "removed")
            PROVE  Pending' \cap hidden' = {}
        BY <3>2 DEF SettleInFlight, Pending
      <3> QED BY <2>6, <3>1, <3>2 DEF RemoveById
    <2>7. CASE Purge
      BY <2>7 DEF Purge, Pending, Range
    <2>8. ASSUME messages' = messages, hidden' \subseteq hidden
          PROVE  Pending' \cap hidden' = {}
      BY <2>8 DEF Pending
    <2>9. CASE DeliverStop \/ UNCHANGED vars
      BY <2>8, <2>9 DEF DeliverStop, vars
    <2>10. ASSUME NEW m \in Messages,
                  \/ EnqueueFull(m) \/ Ack(m) \/ Expire(m)
                  \/ \E r \in BOOLEAN : NackTerminal(m, r)
           PROVE  Pending' \cap hidden' = {}
      BY <2>8, <2>10 DEF EnqueueFull, Ack, Expire, NackTerminal, SettleInFlight
    <2>11. ASSUME NEW c \in Consumers, Dequeue(c) \/ Receive(c)
           PROVE  Pending' \cap hidden' = {}
      BY <2>8, <2>11 DEF Dequeue, Receive
    <2>12. ASSUME NEW i \in DOMAIN consumers, RemoveConsumer(i)
           PROVE  Pending' \cap hidden' = {}
      BY <2>8, <2>12 DEF RemoveConsumer
    <2> QED BY <2>1, <2>2, <2>3, <2>4, <2>5, <2>6, <2>7, <2>9, <2>10, <2>11, <2>12
            DEF Next, TryDeliver
  <1> QED BY <1>1, <1>2, AlwaysFresh, PTL DEF Spec

\* Channels hold copies of published messages only.
CopyInv ==
  /\ CopiesDistinct
  /\ \A c \in Consumers : \A i \in DOMAIN ch[c] : outcome[ch[c][i].msg] # "unpublished"

LEMMA NextCopyInv ==
  TypeOK /\ OnePlace /\ FreshInv /\ CopyInv /\ [Next]_vars => CopyInv'
  <1> SUFFICES ASSUME TypeOK, OnePlace, FreshInv, CopyInv, [Next]_vars PROVE CopyInv'
    OBVIOUS
  <1>0. ASSUME NEW c \in Consumers, NEW i \in DOMAIN ch[c]
        PROVE  /\ ch[c][i] \in Copies /\ ch[c][i].msg \in Messages
               /\ ch[c][i].attempt \in Nat /\ attempt[ch[c][i].msg] \in Nat
               /\ ch[c][i].attempt <= attempt[ch[c][i].msg]
    <2>1. ch[c] \in Seq(Copies)
      BY DEF TypeOK
    <2>2. ch[c][i] \in Copies
      BY <2>1, ElementOfSeq
    <2> QED BY <2>2 DEF CopyInv, CopiesDistinct, Copies, TypeOK
  <1>1. ASSUME NEW d \in Consumers, messages # << >>, SendHead(d), UNCHANGED outcome
        PROVE  CopyInv'
    <2>0. PICK h \in Messages : h = Head(messages)
      BY <1>1, SendHeadMoves
    <2>1. h \in Pending /\ outcome[h] = "accepted"
      BY <1>1, <2>0, SendHeadMoves DEF OnePlace, Accepted
    <2>2. \A m \in Messages : attempt'[m] = IF m = h THEN attempt[m] + 1 ELSE attempt[m]
      BY <1>1, <2>0 DEF SendHead, TypeOK
    <2>3. ASSUME NEW c \in Consumers, NEW i \in DOMAIN ch'[c]
          PROVE  \/ i \in DOMAIN ch[c] /\ ch'[c][i] = ch[c][i]
                 \/ /\ c = d /\ i = Len(ch[d]) + 1
                    /\ ch'[c][i] = [msg |-> h, attempt |-> attempt[h] + 1]
      BY <1>1, <2>0, SendHeadCopies
    <2>4. ASSUME NEW c \in Consumers, NEW i \in DOMAIN ch'[c]
          PROVE  /\ ch'[c][i].attempt <= attempt'[ch'[c][i].msg]
                 /\ outcome'[ch'[c][i].msg] # "unpublished"
      <3>1. CASE i \in DOMAIN ch[c] /\ ch'[c][i] = ch[c][i]
        <4>1. /\ ch[c][i].msg \in Messages /\ ch[c][i].attempt \in Nat
              /\ attempt[ch[c][i].msg] \in Nat
              /\ ch[c][i].attempt <= attempt[ch[c][i].msg]
          BY <1>0, <3>1
        <4>2. attempt[ch[c][i].msg] <= attempt'[ch[c][i].msg]
          BY SMTT(30), <2>2, <4>1
        <4>3. outcome[ch[c][i].msg] # "unpublished"
          BY <3>1 DEF CopyInv
        <4>4. ch[c][i].attempt <= attempt'[ch[c][i].msg]
          BY <2>2, <4>1
        <4> QED BY <1>1, <3>1, <4>3, <4>4
      <3>2. CASE ch'[c][i] = [msg |-> h, attempt |-> attempt[h] + 1]
        BY SMTT(30), <1>1, <2>1, <2>2, <3>2 DEF TypeOK
      <3> QED BY <2>3, <3>1, <3>2
    <2>5. ASSUME NEW b \in Consumers, NEW c \in Consumers, NEW i \in DOMAIN ch'[b],
                 NEW j \in DOMAIN ch'[c], ch'[b][i] = ch'[c][j]
          PROVE  b = c /\ i = j
      <3>1. ASSUME NEW e \in Consumers, NEW k \in DOMAIN ch[e]
            PROVE  ch[e][k] # [msg |-> h, attempt |-> attempt[h] + 1]
        <4>1. ch[e][k].msg = h => ch[e][k].attempt <= attempt[h] /\ attempt[h] \in Nat
          BY <1>0, <3>1
        <4>2. ch[e][k].msg = h => ch[e][k].attempt # attempt[h] + 1
          BY SMTT(30), <1>0, <3>1, <4>1
        <4> DEFINE y == [msg |-> h, attempt |-> attempt[h] + 1]
        <4>3. y.msg = h /\ y.attempt = attempt[h] + 1
          OBVIOUS
        <4> HIDE DEF y
        <4>4. ch[e][k] # y
          BY <4>2, <4>3
        <4> QED BY <4>4 DEF y
      <3>2. CASE i \in DOMAIN ch[b] /\ ch'[b][i] = ch[b][i]
        <4>1. j \in DOMAIN ch[c] /\ ch'[c][j] = ch[c][j]
          BY <2>3, <2>5, <3>1, <3>2
        <4>2. ch[b][i] = ch[c][j]
          BY <2>5, <3>2, <4>1, Zenon
        <4> QED BY SMTT(30), <3>2, <4>1, <4>2 DEF CopyInv, CopiesDistinct
      <3>3. CASE /\ b = d /\ i = Len(ch[d]) + 1
                 /\ ch'[b][i] = [msg |-> h, attempt |-> attempt[h] + 1]
        <4>1. c = d /\ j = Len(ch[d]) + 1
          BY <2>3, <2>5, <3>1, <3>3
        <4> QED BY <3>3, <4>1
      <3> QED BY <2>3, <3>2, <3>3
    <2> QED BY <2>4, <2>5 DEF CopyInv, CopiesDistinct
  <1>2. CASE DeliverOrdered
    <2>1. messages # << >> /\ consumers # << >> /\ KeyOf[Head(messages)] # NoKey
      BY <1>2 DEF DeliverOrdered, HeadReady
    <2>2. KeyOf[Head(messages)] \in Keys
      BY <2>1, RangeTail, QueueAssumption DEF TypeOK
    <2>3. Assignee(KeyOf[Head(messages)]) \in Consumers
      BY <2>1, <2>2, PicksConsumer
    <2> QED BY <1>1, <1>2, <2>1, <2>3 DEF DeliverOrdered
  <1>3. CASE DeliverRoundRobin
    <2>1. messages # << >> /\ consumers # << >>
      BY <1>3 DEF DeliverRoundRobin, HeadReady
    <2>2. PICK j \in FreeSlots : SendHead(consumers[Slot(j)])
      BY <1>3 DEF DeliverRoundRobin
    <2>3. consumers[Slot(j)] \in Consumers
      BY <2>1, PicksConsumer DEF FreeSlots
    <2> QED BY <1>1, <1>3, <2>1, <2>2, <2>3 DEF DeliverRoundRobin
  <1>4. ASSUME UNCHANGED ch,
               \A m \in Messages : outcome[m] # "unpublished" =>
                 outcome'[m] # "unpublished" /\ attempt'[m] = attempt[m]
        PROVE  CopyInv'
    <2>1. ASSUME NEW c \in Consumers, NEW i \in DOMAIN ch[c]
          PROVE  /\ ch[c][i].attempt <= attempt'[ch[c][i].msg]
                 /\ outcome'[ch[c][i].msg] # "unpublished"
      <3>1. ch[c][i].msg \in Messages /\ outcome[ch[c][i].msg] # "unpublished"
        BY <1>0 DEF CopyInv
      <3>2. attempt'[ch[c][i].msg] = attempt[ch[c][i].msg]
        BY <1>4, <3>1
      <3> QED BY <1>0, <1>4, <3>1, <3>2
    <2> QED BY SMTT(30), <1>4, <2>1 DEF CopyInv, CopiesDistinct
  <1>5. ASSUME NEW c \in Consumers, Receive(c) PROVE CopyInv'
    <2>1. /\ Len(Tail(ch[c])) = Len(ch[c]) - 1 /\ Len(ch[c]) \in Nat \ {0}
          /\ \A i \in 1 .. Len(ch[c]) - 1 : Tail(ch[c])[i] = ch[c][i + 1]
          /\ DOMAIN Tail(ch[c]) = 1 .. Len(ch[c]) - 1
          /\ DOMAIN ch[c] = 1 .. Len(ch[c])
      BY <1>5, HeadTailProperties, EmptySeq DEF Receive, TypeOK
    <2>2. \A d \in Consumers : ch'[d] = IF d = c THEN Tail(ch[c]) ELSE ch[d]
      BY <1>5 DEF Receive, TypeOK
    <2> DEFINE src(d, i) == IF d = c THEN i + 1 ELSE i
    <2>3. ASSUME NEW d \in Consumers, NEW i \in DOMAIN ch'[d]
          PROVE  src(d, i) \in DOMAIN ch[d] /\ ch'[d][i] = ch[d][src(d, i)]
      <3>1. CASE d # c
        BY <2>2, <3>1
      <3>2. CASE d = c
        <4>1. i \in 1 .. Len(ch[c]) - 1 /\ ch'[d][i] = Tail(ch[c])[i]
          BY <2>1, <2>2, <3>2
        <4>2. i + 1 \in DOMAIN ch[d] /\ ch'[d][i] = ch[d][i + 1]
          BY <2>1, <3>2, <4>1
        <4> QED BY <3>2, <4>2
      <3> QED BY <3>1, <3>2
    <2>4. ASSUME NEW d \in Consumers, NEW i \in DOMAIN ch'[d], NEW j \in DOMAIN ch'[d],
                 src(d, i) = src(d, j)
          PROVE  i = j
      <3>1. CASE d # c
        BY <2>4, <3>1
      <3>2. CASE d = c
        <4>1. DOMAIN ch'[d] = 1 .. Len(ch[c]) - 1
          BY <2>1, <2>2, <3>2
        <4>2. i \in 1 .. Len(ch[c]) - 1 /\ j \in 1 .. Len(ch[c]) - 1
          BY <4>1
        <4> QED BY <2>1, <2>4, <3>2, <4>2
      <3> QED BY <3>1, <3>2
    <2>5. UNCHANGED <<attempt, outcome>>
      BY <1>5 DEF Receive
    <2> HIDE DEF src
    <2> QED BY SMTT(30), <2>3, <2>4, <2>5 DEF CopyInv, CopiesDistinct
  <1> QED
    <2>1. ASSUME NEW m \in Messages, Enqueue(m) \/ EnqueueFull(m) PROVE CopyInv'
      BY <1>4, <2>1 DEF Enqueue, EnqueueFull, IsNext, TypeOK
    <2>2. ASSUME NEW m \in Messages, NEW a \in RestoredAttempts, NEW h \in RestoredHidden,
                 EnqueueDirect(m, a, h)
          PROVE  CopyInv'
      BY <1>4, <2>2 DEF EnqueueDirect, IsNext, TypeOK
    <2>3. ASSUME NEW m \in inFlight, NEW o \in Terminal, SettleInFlight(m, o) PROVE CopyInv'
      <3>1. m \in Messages /\ o # "unpublished"
        BY <2>3 DEF TypeOK, Terminal
      <3> QED BY <1>4, <2>3, <3>1 DEF SettleInFlight, TypeOK
    <2>4. ASSUME NEW m \in Messages, Ack(m) \/ \E r \in BOOLEAN : NackTerminal(m, r)
          PROVE  CopyInv'
      BY <2>3, <2>4 DEF Ack, NackTerminal, Terminal
    <2>5. ASSUME NEW m \in Messages,
                 \/ NackRequeue(m) \/ Expire(m)
                 \/ \E future \in BOOLEAN : ExtendVisibility(m, future)
          PROVE  CopyInv'
      BY <1>4, <2>5 DEF NackRequeue, Expire, ExtendVisibility
    <2>6. CASE RequeueExpired \/ DeliverStop \/ UNCHANGED vars
      BY <1>4, <2>6 DEF RequeueExpired, DeliverStop, vars
    <2>7. ASSUME NEW c \in Consumers, Dequeue(c) PROVE CopyInv'
      BY <1>4, <2>7 DEF Dequeue
    <2>8. ASSUME NEW i \in DOMAIN consumers, RemoveConsumer(i) PROVE CopyInv'
      BY <1>4, <2>8 DEF RemoveConsumer
    <2>9. CASE Purge
      BY <1>4, <2>9 DEF Purge
    <2>10. ASSUME NEW id \in Ids, RemoveById(id) PROVE CopyInv'
      <3>1. ASSUME NEW i \in DOMAIN messages,
                   /\ outcome' = [outcome EXCEPT ![messages[i]] = "removed"]
                   /\ UNCHANGED <<ch, attempt>>
            PROVE  CopyInv'
        <4>1. \A m \in Messages : outcome'[m] \in {outcome[m], "removed"}
          BY <3>1 DEF TypeOK
        <4> QED BY <1>4, <3>1, <4>1
      <3> QED BY <2>3, <2>10, <3>1 DEF RemoveById, Terminal
    <2> QED BY <1>2, <1>3, <1>5, <2>1, <2>2, <2>4, <2>5, <2>6, <2>7, <2>8, <2>9, <2>10
            DEF Next, TryDeliver

\* The attempt numbers consumers see: tryDeliver never leaves two copies of a
\* message with one number in the channels.
THEOREM AttemptsDistinct == Spec => []CopiesDistinct
  <1>1. Init => CopyInv
    BY DEF Init, CopyInv, CopiesDistinct
  <1> QED BY <1>1, NextCopyInv, AlwaysFresh, PTL DEF Spec, CopyInv
=============================================================================
