--------------------------- MODULE DurableProofs ---------------------------
(***************************************************************************)
(* What the durable handlers guarantee for any number of messages, levels  *)
(* and idempotency keys.                                                   *)
(***************************************************************************)
EXTENDS Durable, SeqLemmas

\* Whatever is about to be stored at a level, its configuration is stored.
FoundInv ==
  /\ DurableTypeOK
  /\ queues \subseteq meta
  /\ StoredIsFound
  /\ \A m \in Messages : pub[m] \in {"created", "saved", "full"} => 0 \in meta
  /\ \A l \in Levels, m \in Messages :
       /\ mv[l][m] # "no" => l < MaxLevel
       /\ mv[l][m] \in {"enqueued", "deleted"} => l + 1 \in meta
  /\ \A l \in Levels : InMemory(l) # {} => l \in meta
  /\ rt # "idle" => 0 \in meta /\ 1 \in meta
  /\ rt \notin {"idle", "loop"} => pending[1] # << >>

\* Nobody purges, retries or moves messages to a dead letter queue.
Plain == /\ FailurePolicy # "dlq"
         /\ "purge" \notin Ops
         /\ "retry" \notin Ops
         /\ InitialDead = {}

\* Then no handler but a publish takes more than one step,
NothingUnderWay ==
  /\ \A l \in Levels, m \in Messages : mv[l][m] = "no"
  /\ \A l \in Levels : ~pg[l]
  /\ rt = "idle"
  /\ purged = {}

\* only level 0 is ever used,
EmptyAbove ==
  \A l \in Levels \ {0} : stored[l] = {} /\ pending[l] = << >> /\ inFlight[l] = {}

\* a message is in memory once,
HeldOnce == IsInjective(pending[0]) /\ Range(pending[0]) \cap inFlight[0] = {}

\* and only while it is stored, which it is not once settled,
Backed == InMemory(0) \subseteq stored[0] /\ (acked \cup gone) \cap stored[0] = {}

\* and the step a publish is at tells where its message is.
PublishedAt(m) ==
  /\ pub[m] \in {"new", "checked", "created"} => m \notin stored[0] \cup acked \cup gone
  /\ pub[m] \in {"saved", "full"} => m \in stored[0] \ InMemory(0)
  /\ pub[m] = "refused" => m \notin stored[0]
  /\ pub[m] = "ok" => m \in stored[0] \cup acked \cup gone

PlainInv ==
  /\ NothingUnderWay
  /\ EmptyAbove
  /\ HeldOnce
  /\ Backed
  /\ \A m \in Messages : PublishedAt(m)

Passed == {"checked", "created", "saved", "full", "ok"}

\* Two requests with one key only get past the tracker if it forgot the key.
KeyInv ==
  /\ \A m \in Messages : pub[m] \in Passed /\ KeyOf[m] # NoKey =>
       KeyOf[m] \in seen \cup lapsed
  /\ \A m, n \in Messages :
       pub[m] \in Passed /\ pub[n] \in Passed /\ KeyOf[m] = KeyOf[n] /\ KeyOf[m] # NoKey =>
         m = n \/ KeyOf[m] \in lapsed
-----------------------------------------------------------------------------
(* Recovery finds what is stored.                                           *)

LEMMA RangeOfEmpty == Range(<< >>) = {}
  BY DEF Range

LEMMA LevelFacts == /\ 0 \in Levels /\ 1 \in Levels
                    /\ \A l \in Levels : l < MaxLevel => l + 1 \in Levels
                    /\ IsFiniteSet(Messages)
  BY DurableAssumption, FS_Interval DEF Levels, Messages

\* LoadFromStorage makes exactly the stored messages pending, each once.
LEMMA LoadedFacts ==
  ASSUME DurableTypeOK, NEW p \in Loaded
  PROVE  /\ p \in [Levels -> Seq(Messages)]
         /\ \A l \in Levels : Range(p[l]) = ToLoad(l) /\ IsInjective(p[l])
  <1>1. ASSUME NEW l \in Levels
        PROVE  p[l] \in Seq(Messages) /\ Range(p[l]) = ToLoad(l) /\ IsInjective(p[l])
    <2>1. ToLoad(l) \subseteq Messages /\ IsFiniteSet(ToLoad(l))
      BY LevelFacts, FS_Subset, FS_EmptySet DEF ToLoad, DurableTypeOK
    <2>2. p[l] \in MapOrders(ToLoad(l))
      BY DEF Loaded, KeyOrders
    <2>3. p[l] \in Seq(ToLoad(l)) /\ Range(p[l]) = ToLoad(l) /\ IsInjective(p[l])
      BY <2>1, <2>2, MapOrderVisitsAll
    <2> QED BY <2>1, <2>3, SeqMonotonic
  <1>2. p = [l \in Levels |-> p[l]]
    BY DEF Loaded
  <1> QED BY <1>1, <1>2

LEMMA InitFound == Init => FoundInv
  <1> SUFFICES ASSUME Init PROVE FoundInv
    OBVIOUS
  <1>1. /\ stored \in [Levels -> SUBSET Messages] /\ meta \subseteq Levels
        /\ \A l \in Levels : stored[l] # {} => l \in meta
    BY LevelFacts, DurableAssumption DEF Init
  <1>2. pending \in [Levels -> Seq(Messages)] /\ \A l \in Levels : Range(pending[l]) = ToLoad(l)
    <2>1. ASSUME NEW l \in Levels PROVE pending[l] \in Seq(Messages) /\ Range(pending[l]) = ToLoad(l)
      <3>1. ToLoad(l) \subseteq Messages /\ IsFiniteSet(ToLoad(l))
        BY <1>1, LevelFacts, FS_Subset, FS_EmptySet DEF ToLoad
      <3>2. pending[l] \in MapOrders(ToLoad(l))
        BY DEF Init, Loaded, KeyOrders
      <3> QED BY <3>1, <3>2, MapOrderVisitsAll, SeqMonotonic
    <2> QED BY <2>1 DEF Init, Loaded
  <1>3. DurableTypeOK
    BY <1>1, <1>2 DEF Init, DurableTypeOK, PubSteps, Answers
  <1>4. \A l \in Levels : InMemory(l) # {} => l \in meta
    BY <1>2 DEF InMemory, ToLoad, Init
  <1> QED BY <1>1, <1>3, <1>4 DEF Init, FoundInv, StoredIsFound

\* Restarting keeps the types, and what is loaded belongs to known levels.
LEMMA RestartFound == FoundInv /\ Restart => FoundInv'
  <1> SUFFICES ASSUME FoundInv, Restart PROVE FoundInv'
    OBVIOUS
  <1>1. /\ pending' \in [Levels -> Seq(Messages)]
        /\ \A l \in Levels : Range(pending'[l]) = ToLoad(l)
    BY LoadedFacts DEF Restart, FoundInv
  <1>2. UNCHANGED <<meta, stored, acked, gone, purged>>
    BY DEF Restart, diskVars
  <1>3. DurableTypeOK'
    BY <1>1, <1>2 DEF Restart, FoundInv, DurableTypeOK, PubSteps, Answers
  <1>4. \A l \in Levels : InMemory(l)' # {} => l \in meta
    BY <1>1 DEF InMemory, ToLoad, Restart
  <1>5. \A m \in Messages : pub'[m] \notin {"created", "saved", "full"}
    BY DEF Restart, PubSteps, FoundInv, DurableTypeOK
  <1>6. \A l \in Levels, m \in Messages : mv'[l][m] = "no"
    BY DEF Restart
  <1>7. queues' \subseteq meta' /\ rt' = "idle" /\ StoredIsFound'
    BY <1>2 DEF Restart, FoundInv, StoredIsFound
  <1> QED BY <1>2, <1>3, <1>4, <1>5, <1>6, <1>7 DEF FoundInv

\* What appending to, and taking the head of, a level's slice does.
LEMMA PendingAppend ==
  ASSUME DurableTypeOK, NEW l \in Levels, NEW m \in Messages,
         pending' = [pending EXCEPT ![l] = Append(@, m)]
  PROVE  /\ pending' \in [Levels -> Seq(Messages)]
         /\ Range(pending'[l]) = Range(pending[l]) \cup {m}
         /\ pending'[l] # << >>
         /\ IsInjective(pending[l]) /\ m \notin Range(pending[l]) => IsInjective(pending'[l])
         /\ \A k \in Levels \ {l} : pending'[k] = pending[k]
  <1>1. pending[l] \in Seq(Messages) /\ pending'[l] = Append(pending[l], m)
    BY DEF DurableTypeOK
  <1>2. pending'[l] \in Seq(Messages) /\ pending'[l] # << >>
    BY <1>1
  <1>3. /\ Range(pending'[l]) = Range(pending[l]) \cup {m}
        /\ IsInjective(pending[l]) /\ m \notin Range(pending[l]) => IsInjective(pending'[l])
    BY <1>1, RangeAppend
  <1> QED BY <1>2, <1>3 DEF DurableTypeOK

LEMMA PendingTail ==
  ASSUME DurableTypeOK, NEW l \in Levels, pending[l] # << >>,
         pending' = [pending EXCEPT ![l] = Tail(@)]
  PROVE  /\ pending' \in [Levels -> Seq(Messages)]
         /\ Head(pending[l]) \in Messages
         /\ Range(pending[l]) = Range(pending'[l]) \cup {Head(pending[l])}
         /\ IsInjective(pending[l]) =>
              IsInjective(pending'[l]) /\ Head(pending[l]) \notin Range(pending'[l])
         /\ \A k \in Levels \ {l} : pending'[k] = pending[k]
  <1>1. pending[l] \in Seq(Messages) /\ pending'[l] = Tail(pending[l])
    BY DEF DurableTypeOK
  <1>2. /\ Head(pending[l]) \in Messages /\ pending'[l] \in Seq(Messages)
        /\ Range(pending[l]) = Range(pending'[l]) \cup {Head(pending[l])}
        /\ IsInjective(pending[l]) =>
             IsInjective(pending'[l]) /\ Head(pending[l]) \notin Range(pending'[l])
    BY <1>1, RangeTail
  <1> QED BY <1>2 DEF DurableTypeOK

\* What a storage call does to the messages stored.
LEMMA StoredStep ==
  ASSUME DurableTypeOK, NEW l \in Levels, NEW m \in Messages,
         Save(l, m) \/ Delete(l, m) \/ Fails
  PROVE  /\ stored' \in [Levels -> SUBSET Messages]
         /\ \A k \in Levels \ {l} : stored'[k] = stored[k]
  <1>1. CASE Save(l, m)
    BY <1>1 DEF DurableTypeOK, Save
  <1>2. CASE Delete(l, m)
    BY <1>2 DEF DurableTypeOK, Delete
  <1>3. CASE Fails
    BY <1>3 DEF DurableTypeOK, Fails
  <1> QED BY <1>1, <1>2, <1>3

\* What deleting an entry of a level's in-flight map does.
LEMMA LeaseEnds ==
  ASSUME DurableTypeOK, NEW l \in Levels, NEW m \in Messages,
         inFlight' = [inFlight EXCEPT ![l] = @ \ {m}]
  PROVE  /\ inFlight' \in [Levels -> SUBSET Messages]
         /\ inFlight'[l] = inFlight[l] \ {m}
         /\ \A k \in Levels \ {l} : inFlight'[k] = inFlight[k]
  BY DEF DurableTypeOK

LEMMA PublishFound ==
  ASSUME FoundInv, NEW m \in Messages, Publish(m) PROVE FoundInv'
  <1> USE DEF memVars, diskVars, history
  <1>1. CASE PublishPressure(m) \/ PublishCheck(m)
    <2>1. DurableTypeOK'
      BY <1>1, DurableAssumption
      DEF PublishPressure, PublishCheck, Goto, FoundInv, DurableTypeOK, PubSteps, Answers
    <2> QED BY <1>1, <2>1
      DEF PublishPressure, PublishCheck, Goto, FoundInv, DurableTypeOK, StoredIsFound, InMemory
  <1>2. CASE PublishCreate(m)
    <2>0. pub' \in [Messages -> PubSteps \cup Answers]
      BY <1>2 DEF PublishCreate, Goto, FoundInv, DurableTypeOK, PubSteps, Answers
    <2>1. DurableTypeOK'
      BY <1>2, <2>0, LevelFacts DEF PublishCreate, Create, FoundInv, DurableTypeOK
    <2>2. meta \subseteq meta' /\ queues' \subseteq meta' /\ UNCHANGED <<pending, inFlight, stored, mv, rt>>
      BY <1>2 DEF PublishCreate, Create, FoundInv
    <2>3. \A n \in Messages : pub'[n] \in {"created", "saved", "full"} => 0 \in meta'
      BY <1>2 DEF PublishCreate, Create, Goto, FoundInv, DurableTypeOK
    <2> QED BY <2>1, <2>2, <2>3 DEF FoundInv, StoredIsFound, InMemory
  <1>3. CASE PublishSave(m) \/ PublishRollback(m)
    <2>0. pub' \in [Messages -> PubSteps \cup Answers]
      BY <1>3 DEF PublishSave, PublishRollback, Goto, FoundInv, DurableTypeOK, PubSteps, Answers
    <2>3. /\ stored' \in [Levels -> SUBSET Messages]
          /\ \A l \in Levels \ {0} : stored'[l] = stored[l]
      BY <1>3, StoredStep, LevelFacts DEF PublishSave, PublishRollback, FoundInv
    <2>1. DurableTypeOK'
      BY <1>3, <2>0, <2>3 DEF PublishSave, PublishRollback, FoundInv, DurableTypeOK
    <2>2. 0 \in meta /\ UNCHANGED <<queues, pending, inFlight, meta, mv, rt>>
      BY <1>3 DEF PublishSave, PublishRollback, FoundInv
    <2> QED BY <2>1, <2>2, <2>3 DEF FoundInv, StoredIsFound, InMemory
  <1>4. CASE PublishEnqueue(m)
    <2>1. 0 \in meta /\ UNCHANGED <<queues, inFlight, meta, stored, mv, rt>>
      BY <1>4 DEF PublishEnqueue, FoundInv
    <2>2. /\ pending' \in [Levels -> Seq(Messages)]
          /\ \A l \in Levels \ {0} : pending'[l] = pending[l]
      BY <1>4, PendingAppend, LevelFacts DEF PublishEnqueue, FoundInv, DurableTypeOK
    <2>0. pub' \in [Messages -> PubSteps \cup Answers]
      <3>1. \E p \in {"full", "ok"} : Goto(m, p)
        BY <1>4 DEF PublishEnqueue
      <3>2. {"full", "ok"} \subseteq PubSteps \cup Answers
        BY DEF PubSteps, Answers
      <3> QED BY <3>1, <3>2 DEF Goto, FoundInv, DurableTypeOK
    <2>3. DurableTypeOK'
      BY <1>4, <2>0, <2>2 DEF PublishEnqueue, FoundInv, DurableTypeOK
    <2>4. \A l \in Levels : InMemory(l)' # {} => l \in meta'
      BY <2>1, <2>2 DEF FoundInv, InMemory
    <2>5. pending'[1] = pending[1]
      BY <2>2, LevelFacts
    <2> QED BY <2>1, <2>3, <2>4, <2>5 DEF FoundInv, StoredIsFound
  <1> QED BY <1>1, <1>2, <1>3, <1>4 DEF Publish

\* Steps that move messages within memory and touch storage at levels that are
\* known already keep FoundInv.
LEMMA KnownLevelFound ==
  ASSUME FoundInv, DurableTypeOK', UNCHANGED <<pub, mv, rt>>, rt = "idle" \/ pending'[1] = pending[1],
         meta \subseteq meta', queues' \subseteq meta',
         \A l \in Levels : stored'[l] # {} => l \in meta',
         \A l \in Levels : Range(pending'[l]) \cup inFlight'[l] # {} => l \in meta'
  PROVE  FoundInv'
  BY DEF FoundInv, StoredIsFound, InMemory

LEMMA DeliverFound ==
  ASSUME FoundInv, NEW l \in Levels, Deliver(l) PROVE FoundInv'
  <1> USE DEF memVars, diskVars, history
  <1>1. UNCHANGED <<queues, meta, stored, pub, mv, rt>> /\ (l = 1 => rt = "idle")
    BY DEF Deliver, Unlocked
  <1>2. /\ pending' \in [Levels -> Seq(Messages)]
        /\ Head(pending[l]) \in Messages
        /\ Range(pending[l]) = Range(pending'[l]) \cup {Head(pending[l])}
        /\ \A k \in Levels \ {l} : pending'[k] = pending[k]
    BY PendingTail DEF Deliver, FoundInv
  <1>3. /\ inFlight' \in [Levels -> SUBSET Messages]
        /\ inFlight'[l] = inFlight[l] \cup {Head(pending[l])}
        /\ \A k \in Levels \ {l} : inFlight'[k] = inFlight[k]
    BY <1>2 DEF Deliver, FoundInv, DurableTypeOK
  <1>4. DurableTypeOK'
    BY <1>2, <1>3 DEF Deliver, FoundInv, DurableTypeOK
  <1>5. \A k \in Levels : Range(pending'[k]) \cup inFlight'[k] # {} => k \in meta
    BY <1>2, <1>3 DEF FoundInv, InMemory
  <1>6. rt = "idle" \/ pending'[1] = pending[1]
    BY <1>1, <1>2, LevelFacts
  <1> QED BY <1>1, <1>4, <1>5, <1>6, KnownLevelFound DEF FoundInv, StoredIsFound

LEMMA RequeueFound ==
  ASSUME FoundInv, NEW l \in Levels, NEW m \in Messages, Expire(l, m) \/ NackRequeue(l, m)
  PROVE  FoundInv'
  <1> USE DEF memVars, diskVars, history
  <1>1. /\ UNCHANGED <<queues, meta, pub, mv, rt>> /\ (l = 1 => rt = "idle")
        /\ m \in inFlight[l] /\ l \in meta
    BY DEF Expire, NackRequeue, Unlocked, FoundInv, InMemory
  <1>2. /\ pending' \in [Levels -> Seq(Messages)]
        /\ \A k \in Levels \ {l} : pending'[k] = pending[k]
    BY PendingAppend DEF Expire, NackRequeue, FoundInv
  <1>3. /\ inFlight' \in [Levels -> SUBSET Messages]
        /\ \A k \in Levels \ {l} : inFlight'[k] = inFlight[k]
    BY LeaseEnds DEF Expire, NackRequeue, FoundInv
  <1>4. /\ stored' \in [Levels -> SUBSET Messages]
        /\ \A k \in Levels \ {l} : stored'[k] = stored[k]
    <2>1. CASE Expire(l, m)
      BY <2>1 DEF Expire, FoundInv, DurableTypeOK
    <2>2. CASE NackRequeue(l, m)
      BY <2>2, StoredStep DEF NackRequeue, FoundInv
    <2> QED BY <2>1, <2>2
  <1>5. DurableTypeOK'
    <2>1. UNCHANGED <<seen, pg, acked, gone, purged, lapsed>>
      BY DEF Expire, NackRequeue
    <2> QED BY <1>1, <1>2, <1>3, <1>4, <2>1 DEF FoundInv, DurableTypeOK
  <1>6. \A k \in Levels : Range(pending'[k]) \cup inFlight'[k] # {} => k \in meta
    BY <1>1, <1>2, <1>3 DEF FoundInv, InMemory
  <1>7. \A k \in Levels : stored'[k] # {} => k \in meta
    BY <1>1, <1>4 DEF FoundInv, StoredIsFound
  <1>8. rt = "idle" \/ pending'[1] = pending[1]
    BY <1>1, <1>2, LevelFacts
  <1> QED BY <1>1, <1>5, <1>6, <1>7, <1>8, KnownLevelFound DEF FoundInv

LEMMA SettleFound ==
  ASSUME FoundInv, NEW l \in Levels, NEW m \in Messages, Ack(l, m) \/ NackDrop(l, m)
  PROVE  FoundInv'
  <1> USE DEF memVars, diskVars, history
  <1>1. /\ UNCHANGED <<queues, pending, meta, pub, mv, rt>>
        /\ m \in inFlight[l] /\ l \in meta
    BY DEF Ack, NackDrop, FoundInv, InMemory
  <1>2. /\ inFlight' \in [Levels -> SUBSET Messages]
        /\ \A k \in Levels \ {l} : inFlight'[k] = inFlight[k]
    BY LeaseEnds DEF Ack, NackDrop, FoundInv
  <1>3. /\ stored' \in [Levels -> SUBSET Messages]
        /\ \A k \in Levels \ {l} : stored'[k] = stored[k]
    BY StoredStep DEF Ack, NackDrop, FoundInv
  <1>4. DurableTypeOK'
    <2>1. /\ UNCHANGED <<seen, pg, purged, lapsed>>
          /\ acked' \cup gone' \subseteq Messages
      BY DEF Ack, NackDrop, FoundInv, DurableTypeOK
    <2> QED BY <1>1, <1>2, <1>3, <2>1 DEF FoundInv, DurableTypeOK
  <1>5. \A k \in Levels : Range(pending'[k]) \cup inFlight'[k] # {} => k \in meta
    BY <1>1, <1>2 DEF FoundInv, InMemory
  <1>6. \A k \in Levels : stored'[k] # {} => k \in meta
    BY <1>1, <1>3 DEF FoundInv, StoredIsFound
  <1> QED BY <1>1, <1>4, <1>5, <1>6, KnownLevelFound DEF FoundInv

LEMMA MoveFound ==
  ASSUME FoundInv, NEW l \in Levels, NEW m \in Messages, NackTake(l, m) \/ Move(l, m)
  PROVE  FoundInv'
  <1> USE DEF memVars, diskVars, history
  <1>1. CASE NackTake(l, m)
    <2>1. /\ UNCHANGED <<queues, pending, meta, stored, pub, rt, seen, pg, acked, gone, purged, lapsed>>
          /\ l < MaxLevel
      BY <1>1 DEF NackTake
    <2>2. /\ inFlight' \in [Levels -> SUBSET Messages]
          /\ \A k \in Levels : inFlight'[k] \subseteq inFlight[k]
      <3>1. /\ inFlight' \in [Levels -> SUBSET Messages]
            /\ inFlight'[l] = inFlight[l] \ {m}
            /\ \A k \in Levels \ {l} : inFlight'[k] = inFlight[k]
        BY <1>1, LeaseEnds DEF NackTake, FoundInv
      <3> QED BY <3>1
    <2>3. /\ mv' \in [Levels -> [Messages -> {"no", "taken", "enqueued", "deleted"}]]
          /\ \A k \in Levels, n \in Messages :
               mv'[k][n] = IF k = l /\ n = m THEN "taken" ELSE mv[k][n]
      BY <1>1 DEF NackTake, FoundInv, DurableTypeOK
    <2>4. DurableTypeOK'
      BY <2>1, <2>2, <2>3 DEF FoundInv, DurableTypeOK
    <2>5. \A k \in Levels : InMemory(k)' # {} => k \in meta'
      BY <2>1, <2>2 DEF FoundInv, InMemory
    <2>6. \A k \in Levels, n \in Messages :
            /\ mv'[k][n] # "no" => k < MaxLevel
            /\ mv'[k][n] \in {"enqueued", "deleted"} => k + 1 \in meta'
      BY <2>1, <2>3 DEF FoundInv
    <2> QED BY <2>1, <2>4, <2>5, <2>6 DEF FoundInv, StoredIsFound
  <1>2. CASE MoveEnqueue(l, m)
    <2>1. /\ UNCHANGED <<inFlight, stored, pub, rt, seen, pg, acked, gone, purged, lapsed>>
          /\ l < MaxLevel /\ l + 1 \in Levels /\ (l + 1 = 1 => rt = "idle")
          /\ queues' = queues \cup {l + 1} /\ meta' = meta \cup {l + 1}
      BY <1>2, LevelFacts DEF MoveEnqueue, Create, Unlocked, FoundInv
    <2>2. /\ pending' \in [Levels -> Seq(Messages)]
          /\ \A k \in Levels \ {l + 1} : pending'[k] = pending[k]
      BY <1>2, <2>1, PendingAppend DEF MoveEnqueue, FoundInv, DurableTypeOK
    <2>3. /\ mv' \in [Levels -> [Messages -> {"no", "taken", "enqueued", "deleted"}]]
          /\ \A k \in Levels, n \in Messages :
               mv'[k][n] = IF k = l /\ n = m THEN "enqueued" ELSE mv[k][n]
      BY <1>2 DEF MoveEnqueue, FoundInv, DurableTypeOK
    <2>4. DurableTypeOK'
      BY <2>1, <2>2, <2>3 DEF FoundInv, DurableTypeOK
    <2>5. \A k \in Levels : InMemory(k)' # {} => k \in meta'
      BY <2>1, <2>2 DEF FoundInv, InMemory
    <2>6. \A k \in Levels, n \in Messages :
            /\ mv'[k][n] # "no" => k < MaxLevel
            /\ mv'[k][n] \in {"enqueued", "deleted"} => k + 1 \in meta'
      BY <2>1, <2>3 DEF FoundInv
    <2>7. rt' = "idle" \/ pending'[1] = pending[1]
      BY <2>1, <2>2, LevelFacts
    <2> QED BY <2>1, <2>4, <2>5, <2>6, <2>7 DEF FoundInv, StoredIsFound
  <1>3. CASE MoveDelete(l, m) \/ MoveSave(l, m)
    <2>1. /\ UNCHANGED <<queues, pending, inFlight, meta, pub, rt, seen, pg, acked, gone, purged, lapsed>>
          /\ l < MaxLevel /\ l + 1 \in Levels /\ l + 1 \in meta
      BY <1>3, LevelFacts DEF MoveDelete, MoveSave, FoundInv
    <2>2. /\ stored' \in [Levels -> SUBSET Messages]
          /\ \A k \in Levels \ {l + 1} : stored'[k] \subseteq stored[k]
      <3>1. CASE Delete(l, m)
        BY <3>1 DEF Delete, FoundInv, DurableTypeOK
      <3>2. CASE Fails
        BY <3>2 DEF Fails, FoundInv, DurableTypeOK
      <3>3. CASE Save(l + 1, m)
        BY <3>3, <2>1, StoredStep DEF FoundInv
      <3> QED BY <1>3, <3>1, <3>2, <3>3 DEF MoveDelete, MoveSave
    <2>3. PICK p \in {"no", "deleted"} : mv' = [mv EXCEPT ![l][m] = p]
      BY <1>3 DEF MoveDelete, MoveSave
    <2>4. /\ mv' \in [Levels -> [Messages -> {"no", "taken", "enqueued", "deleted"}]]
          /\ \A k \in Levels, n \in Messages :
               mv'[k][n] = IF k = l /\ n = m THEN p ELSE mv[k][n]
      BY <2>3 DEF FoundInv, DurableTypeOK
    <2>5. DurableTypeOK'
      BY <2>1, <2>2, <2>4 DEF FoundInv, DurableTypeOK
    <2>6. \A k \in Levels, n \in Messages :
            /\ mv'[k][n] # "no" => k < MaxLevel
            /\ mv'[k][n] \in {"enqueued", "deleted"} => k + 1 \in meta'
      BY <2>1, <2>4 DEF FoundInv
    <2>7. StoredIsFound'
      BY <2>1, <2>2 DEF FoundInv, StoredIsFound
    <2> QED BY <2>1, <2>5, <2>6, <2>7 DEF FoundInv, InMemory
  <1> QED BY <1>1, <1>2, <1>3 DEF Move

LEMMA PurgeFound ==
  ASSUME FoundInv, NEW l \in Levels, PurgeStorage(l) \/ PurgeMemory(l)
  PROVE  FoundInv'
  <1> USE DEF memVars, diskVars, history
  <1>1. CASE PurgeStorage(l)
    <2>1. UNCHANGED <<queues, pending, inFlight, meta, pub, mv, rt, seen, acked, gone, purged, lapsed>>
      BY <1>1 DEF PurgeStorage
    <2>2. PICK S \in SUBSET stored[l] : stored' = [stored EXCEPT ![l] = S]
      <3>1. CASE stored' = [stored EXCEPT ![l] = {}]
        BY <3>1
      <3>2. ASSUME NEW T \in SUBSET stored[l], stored' = [stored EXCEPT ![l] = @ \ T]
            PROVE  \E S \in SUBSET stored[l] : stored' = [stored EXCEPT ![l] = S]
        <4> WITNESS stored[l] \ T \in SUBSET stored[l]
        <4> QED BY <3>2
      <3> QED BY <1>1, <3>1, <3>2 DEF PurgeStorage
    <2>3. /\ stored' \in [Levels -> SUBSET Messages]
          /\ \A k \in Levels : stored'[k] \subseteq stored[k]
      BY <2>2 DEF FoundInv, DurableTypeOK
    <2>4. pg' \in [Levels -> BOOLEAN]
      BY <1>1 DEF PurgeStorage, FoundInv, DurableTypeOK
    <2>5. DurableTypeOK'
      BY <2>1, <2>3, <2>4 DEF FoundInv, DurableTypeOK
    <2>6. StoredIsFound'
      BY <2>1, <2>3 DEF FoundInv, StoredIsFound
    <2> QED BY <2>1, <2>5, <2>6 DEF FoundInv, InMemory
  <1>2. CASE PurgeMemory(l)
    <2>1. /\ UNCHANGED <<queues, stored, meta, pub, mv, rt, seen, acked, gone, lapsed>>
          /\ (l = 1 => rt = "idle")
      BY <1>2 DEF PurgeMemory, Unlocked
    <2>2. /\ pending' \in [Levels -> Seq(Messages)]
          /\ pending'[l] = << >>
          /\ \A k \in Levels \ {l} : pending'[k] = pending[k]
      BY <1>2 DEF PurgeMemory, FoundInv, DurableTypeOK
    <2>3. /\ inFlight' \in [Levels -> SUBSET Messages]
          /\ inFlight'[l] = {}
          /\ \A k \in Levels \ {l} : inFlight'[k] = inFlight[k]
      BY <1>2 DEF PurgeMemory, FoundInv, DurableTypeOK
    <2>4. pg' \in [Levels -> BOOLEAN]
      BY <1>2 DEF PurgeMemory, FoundInv, DurableTypeOK
    <2>5. purged' \subseteq Messages
      <3>1. pending[l] \in Seq(Messages) /\ inFlight[l] \subseteq Messages /\ purged \subseteq Messages
        BY DEF FoundInv, DurableTypeOK
      <3>2. Range(pending[l]) \subseteq Messages
        BY <3>1, RangeOfSeq
      <3> QED BY <1>2, <3>1, <3>2 DEF PurgeMemory, InMemory
    <2>6. DurableTypeOK'
      BY <2>1, <2>2, <2>3, <2>4, <2>5 DEF FoundInv, DurableTypeOK
    <2>7. \A k \in Levels : Range(pending'[k]) \cup inFlight'[k] # {} => k \in meta'
      <3>1. Range(pending'[l]) = {}
        BY <2>2, RangeOfEmpty
      <3> QED BY <2>1, <2>2, <2>3, <3>1 DEF FoundInv, InMemory
    <2>8. rt = "idle" \/ pending'[1] = pending[1]
      BY <2>1, <2>2, LevelFacts
    <2> QED BY <2>1, <2>6, <2>7, <2>8, KnownLevelFound DEF FoundInv, StoredIsFound
  <1> QED BY <1>1, <1>2

LEMMA RetryFound ==
  ASSUME FoundInv, RetryDLQ PROVE FoundInv'
  <1> USE DEF memVars, diskVars, history
  <1>1. CASE RetryStart
    <2>1. DurableTypeOK'
      BY <1>1, LevelFacts DEF RetryStart, Create, FoundInv, DurableTypeOK
    <2>2. /\ UNCHANGED <<pending, inFlight, stored, pub, mv>> /\ rt' = "loop"
          /\ queues' \subseteq meta' /\ meta \subseteq meta' /\ 0 \in meta' /\ 1 \in meta'
      BY <1>1 DEF RetryStart, Create, FoundInv
    <2> QED BY <2>1, <2>2 DEF FoundInv, StoredIsFound, InMemory
  <1>2. CASE RetrySave \/ RetryDelete \/ RetryUndo \/ RetryRestore \/ RetryRollback
    <2>1. UNCHANGED <<queues, pending, inFlight, meta, pub, mv, seen, pg, acked, gone, purged, lapsed>>
      BY <1>2 DEF RetrySave, RetryDelete, RetryUndo, RetryRestore, RetryRollback, RetryStep
    <2>2. pending[1] # << >> /\ 0 \in meta /\ 1 \in meta
      BY <1>2 DEF RetrySave, RetryDelete, RetryUndo, RetryRestore, RetryRollback, RetryStep, FoundInv
    <2>3. Dead \in Messages
      BY <2>2, LevelFacts, RangeTail DEF Dead, FoundInv, DurableTypeOK
    <2>4. /\ stored' \in [Levels -> SUBSET Messages]
          /\ \A k \in Levels \ {0, 1} : stored'[k] = stored[k]
      <3>1. PICK l \in {0, 1} : Save(l, Dead) \/ Delete(l, Dead) \/ Fails
        BY <1>2 DEF RetrySave, RetryDelete, RetryUndo, RetryRestore, RetryRollback, RetryStep
      <3> QED BY <3>1, <2>3, StoredStep, LevelFacts DEF FoundInv
    <2>5. rt' \in {"idle", "saved", "deleted", "undo", "restored"}
      BY <1>2 DEF RetrySave, RetryDelete, RetryUndo, RetryRestore, RetryRollback, RetryStep
    <2>6. DurableTypeOK'
      BY <2>1, <2>4, <2>5 DEF FoundInv, DurableTypeOK
    <2>7. StoredIsFound'
      BY <2>1, <2>2, <2>4 DEF FoundInv, StoredIsFound
    <2> QED BY <2>1, <2>2, <2>6, <2>7 DEF FoundInv, InMemory
  <1>3. CASE RetryEnqueue
    <2>1. /\ UNCHANGED <<queues, inFlight, meta, stored, pub, mv, seen, pg, acked, gone, purged, lapsed>>
          /\ pending[1] # << >> /\ 0 \in meta /\ 1 \in meta
          /\ rt' \in {"loop", "full"} /\ (rt' = "full" => pending' = pending)
      BY <1>3 DEF RetryEnqueue, FoundInv
    <2>2. /\ pending' \in [Levels -> Seq(Messages)]
          /\ \A k \in Levels \ {0, 1} : pending'[k] = pending[k]
      <3>1. /\ pending \in [Levels -> Seq(Messages)] /\ Dead \in Messages
            /\ Tail(pending[1]) \in Seq(Messages) /\ Append(pending[0], Dead) \in Seq(Messages)
        BY <2>1, LevelFacts, RangeTail, RangeAppend DEF Dead, FoundInv, DurableTypeOK
      <3> QED BY <1>3, <3>1, LevelFacts DEF RetryEnqueue
    <2>3. DurableTypeOK'
      BY <2>1, <2>2 DEF FoundInv, DurableTypeOK
    <2>4. \A k \in Levels : InMemory(k)' # {} => k \in meta'
      BY <2>1, <2>2 DEF FoundInv, InMemory
    <2> QED BY <2>1, <2>3, <2>4 DEF FoundInv, StoredIsFound
  <1>4. CASE RetryDone
    <2>1. DurableTypeOK'
      BY <1>4 DEF RetryDone, FoundInv, DurableTypeOK
    <2> QED BY <1>4, <2>1 DEF RetryDone, FoundInv, StoredIsFound, InMemory
  <1> QED BY <1>1, <1>2, <1>3, <1>4 DEF RetryDLQ

\* FoundInv is inductive.
LEMMA NextFound == FoundInv /\ [Next]_vars => FoundInv'
  <1> SUFFICES ASSUME FoundInv, [Next]_vars PROVE FoundInv'
    OBVIOUS
  <1>1. ASSUME NEW m \in Messages, Publish(m) PROVE FoundInv'
    BY <1>1, PublishFound
  <1>2. ASSUME NEW k \in IdKeys, KeyExpires(k) PROVE FoundInv'
    <2>1. DurableTypeOK'
      BY <1>2 DEF KeyExpires, FoundInv, DurableTypeOK, memVars, diskVars
    <2> QED BY <1>2, <2>1 DEF KeyExpires, FoundInv, StoredIsFound, InMemory, memVars, diskVars
  <1>3. ASSUME NEW l \in Levels, Deliver(l) PROVE FoundInv'
    BY <1>3, DeliverFound
  <1>4. ASSUME NEW l \in Levels, PurgeStorage(l) \/ PurgeMemory(l) PROVE FoundInv'
    BY <1>4, PurgeFound
  <1>5. ASSUME NEW l \in Levels, NEW m \in Messages, Expire(l, m) \/ NackRequeue(l, m)
        PROVE  FoundInv'
    BY <1>5, RequeueFound
  <1>6. ASSUME NEW l \in Levels, NEW m \in Messages, Ack(l, m) \/ NackDrop(l, m)
        PROVE  FoundInv'
    BY <1>6, SettleFound
  <1>7. ASSUME NEW l \in Levels, NEW m \in Messages, NackTake(l, m) \/ Move(l, m)
        PROVE  FoundInv'
    BY <1>7, MoveFound
  <1>8. CASE RetryDLQ
    BY <1>8, RetryFound
  <1>9. CASE Crash \/ \E l \in Levels, m \in Messages : MovePanic(l, m)
    BY <1>9, RestartFound DEF Crash, MovePanic
  <1>10. CASE UNCHANGED vars
    <2>1. DurableTypeOK'
      BY <1>10 DEF vars, memVars, diskVars, history, FoundInv, DurableTypeOK
    <2> QED BY <1>10, <2>1 DEF vars, memVars, diskVars, history, FoundInv, StoredIsFound, InMemory
  <1> QED BY <1>1, <1>2, <1>3, <1>4, <1>5, <1>6, <1>7, <1>8, <1>9, <1>10 DEF Next

\* LoadFromStorage goes by the stored queue configurations; whatever the
\* handlers do, and whenever the process dies, every stored message belongs to
\* a queue whose configuration is stored, so it is found.
THEOREM RecoveryFindsAll == Spec => []StoredIsFound
  <1>1. Init => FoundInv
    BY InitFound
  <1>2. FoundInv /\ [Next]_vars => FoundInv'
    BY NextFound
  <1>3. FoundInv => StoredIsFound
    BY DEF FoundInv
  <1> QED BY <1>1, <1>2, <1>3, PTL DEF Spec

-----------------------------------------------------------------------------
(* One message per idempotency key.                                         *)

\* A step other than the tracker's Check and the end of a window lets no
\* further request pass.
LEMMA KeyUntouched ==
  ASSUME KeyInv, UNCHANGED <<seen, lapsed>>,
         \A n \in Messages : pub'[n] \in Passed => pub[n] \in Passed
  PROVE  KeyInv'
  BY DEF KeyInv

LEMMA NextKey == DurableTypeOK /\ KeyInv /\ [Next]_vars => KeyInv'
  <1> SUFFICES ASSUME DurableTypeOK, KeyInv, [Next]_vars PROVE KeyInv'
    OBVIOUS
  <1> USE DEF memVars, diskVars, history
  <1>1. ASSUME NEW m \in Messages, PublishCheck(m) PROVE KeyInv'
    <2>1. UNCHANGED lapsed /\ pub[m] = "new"
      BY <1>1 DEF PublishCheck
    <2>2. CASE KeyOf[m] \in seen
      <3>1. pub' = [pub EXCEPT ![m] = "duplicate"] /\ seen' = seen
        BY <1>1, <2>2 DEF PublishCheck, Goto
      <3>2. \A n \in Messages : pub'[n] \in Passed => pub[n] \in Passed
        BY <3>1 DEF DurableTypeOK, Passed
      <3> QED BY <2>1, <3>1, <3>2, KeyUntouched
    <2>3. CASE KeyOf[m] \notin seen
      <3>1. pub' = [pub EXCEPT ![m] = "checked"] /\ seen' = seen \cup ({KeyOf[m]} \ {NoKey})
        BY <1>1, <2>3 DEF PublishCheck, Goto
      <3>2. \A n \in Messages \ {m} : pub'[n] = pub[n]
        BY <3>1 DEF DurableTypeOK
      <3>3. \A n \in Messages \ {m} :
              pub[n] \in Passed /\ KeyOf[n] # NoKey /\ KeyOf[n] = KeyOf[m] => KeyOf[m] \in lapsed
        BY <2>3 DEF KeyInv
      <3>4. \A n \in Messages : pub'[n] \in Passed /\ KeyOf[n] # NoKey => KeyOf[n] \in seen' \cup lapsed'
        BY <2>1, <3>1, <3>2 DEF KeyInv
      <3>5. ASSUME NEW a \in Messages, NEW b \in Messages, pub'[a] \in Passed, pub'[b] \in Passed,
                   KeyOf[a] = KeyOf[b], KeyOf[a] # NoKey
            PROVE  a = b \/ KeyOf[a] \in lapsed'
        <4>1. CASE a # m /\ b # m
          BY <2>1, <3>2, <3>5, <4>1 DEF KeyInv
        <4>2. CASE a = m \/ b = m
          BY <2>1, <3>2, <3>3, <3>5, <4>2
        <4> QED BY <4>1, <4>2
      <3> QED BY <3>4, <3>5 DEF KeyInv
    <2> QED BY <2>2, <2>3
  <1>2. ASSUME NEW m \in Messages, Publish(m), ~PublishCheck(m) PROVE KeyInv'
    <2>1. UNCHANGED <<seen, lapsed>>
      BY <1>2
      DEF Publish, PublishPressure, PublishCreate, PublishSave, PublishEnqueue, PublishRollback
    <2>2. \A n \in Messages : pub'[n] \in Passed => pub[n] \in Passed
      BY <1>2 DEF Publish, PublishPressure, PublishCreate, PublishSave, PublishEnqueue,
        PublishRollback, Goto, DurableTypeOK, Passed
    <2> QED BY <2>1, <2>2, KeyUntouched
  <1>3. ASSUME NEW k \in IdKeys, KeyExpires(k) PROVE KeyInv'
    BY <1>3 DEF KeyExpires, KeyInv
  <1>4. ASSUME NEW l \in Levels, Deliver(l) \/ PurgeStorage(l) \/ PurgeMemory(l) PROVE KeyInv'
    BY <1>4, KeyUntouched DEF Deliver, PurgeStorage, PurgeMemory
  <1>5. ASSUME NEW l \in Levels, NEW m \in Messages,
               \/ Expire(l, m) \/ Ack(l, m) \/ NackRequeue(l, m) \/ NackDrop(l, m)
               \/ NackTake(l, m) \/ Move(l, m)
        PROVE  KeyInv'
    BY <1>5, KeyUntouched DEF Expire, Ack, NackRequeue, NackDrop, NackTake, Move, MoveEnqueue,
      MoveDelete, MoveSave
  <1>6. CASE RetryDLQ
    BY <1>6, KeyUntouched DEF RetryDLQ, RetryStart, RetrySave, RetryDelete, RetryUndo,
      RetryRestore, RetryRollback, RetryStep, RetryEnqueue, RetryDone
  <1>7. CASE Restart
    <2>1. \A n \in Messages : pub'[n] \in Passed => pub[n] \in Passed
      BY <1>7 DEF Restart, Passed, PubSteps, DurableTypeOK
    <2>2. lapsed' = lapsed \cup seen
      BY <1>7 DEF Restart
    <2> QED BY <2>1, <2>2 DEF KeyInv
  <1>8. CASE UNCHANGED vars
    BY <1>8, KeyUntouched DEF vars
  <1> QED BY <1>1, <1>2, <1>3, <1>4, <1>5, <1>6, <1>7, <1>8 DEF Next, Crash, MovePanic

\* As long as the tracker remembers a key, HandlePublish accepts one message
\* with it: Check looks the key up and records it in one critical section,
\* before anything else is done for the request.
THEOREM OneMessagePerKey == Spec => []OncePerKey
  <1>1. Init => FoundInv /\ KeyInv
    <2>1. Init => KeyInv
      BY DEF Init, KeyInv, Passed
    <2> QED BY <2>1, InitFound
  <1>2. (FoundInv /\ KeyInv) /\ [Next]_vars => (FoundInv /\ KeyInv)'
    BY NextFound, NextKey DEF FoundInv
  <1>3. FoundInv /\ KeyInv => OncePerKey
    BY DEF KeyInv, OncePerKey, Passed
  <1> QED BY <1>1, <1>2, <1>3, PTL DEF Spec

-----------------------------------------------------------------------------
(* Nothing accepted is lost, and what is settled stays settled.             *)

\* What moves, purges and retries change.
quiet == <<mv, pg, rt, purged>>

\* What a step of a publish does to its own message decides.
LEMMA PublishPlain ==
  ASSUME FoundInv, PlainInv, NEW m \in Messages, Publish(m) PROVE PlainInv'
  <1> USE DEF memVars, diskVars, history
  <1>1. UNCHANGED <<quiet, inFlight, acked, gone>>
    BY DEF Publish, PublishPressure, PublishCheck, PublishCreate, PublishSave, PublishEnqueue,
      PublishRollback, quiet
  <1>2. NothingUnderWay'
    BY <1>1 DEF quiet, PlainInv, NothingUnderWay
  <1>3. \A n \in Messages \ {m} : pub'[n] = pub[n]
    BY DEF Publish, PublishPressure, PublishCheck, PublishCreate, PublishSave, PublishEnqueue,
      PublishRollback, Goto, FoundInv, DurableTypeOK
  <1>4. CASE PublishPressure(m) \/ PublishCheck(m) \/ PublishCreate(m)
    <2>1. UNCHANGED <<pending, stored>>
      BY <1>4 DEF PublishPressure, PublishCheck, PublishCreate
    <2>2. /\ pub[m] \in {"new", "checked"}
          /\ pub'[m] \in {"failed", "duplicate", "checked", "created", "new"}
      BY <1>4 DEF PublishPressure, PublishCheck, PublishCreate, Goto, FoundInv, DurableTypeOK
    <2>3. PublishedAt(m)'
      BY <1>1, <2>1, <2>2 DEF PlainInv, PublishedAt
    <2>4. ASSUME NEW n \in Messages \ {m} PROVE PublishedAt(n)'
      BY <1>1, <1>3, <2>1 DEF PlainInv, PublishedAt, InMemory
    <2> QED BY <1>1, <1>2, <2>1, <2>3, <2>4 DEF PlainInv, EmptyAbove, HeldOnce, Backed, InMemory
  <1>5. CASE PublishSave(m)
    <2>1. UNCHANGED pending /\ pub[m] = "created"
      BY <1>5 DEF PublishSave
    <2>2. \/ UNCHANGED stored /\ pub'[m] = "failed"
          \/ /\ stored'[0] = stored[0] \cup {m} /\ pub'[m] = "saved"
             /\ \A l \in Levels \ {0} : stored'[l] = stored[l]
      <3>1. CASE Save(0, m) /\ Goto(m, "saved")
        BY <3>1, LevelFacts DEF Save, Goto, FoundInv, DurableTypeOK
      <3>2. CASE Fails /\ Goto(m, "failed")
        BY <3>2 DEF Fails, Goto, FoundInv, DurableTypeOK
      <3> QED BY <1>5, <3>1, <3>2 DEF PublishSave
    <2>3. m \notin stored[0] \cup acked \cup gone \cup InMemory(0)
      BY <2>1 DEF PlainInv, PublishedAt, Backed
    <2>4. InMemory(0)' = InMemory(0)
      BY <1>1, <2>1 DEF InMemory
    <2>5. EmptyAbove' /\ HeldOnce'
      BY <1>1, <2>1, <2>2 DEF PlainInv, EmptyAbove, HeldOnce
    <2>6. Backed'
      BY <1>1, <2>2, <2>3, <2>4 DEF PlainInv, Backed
    <2>7. PublishedAt(m)'
      BY <1>1, <2>2, <2>3, <2>4 DEF PublishedAt
    <2>8. ASSUME NEW n \in Messages \ {m} PROVE PublishedAt(n)'
      BY <1>1, <1>3, <2>2, <2>4 DEF PlainInv, PublishedAt
    <2> QED BY <1>2, <2>5, <2>6, <2>7, <2>8 DEF PlainInv
  <1>6. CASE PublishRollback(m)
    <2>1. UNCHANGED pending /\ pub[m] = "full"
      BY <1>6 DEF PublishRollback
    <2>2. \/ UNCHANGED stored /\ pub'[m] = "failed"
          \/ /\ stored'[0] = stored[0] \ {m} /\ pub'[m] = "refused"
             /\ \A l \in Levels \ {0} : stored'[l] = stored[l]
      <3>1. CASE Delete(0, m) /\ Goto(m, "refused")
        BY <3>1, LevelFacts DEF Delete, Goto, FoundInv, DurableTypeOK
      <3>2. CASE Fails /\ Goto(m, "failed")
        BY <3>2 DEF Fails, Goto, FoundInv, DurableTypeOK
      <3> QED BY <1>6, <3>1, <3>2 DEF PublishRollback
    <2>3. m \in stored[0] \ InMemory(0)
      BY <2>1 DEF PlainInv, PublishedAt
    <2>4. InMemory(0)' = InMemory(0)
      BY <1>1, <2>1 DEF InMemory
    <2>5. EmptyAbove' /\ HeldOnce'
      BY <1>1, <2>1, <2>2 DEF PlainInv, EmptyAbove, HeldOnce
    <2>6. Backed'
      BY <1>1, <2>2, <2>3, <2>4 DEF PlainInv, Backed
    <2>7. PublishedAt(m)'
      BY <1>1, <2>2, <2>3, <2>4 DEF PublishedAt
    <2>8. ASSUME NEW n \in Messages \ {m} PROVE PublishedAt(n)'
      BY <1>1, <1>3, <2>2, <2>4 DEF PlainInv, PublishedAt
    <2> QED BY <1>2, <2>5, <2>6, <2>7, <2>8 DEF PlainInv
  <1>7. CASE PublishEnqueue(m)
    <2>1. pub[m] = "saved" /\ m \in stored[0] \ InMemory(0) /\ UNCHANGED stored
      BY <1>7 DEF PublishEnqueue, PlainInv, PublishedAt
    <2>2. CASE IsFull(0)
      <3>1. UNCHANGED pending /\ pub'[m] = "full"
        BY <1>7, <2>2 DEF PublishEnqueue, Goto, FoundInv, DurableTypeOK
      <3>2. InMemory(0)' = InMemory(0)
        BY <1>1, <3>1 DEF InMemory
      <3>3. PublishedAt(m)'
        BY <2>1, <3>1, <3>2 DEF PublishedAt
      <3>4. ASSUME NEW n \in Messages \ {m} PROVE PublishedAt(n)'
        BY <1>1, <1>3, <2>1, <3>2 DEF PlainInv, PublishedAt
      <3>5. EmptyAbove' /\ HeldOnce' /\ Backed'
        BY <1>1, <2>1, <3>1, <3>2 DEF PlainInv, EmptyAbove, HeldOnce, Backed
      <3> QED BY <1>2, <3>3, <3>4, <3>5 DEF PlainInv
    <2>3. CASE ~IsFull(0)
      <3>1. /\ pub'[m] = "ok"
            /\ Range(pending'[0]) = Range(pending[0]) \cup {m}
            /\ IsInjective(pending[0]) /\ m \notin Range(pending[0]) => IsInjective(pending'[0])
            /\ \A l \in Levels \ {0} : pending'[l] = pending[l]
        BY <1>7, <2>3, PendingAppend, LevelFacts DEF PublishEnqueue, Goto, FoundInv, DurableTypeOK
      <3>2. InMemory(0)' = InMemory(0) \cup {m}
        BY <1>1, <3>1 DEF InMemory
      <3>3. PublishedAt(m)'
        BY <2>1, <3>1 DEF PublishedAt
      <3>4. ASSUME NEW n \in Messages \ {m} PROVE PublishedAt(n)'
        BY <1>1, <1>3, <2>1, <3>2 DEF PlainInv, PublishedAt
      <3>5. EmptyAbove'
        BY <1>1, <2>1, <3>1 DEF PlainInv, EmptyAbove
      <3>6. HeldOnce'
        BY <1>1, <2>1, <3>1 DEF PlainInv, HeldOnce, InMemory
      <3>7. Backed'
        BY <1>1, <2>1, <3>2 DEF PlainInv, Backed
      <3> QED BY <1>2, <3>3, <3>4, <3>5, <3>6, <3>7 DEF PlainInv
    <2> QED BY <2>2, <2>3
  <1> QED BY <1>4, <1>5, <1>6, <1>7 DEF Publish

LEMMA DeliverPlain ==
  ASSUME FoundInv, PlainInv, NEW l \in Levels, Deliver(l) PROVE PlainInv'
  <1> USE DEF memVars, diskVars, history
  <1>1. l = 0 /\ UNCHANGED <<quiet, stored, pub, acked, gone>>
    BY DEF Deliver, PlainInv, EmptyAbove, quiet
  <1>2. PICK h : h = Head(pending[0])
    OBVIOUS
  <1>3. /\ Range(pending[0]) = Range(pending'[0]) \cup {h}
        /\ IsInjective(pending'[0]) /\ h \notin Range(pending'[0])
        /\ \A k \in Levels \ {0} : pending'[k] = pending[k]
    BY <1>1, <1>2, PendingTail DEF Deliver, FoundInv, PlainInv, HeldOnce
  <1>4. /\ inFlight'[0] = inFlight[0] \cup {h}
        /\ \A k \in Levels \ {0} : inFlight'[k] = inFlight[k]
    BY <1>1, <1>2 DEF Deliver, FoundInv, DurableTypeOK
  <1>5. InMemory(0)' = InMemory(0)
    BY <1>3, <1>4 DEF InMemory
  <1>6. HeldOnce'
    BY <1>3, <1>4 DEF PlainInv, HeldOnce
  <1>7. EmptyAbove'
    BY <1>1, <1>3, <1>4 DEF PlainInv, EmptyAbove
  <1>8. NothingUnderWay' /\ Backed'
    BY <1>1, <1>5 DEF PlainInv, NothingUnderWay, Backed, quiet
  <1>9. \A n \in Messages : PublishedAt(n)'
    BY <1>1, <1>5 DEF PlainInv, PublishedAt
  <1> QED BY <1>6, <1>7, <1>8, <1>9 DEF PlainInv

LEMMA RequeuePlain ==
  ASSUME FoundInv, PlainInv, NEW l \in Levels, NEW m \in Messages, Expire(l, m) \/ NackRequeue(l, m)
  PROVE  PlainInv'
  <1> USE DEF memVars, diskVars, history
  <1>1. l = 0 /\ m \in inFlight[0] /\ UNCHANGED <<quiet, pub, acked, gone>>
    BY DEF Expire, NackRequeue, PlainInv, EmptyAbove, quiet
  <1>2. m \notin Range(pending[0]) /\ m \in stored[0]
    BY <1>1 DEF PlainInv, HeldOnce, Backed, InMemory
  <1>3. UNCHANGED stored
    <2>1. CASE Save(0, m)
      <3>1. stored[0] \cup {m} = stored[0] /\ stored \in [Levels -> SUBSET Messages]
        BY <1>2 DEF FoundInv, DurableTypeOK
      <3> QED BY <2>1, <3>1 DEF Save
    <2> QED BY <1>1, <2>1 DEF Expire, NackRequeue
  <1>4. /\ Range(pending'[0]) = Range(pending[0]) \cup {m}
        /\ IsInjective(pending'[0])
        /\ \A k \in Levels \ {0} : pending'[k] = pending[k]
    BY <1>1, <1>2, PendingAppend DEF Expire, NackRequeue, FoundInv, PlainInv, HeldOnce
  <1>5. /\ inFlight'[0] = inFlight[0] \ {m}
        /\ \A k \in Levels \ {0} : inFlight'[k] = inFlight[k]
    BY <1>1, LeaseEnds DEF Expire, NackRequeue, FoundInv
  <1>6. InMemory(0)' = InMemory(0)
    BY <1>1, <1>4, <1>5 DEF InMemory
  <1>7. HeldOnce'
    BY <1>4, <1>5 DEF PlainInv, HeldOnce
  <1>8. EmptyAbove'
    BY <1>3, <1>4, <1>5 DEF PlainInv, EmptyAbove
  <1>9. NothingUnderWay' /\ Backed'
    BY <1>1, <1>3, <1>6 DEF PlainInv, NothingUnderWay, Backed, quiet
  <1>10. \A n \in Messages : PublishedAt(n)'
    BY <1>1, <1>3, <1>6 DEF PlainInv, PublishedAt
  <1> QED BY <1>7, <1>8, <1>9, <1>10 DEF PlainInv

LEMMA SettlePlain ==
  ASSUME FoundInv, PlainInv, NEW l \in Levels, NEW m \in Messages, Ack(l, m) \/ NackDrop(l, m)
  PROVE  PlainInv'
  <1> USE DEF memVars, diskVars, history
  <1>1. /\ l = 0 /\ m \in inFlight[0] /\ UNCHANGED <<quiet, pending, pub>>
        /\ acked' \cup gone' = acked \cup gone \cup {m}
    BY DEF Ack, NackDrop, PlainInv, EmptyAbove, quiet
  <1>2. m \notin Range(pending[0]) /\ m \in stored[0] /\ m \in InMemory(0)
    BY <1>1 DEF PlainInv, HeldOnce, Backed, InMemory
  <1>3. /\ stored'[0] = stored[0] \ {m}
        /\ \A k \in Levels \ {0} : stored'[k] = stored[k]
    BY <1>1 DEF Ack, NackDrop, Delete, FoundInv, DurableTypeOK
  <1>4. /\ inFlight'[0] = inFlight[0] \ {m}
        /\ \A k \in Levels \ {0} : inFlight'[k] = inFlight[k]
    BY <1>1, LeaseEnds DEF Ack, NackDrop, FoundInv
  <1>5. InMemory(0)' = InMemory(0) \ {m}
    BY <1>1, <1>2, <1>4 DEF InMemory
  <1>6. Backed'
    BY <1>1, <1>3, <1>5 DEF PlainInv, Backed
  <1>7. HeldOnce'
    BY <1>1, <1>4 DEF PlainInv, HeldOnce
  <1>8. EmptyAbove'
    BY <1>1, <1>3, <1>4 DEF PlainInv, EmptyAbove
  <1>9. NothingUnderWay'
    BY <1>1 DEF PlainInv, NothingUnderWay, quiet
  <1>10. ASSUME NEW n \in Messages PROVE PublishedAt(n)'
    <2>1. PublishedAt(n) /\ pub'[n] = pub[n]
      BY <1>1 DEF PlainInv
    <2> QED BY <1>1, <1>2, <1>3, <1>5, <2>1 DEF PublishedAt
  <1> QED BY <1>6, <1>7, <1>8, <1>9, <1>10 DEF PlainInv

LEMMA RestartPlain == FoundInv /\ PlainInv /\ Restart => PlainInv'
  <1> SUFFICES ASSUME FoundInv, PlainInv, Restart PROVE PlainInv'
    OBVIOUS
  <1>1. /\ UNCHANGED <<stored, acked, gone, purged>> /\ rt' = "idle"
        /\ \A l \in Levels : ~pg'[l] /\ inFlight'[l] = {} /\ \A m \in Messages : mv'[l][m] = "no"
    BY DEF Restart, diskVars, history
  <1>2. /\ pending' \in [Levels -> Seq(Messages)]
        /\ \A l \in Levels : Range(pending'[l]) = stored[l] /\ IsInjective(pending'[l])
    BY LoadedFacts DEF Restart, FoundInv, StoredIsFound, ToLoad
  <1>3. ASSUME NEW l \in Levels \ {0} PROVE pending'[l] = << >>
    <2>1. pending'[l] \in Seq(Messages) /\ Range(pending'[l]) = {}
      BY <1>2 DEF PlainInv, EmptyAbove
    <2> QED BY SMTT(30), <2>1, RangeTail
  <1>4. \A m \in Messages :
          /\ pub'[m] \in {"new", "refused", "ok"} => pub'[m] = pub[m]
          /\ pub'[m] \notin {"checked", "created", "saved", "full"}
    BY DEF Restart, PubSteps, FoundInv, DurableTypeOK
  <1>5. NothingUnderWay' /\ EmptyAbove'
    BY <1>1, <1>3 DEF PlainInv, NothingUnderWay, EmptyAbove
  <1>6. HeldOnce' /\ Backed'
    BY <1>1, <1>2, LevelFacts DEF PlainInv, HeldOnce, Backed, InMemory
  <1>7. \A m \in Messages : PublishedAt(m)'
    BY <1>1, <1>4 DEF PlainInv, PublishedAt
  <1> QED BY <1>5, <1>6, <1>7 DEF PlainInv

LEMMA InitPlain == Plain /\ Init => PlainInv
  <1> SUFFICES ASSUME Plain, Init PROVE PlainInv
    OBVIOUS
  <1>1. \A l \in Levels : pending[l] \in Seq(Messages) /\ Range(pending[l]) = {} /\ IsInjective(pending[l])
    BY InitFound, LoadedFacts DEF Init, FoundInv, Plain, ToLoad
  <1>2. \A l \in Levels : pending[l] = << >>
    BY SMTT(30), <1>1, RangeTail
  <1>3. NothingUnderWay /\ EmptyAbove
    BY <1>2 DEF Init, Plain, NothingUnderWay, EmptyAbove
  <1>4. HeldOnce /\ Backed
    BY <1>1, LevelFacts DEF Init, Plain, HeldOnce, Backed, InMemory
  <1>5. \A m \in Messages : PublishedAt(m)
    BY LevelFacts DEF Init, Plain, PublishedAt
  <1> QED BY <1>3, <1>4, <1>5 DEF PlainInv

LEMMA NextPlain == Plain /\ FoundInv /\ PlainInv /\ [Next]_vars => PlainInv'
  <1> SUFFICES ASSUME Plain, FoundInv, PlainInv, [Next]_vars PROVE PlainInv'
    OBVIOUS
  <1> USE DEF memVars, diskVars, history
  <1>1. ASSUME NEW m \in Messages, Publish(m) PROVE PlainInv'
    BY <1>1, PublishPlain
  <1>2. ASSUME NEW k \in IdKeys, KeyExpires(k) PROVE PlainInv'
    BY <1>2 DEF KeyExpires, PlainInv, NothingUnderWay, EmptyAbove, HeldOnce, Backed, PublishedAt, InMemory
  <1>3. ASSUME NEW l \in Levels, Deliver(l) PROVE PlainInv'
    BY <1>3, DeliverPlain
  <1>4. ASSUME NEW l \in Levels, NEW m \in Messages, Expire(l, m) \/ NackRequeue(l, m)
        PROVE  PlainInv'
    BY <1>4, RequeuePlain
  <1>5. ASSUME NEW l \in Levels, NEW m \in Messages, Ack(l, m) \/ NackDrop(l, m)
        PROVE  PlainInv'
    BY <1>5, SettlePlain
  <1>6. \A l \in Levels : ~PurgeStorage(l) /\ ~PurgeMemory(l)
    BY DEF Plain, PurgeStorage, PurgeMemory, PlainInv, NothingUnderWay
  <1>7. \A l \in Levels, m \in Messages : ~NackTake(l, m) /\ ~Move(l, m) /\ ~MovePanic(l, m)
    BY SMTT(30) DEF Plain, NackTake, Move, MoveEnqueue, MoveDelete, MoveSave, MovePanic, PlainInv,
      NothingUnderWay
  <1>8. ~RetryDLQ
    BY DEF Plain, PlainInv, NothingUnderWay, RetryDLQ, RetryStart, RetrySave, RetryDelete, RetryUndo, RetryRestore,
      RetryRollback, RetryStep, RetryEnqueue, RetryDone
  <1>9. CASE Crash
    BY <1>9, RestartPlain DEF Crash
  <1>10. CASE UNCHANGED vars
    BY <1>10 DEF vars, PlainInv, NothingUnderWay, EmptyAbove, HeldOnce, Backed, PublishedAt, InMemory
  <1> QED BY <1>1, <1>2, <1>3, <1>4, <1>5, <1>6, <1>7, <1>8, <1>9, <1>10 DEF Next

\* Without dead lettering, purges and retries (Plain), for any number of
\* messages, under crashes and failing storage calls: HandlePublish answers with
\* success only for messages a restart brings back until they are settled, an
\* acked message never comes back, a refused publish leaves nothing behind, and
\* what consumers are given is stored.
THEOREM PlainDurability ==
  Plain => (Spec => [](AcceptedRecoverable /\ SettledGone /\ MemoryBacked))
  <1> DEFINE Durability == AcceptedRecoverable /\ SettledGone /\ MemoryBacked
  <1> SUFFICES ASSUME Plain PROVE Spec => []Durability
    OBVIOUS
  <1>1. Init => FoundInv /\ PlainInv
    BY InitFound, InitPlain
  <1>2. (FoundInv /\ PlainInv) /\ [Next]_vars => (FoundInv /\ PlainInv)'
    BY NextFound, NextPlain
  <1>3. FoundInv /\ PlainInv => Durability
    <2> SUFFICES ASSUME FoundInv, PlainInv PROVE Durability
      OBVIOUS
    <2>1. \A l \in Levels : InMemory(l) \subseteq stored[l] /\ (l # 0 => stored[l] = {})
      BY RangeOfEmpty DEF PlainInv, EmptyAbove, Backed, InMemory
    <2>2. AcceptedRecoverable
      <3>1. ASSUME NEW m \in Accepted \ Settled PROVE m \in stored[0] /\ 0 \in meta
        BY <3>1, LevelFacts DEF Accepted, Settled, Plain, PlainInv, PublishedAt, FoundInv,
          StoredIsFound
      <3> QED BY <3>1 DEF AcceptedRecoverable
    <2>3. AckedGone
      BY <2>1, LevelFacts DEF AckedGone, PlainInv, Backed
    <2>4. RefusedGone
      BY <2>1, LevelFacts DEF RefusedGone, PlainInv, PublishedAt
    <2> QED BY <2>1, <2>2, <2>3, <2>4 DEF SettledGone, MemoryBacked
  <1> HIDE DEF Durability
  <1> QED BY <1>1, <1>2, <1>3, PTL DEF Spec
=============================================================================
