------------------------------ MODULE Durable ------------------------------
(***************************************************************************)
(* The broker's queue-mode handlers with durable storage                   *)
(* (internal/broker/handlers.go, dlq.go, dedup.go, broker.go): publish,    *)
(* ack, nack with the move to the dead letter queue, purge, dead letter    *)
(* retry, and recovery after the process has died.                         *)
(*                                                                         *)
(* Level 0 is a queue and level l + 1 the dead letter queue of level l.    *)
(* A level's runtime state is abstracted to what is pending and what is in *)
(* flight: Queue has the consumers, and attempt counts only decide whether *)
(* a nack is terminal, which is left open here.  Each storage call is one  *)
(* step, and other handlers, or a crash, may come between two steps of a   *)
(* handler unless it holds the mutex of the level.                         *)
(***************************************************************************)
EXTENDS Slices

CONSTANTS
  MaxMessages,    \* how many publish requests there are
  IdKeys, NoKey,  \* idempotency keys; NoKey for a request without one
  KeyOf,          \* the idempotency key of each request
  MaxLevel,       \* bound: dead letter queues of dead letter queues
  MaxSize,        \* q.maxSize of every level, 0 for unlimited
  FailurePolicy,  \* of every level
  InitialDead,    \* messages found in the dead letter queue at first start
  Ops             \* what may happen besides publish, delivery, ack and requeue:
                  \*   "crash"  the process dies and is restarted
                  \*   "fault"  a storage call returns an error
                  \*   "reject" consumers reject messages for good
                  \*   "purge"  an operator purges a level
                  \*   "retry"  an operator retries the dead letter queue

Messages == 1 .. MaxMessages
Levels   == 0 .. MaxLevel

ASSUME DurableAssumption ==
  /\ MaxMessages \in Nat
  /\ NoKey \notin IdKeys
  /\ KeyOf \in [Messages -> IdKeys \cup {NoKey}]
  /\ MaxLevel \in Nat \ {0}
  /\ MaxSize \in Nat
  /\ FailurePolicy \in {"dlq", "drop", "infinite"}
  /\ InitialDead \subseteq Messages
  /\ Ops \subseteq {"crash", "fault", "reject", "purge", "retry"}

VARIABLES
  queues,    \* b.queues: the levels that exist in memory
  pending,   \* per level, q.messages
  inFlight,  \* per level, the keys of q.inFlight
  seen,      \* the keys of the idempotency tracker that have not expired
  meta,      \* storage: queue configurations
  stored,    \* storage: messages per level
  pub,       \* per request, how far HandlePublish has come or what it answered
  mv,        \* per level and message, where the move to the next level is
  pg,        \* per level, whether a purge is between storage and memory
  rt,        \* where RetryDLQ of level 0 is; it holds the mutex of level 1
  acked,     \* history: messages whose ack was answered with success
  gone,      \* history: messages dropped by a nack
  purged,    \* history: messages a purge found in memory
  lapsed     \* history: idempotency keys the tracker has forgotten again

memVars  == <<queues, pending, inFlight>>
diskVars == <<meta, stored>>
history  == <<acked, gone, purged, lapsed>>
vars     == <<memVars, diskVars, seen, pub, mv, pg, rt, history>>

PubSteps == {"new", "checked", "created", "saved", "full"}
Answers  == {"ok", "refused", "failed", "duplicate", "none"}

InMemory(l) == Range(pending[l]) \cup inFlight[l]
Settled     == acked \cup gone \cup purged
Accepted    == InitialDead \cup {m \in Messages : pub[m] = "ok"}

DurableTypeOK ==
  /\ queues \subseteq Levels
  /\ pending \in [Levels -> Seq(Messages)]
  /\ inFlight \in [Levels -> SUBSET Messages]
  /\ seen \subseteq IdKeys
  /\ meta \subseteq Levels
  /\ stored \in [Levels -> SUBSET Messages]
  /\ pub \in [Messages -> PubSteps \cup Answers]
  /\ mv \in [Levels -> [Messages -> {"no", "taken", "enqueued", "deleted"}]]
  /\ pg \in [Levels -> BOOLEAN]
  /\ rt \in {"idle", "loop", "saved", "deleted", "undo", "full", "restored"}
  /\ acked \cup gone \cup purged \subseteq Messages
  /\ lapsed \subseteq IdKeys

\* What LoadFromStorage makes pending: it goes by the stored configurations.
ToLoad(l) == IF l \in meta THEN stored[l] ELSE {}
Loaded == {p \in [Levels -> UNION {KeyOrders(ToLoad(l)) : l \in Levels}] :
             \A l \in Levels : p[l] \in KeyOrders(ToLoad(l))}

Init ==
  /\ meta = IF InitialDead = {} THEN {} ELSE {0, 1}
  /\ stored = [l \in Levels |-> IF l = 1 THEN InitialDead ELSE {}]
  /\ queues = meta
  /\ pending \in Loaded
  /\ inFlight = [l \in Levels |-> {}]
  /\ seen = {}
  /\ pub = [m \in Messages |-> IF m \in InitialDead THEN "none" ELSE "new"]
  /\ mv = [l \in Levels |-> [m \in Messages |-> "no"]]
  /\ pg = [l \in Levels |-> FALSE]
  /\ rt = "idle"
  /\ acked = {} /\ gone = {} /\ purged = {} /\ lapsed = {}

-----------------------------------------------------------------------------
(* The storage backend (internal/storage/badger.go).                        *)

Save(l, m)   == stored' = [stored EXCEPT ![l] = @ \cup {m}]
Delete(l, m) == stored' = [stored EXCEPT ![l] = @ \ {m}]
Fails        == "fault" \in Ops /\ UNCHANGED stored

\* The mutex of a level is free unless RetryDLQ holds it.
Unlocked(l) == l = 1 => rt = "idle"

IsFull(l) == MaxSize > 0 /\ Len(pending[l]) >= MaxSize

-----------------------------------------------------------------------------
(* HandlePublish.                                                           *)

Goto(m, p) == pub' = [pub EXCEPT ![m] = p]

\* The memory limit is exceeded: refused before anything else is looked at.
PublishPressure(m) ==
  /\ pub[m] = "new"
  /\ Goto(m, "failed")
  /\ UNCHANGED <<memVars, diskVars, seen, mv, pg, rt, history>>

\* Mutant: the key is looked up but not recorded.
PublishCheckForgets(m) ==
  /\ pub[m] = "new"
  /\ Goto(m, IF KeyOf[m] \in seen THEN "duplicate" ELSE "checked")
  /\ UNCHANGED <<memVars, diskVars, seen, mv, pg, rt, history>>

PublishCheck(m) ==
  /\ pub[m] = "new"
  /\ IF KeyOf[m] \in seen
     THEN Goto(m, "duplicate") /\ UNCHANGED seen
     ELSE Goto(m, "checked") /\ seen' = seen \cup ({KeyOf[m]} \ {NoKey})
  /\ UNCHANGED <<memVars, diskVars, mv, pg, rt, history>>

\* Mutant: the configuration of a new queue is not stored.
CreateUnsaved(l) == queues' = queues \cup {l} /\ UNCHANGED meta

\* GetOrCreateQueueWithError: a new queue is in b.queues only once its
\* configuration is stored.
Create(l) == queues' = queues \cup {l} /\ meta' = meta \cup {l}

PublishCreate(m) ==
  /\ pub[m] = "checked"
  /\ \/ Create(0) /\ Goto(m, "created")
     \/ /\ 0 \notin queues
        /\ "fault" \in Ops
        /\ Goto(m, "failed")
        /\ UNCHANGED <<queues, meta>>
  /\ UNCHANGED <<pending, inFlight, stored, seen, mv, pg, rt, history>>

\* Mutant: an error of SaveMessage is ignored.
PublishSaveIgnoresError(m) ==
  /\ pub[m] = "created"
  /\ Save(0, m) \/ Fails
  /\ Goto(m, "saved")
  /\ UNCHANGED <<memVars, meta, seen, mv, pg, rt, history>>

PublishSave(m) ==
  /\ pub[m] = "created"
  /\ \/ Save(0, m) /\ Goto(m, "saved")
     \/ Fails /\ Goto(m, "failed")
  /\ UNCHANGED <<memVars, meta, seen, mv, pg, rt, history>>

PublishEnqueue(m) ==
  /\ pub[m] = "saved"
  /\ Unlocked(0)
  /\ IF IsFull(0)
     THEN Goto(m, "full") /\ UNCHANGED pending
     ELSE Goto(m, "ok") /\ pending' = [pending EXCEPT ![0] = Append(@, m)]
  /\ UNCHANGED <<queues, inFlight, diskVars, seen, mv, pg, rt, history>>

\* Mutant: an error of the rollback is not reported.
PublishRollbackIgnoresError(m) ==
  /\ pub[m] = "full"
  /\ Delete(0, m) \/ Fails
  /\ Goto(m, "refused")
  /\ UNCHANGED <<memVars, meta, seen, mv, pg, rt, history>>

PublishRollback(m) ==
  /\ pub[m] = "full"
  /\ \/ Delete(0, m) /\ Goto(m, "refused")
     \/ Fails /\ Goto(m, "failed")
  /\ UNCHANGED <<memVars, meta, seen, mv, pg, rt, history>>

\* The deduplication window of a key ends.
KeyExpires(k) ==
  /\ k \in seen
  /\ seen' = seen \ {k}
  /\ lapsed' = lapsed \cup {k}
  /\ UNCHANGED <<memVars, diskVars, pub, mv, pg, rt, acked, gone, purged>>

Publish(m) ==
  \/ PublishPressure(m) \/ PublishCheck(m) \/ PublishCreate(m)
  \/ PublishSave(m) \/ PublishEnqueue(m) \/ PublishRollback(m)

-----------------------------------------------------------------------------
(* Delivery and settlement; the hooks of ack and nack run under the mutex,  *)
(* and a failing hook leaves the message in flight.                         *)

Deliver(l) ==
  /\ Unlocked(l)
  /\ pending[l] # << >>
  /\ pending' = [pending EXCEPT ![l] = Tail(@)]
  /\ inFlight' = [inFlight EXCEPT ![l] = @ \cup {Head(pending[l])}]
  /\ UNCHANGED <<queues, diskVars, seen, pub, mv, pg, rt, history>>

Expire(l, m) ==
  /\ Unlocked(l)
  /\ m \in inFlight[l]
  /\ inFlight' = [inFlight EXCEPT ![l] = @ \ {m}]
  /\ pending' = [pending EXCEPT ![l] = Append(@, m)]
  /\ UNCHANGED <<queues, diskVars, seen, pub, mv, pg, rt, history>>

\* Mutant: the entry of the in-flight map is not deleted.
AckKeepsEntry(l, m) ==
  /\ Unlocked(l)
  /\ m \in inFlight[l]
  /\ Delete(l, m)
  /\ acked' = acked \cup {m}
  /\ UNCHANGED <<memVars, meta, seen, pub, mv, pg, rt, gone, purged, lapsed>>

Ack(l, m) ==
  /\ Unlocked(l)
  /\ m \in inFlight[l]
  /\ Delete(l, m)
  /\ inFlight' = [inFlight EXCEPT ![l] = @ \ {m}]
  /\ acked' = acked \cup {m}
  /\ UNCHANGED <<queues, pending, meta, seen, pub, mv, pg, rt, gone, purged, lapsed>>

NackRequeue(l, m) ==
  /\ Unlocked(l)
  /\ m \in inFlight[l]
  /\ Save(l, m)
  /\ inFlight' = [inFlight EXCEPT ![l] = @ \ {m}]
  /\ pending' = [pending EXCEPT ![l] = Append(@, m)]
  /\ UNCHANGED <<queues, meta, seen, pub, mv, pg, rt, history>>

NackDrop(l, m) ==
  /\ "reject" \in Ops
  /\ FailurePolicy # "dlq"
  /\ Unlocked(l)
  /\ m \in inFlight[l]
  /\ Delete(l, m)
  /\ inFlight' = [inFlight EXCEPT ![l] = @ \ {m}]
  /\ gone' = gone \cup {m}
  /\ UNCHANGED <<queues, pending, meta, seen, pub, mv, pg, rt, acked, purged, lapsed>>

\* Under the dead letter policy the nack takes the message out of the level;
\* the rest of HandleNack runs without a mutex and ignores every error.
\* Bound: one move of a message out of a level is under way at a time.
NackTake(l, m) ==
  /\ "reject" \in Ops
  /\ FailurePolicy = "dlq"
  /\ l < MaxLevel
  /\ Unlocked(l)
  /\ m \in inFlight[l]
  /\ mv[l][m] = "no"
  /\ inFlight' = [inFlight EXCEPT ![l] = @ \ {m}]
  /\ mv' = [mv EXCEPT ![l][m] = "taken"]
  /\ UNCHANGED <<queues, pending, diskVars, seen, pub, pg, rt, history>>

MoveEnqueue(l, m) ==
  /\ mv[l][m] = "taken"
  /\ Unlocked(l + 1)
  /\ Create(l + 1)
  /\ pending' = IF IsFull(l + 1) THEN pending
                ELSE [pending EXCEPT ![l + 1] = Append(@, m)]
  /\ mv' = [mv EXCEPT ![l][m] = "enqueued"]
  /\ UNCHANGED <<inFlight, stored, seen, pub, pg, rt, history>>

MoveDelete(l, m) ==
  /\ mv[l][m] = "enqueued"
  /\ Delete(l, m) \/ Fails
  /\ mv' = [mv EXCEPT ![l][m] = "deleted"]
  /\ UNCHANGED <<memVars, meta, seen, pub, pg, rt, history>>

MoveSave(l, m) ==
  /\ mv[l][m] = "deleted"
  /\ Save(l + 1, m) \/ Fails
  /\ mv' = [mv EXCEPT ![l][m] = "no"]
  /\ UNCHANGED <<memVars, meta, seen, pub, pg, rt, history>>

Move(l, m) == MoveEnqueue(l, m) \/ MoveDelete(l, m) \/ MoveSave(l, m)

-----------------------------------------------------------------------------
(* PurgeQueue: storage first, then memory.                                  *)

\* DeleteQueueMessages goes on until it finds no key; if it fails, the batches
\* deleted so far stay deleted.
PurgeStorage(l) ==
  /\ "purge" \in Ops
  /\ l \in queues
  /\ ~pg[l]
  /\ \/ /\ stored' = [stored EXCEPT ![l] = {}]
        /\ pg' = [pg EXCEPT ![l] = TRUE]
     \/ /\ "fault" \in Ops
        /\ \E S \in SUBSET stored[l] : stored' = [stored EXCEPT ![l] = @ \ S]
        /\ UNCHANGED pg
  /\ UNCHANGED <<memVars, meta, seen, pub, mv, rt, history>>

PurgeMemory(l) ==
  /\ pg[l]
  /\ Unlocked(l)
  /\ pending' = [pending EXCEPT ![l] = << >>]
  /\ inFlight' = [inFlight EXCEPT ![l] = {}]
  /\ purged' = purged \cup InMemory(l)
  /\ pg' = [pg EXCEPT ![l] = FALSE]
  /\ UNCHANGED <<queues, diskVars, seen, pub, mv, rt, acked, gone, lapsed>>

-----------------------------------------------------------------------------
(* RetryDLQ of level 0, holding the mutex of level 1.                       *)

Dead == Head(pending[1])

RetryStart ==
  /\ "retry" \in Ops
  /\ rt = "idle"
  /\ 1 \in queues
  /\ Create(0)
  /\ rt' = "loop"
  /\ UNCHANGED <<pending, inFlight, stored, seen, pub, mv, pg, history>>

\* A retry step on storage: done, or failed with the error returned.
RetryStep(from, call, done, failed) ==
  /\ rt = from
  /\ \/ call /\ rt' = done
     \/ Fails /\ rt' = failed
  /\ UNCHANGED <<memVars, meta, seen, pub, mv, pg, history>>

\* Mutant: the copy in the dead letter queue is deleted before the new one is saved.
RetrySaveDeletes == pending[1] # << >> /\ RetryStep("loop", Delete(1, Dead), "saved", "idle")

RetrySave     == pending[1] # << >> /\ RetryStep("loop", Save(0, Dead), "saved", "idle")
RetryDelete   == RetryStep("saved", Delete(1, Dead), "deleted", "undo")
RetryUndo     == RetryStep("undo", Delete(0, Dead), "idle", "idle")
RetryRestore  == RetryStep("full", Save(1, Dead), "restored", "idle")
RetryRollback == RetryStep("restored", Delete(0, Dead), "idle", "idle")

\* Mutant: a full queue ends the retry of the message as if it was enqueued.
RetryEnqueueDropsFull ==
  /\ rt = "deleted"
  /\ rt' = "loop"
  /\ pending' = [pending EXCEPT ![0] = IF IsFull(0) THEN @ ELSE Append(@, Dead), ![1] = Tail(@)]
  /\ UNCHANGED <<queues, inFlight, diskVars, seen, pub, mv, pg, history>>

RetryEnqueue ==
  /\ rt = "deleted"
  /\ IF IsFull(0)
     THEN rt' = "full" /\ UNCHANGED pending
     ELSE /\ rt' = "loop"
          /\ pending' = [pending EXCEPT ![0] = Append(@, Dead), ![1] = Tail(@)]
  /\ UNCHANGED <<queues, inFlight, diskVars, seen, pub, mv, pg, history>>

RetryDone ==
  /\ rt = "loop"
  /\ pending[1] = << >>
  /\ rt' = "idle"
  /\ UNCHANGED <<memVars, diskVars, seen, pub, mv, pg, history>>

RetryDLQ ==
  \/ RetryStart \/ RetrySave \/ RetryDelete \/ RetryUndo \/ RetryEnqueue
  \/ RetryRestore \/ RetryRollback \/ RetryDone

-----------------------------------------------------------------------------
(* The process dies; a new one runs LoadFromStorage before it serves.       *)

Restart ==
  /\ UNCHANGED <<diskVars, acked, gone, purged>>
  /\ queues' = meta
  /\ pending' \in Loaded
  /\ inFlight' = [l \in Levels |-> {}]
  /\ seen' = {}
  /\ lapsed' = lapsed \cup seen
  /\ pub' = [m \in Messages |-> IF pub[m] \in PubSteps \ {"new"} THEN "none" ELSE pub[m]]
  /\ mv' = [l \in Levels |-> [m \in Messages |-> "no"]]
  /\ pg' = [l \in Levels |-> FALSE]
  /\ rt' = "idle"

Crash == "crash" \in Ops /\ Restart

\* The configuration of a new dead letter queue cannot be stored: HandleNack
\* goes on with a nil queue and panics.
MovePanic(l, m) ==
  /\ "fault" \in Ops
  /\ mv[l][m] = "taken"
  /\ l + 1 \notin queues
  /\ Restart

Next ==
  \/ \E m \in Messages : Publish(m)
  \/ \E k \in IdKeys : KeyExpires(k)
  \/ \E l \in Levels : Deliver(l) \/ PurgeStorage(l) \/ PurgeMemory(l)
  \/ \E l \in Levels, m \in Messages :
       \/ Expire(l, m) \/ Ack(l, m) \/ NackRequeue(l, m) \/ NackDrop(l, m)
       \/ NackTake(l, m) \/ Move(l, m) \/ MovePanic(l, m)
  \/ RetryDLQ
  \/ Crash

Spec == Init /\ [][Next]_vars

-----------------------------------------------------------------------------
(* Properties.                                                              *)

\* A restart would bring back each message whose publish was answered with
\* success and which nobody has settled, unless a purge is just under way.
AcceptedRecoverable ==
  (\A l \in Levels : ~pg[l]) => Accepted \ Settled \subseteq UNION {stored[l] : l \in meta}

\* An accepted, unsettled message is somewhere: stored, in memory, or in the
\* hands of a handler that moves it to the dead letter queue.
AcceptedSomewhere ==
  \A m \in Accepted \ Settled : \E l \in Levels :
    m \in stored[l] \cup InMemory(l) \/ mv[l][m] # "no"

\* While the process lives an accepted, unsettled message is pending or in
\* flight at some level, or about to be: consumers and operators can see it.
AcceptedInMemory ==
  \A m \in Accepted \ Settled : \E l \in Levels :
    m \in InMemory(l) \/ mv[l][m] = "taken"

\* An ack is final: no copy of the message is left in storage or in memory, so
\* neither the reaper nor a restart delivers it again.
AckedGone == \A l \in Levels : acked \cap (stored[l] \cup InMemory(l)) = {}

\* A publish refused because the queue is full leaves nothing behind.
RefusedGone ==
  \A m \in Messages : pub[m] = "refused" =>
    \A l \in Levels : m \notin stored[l] \cup InMemory(l)

\* What was acked, and what was refused, never comes back.
SettledGone == AckedGone /\ RefusedGone

\* What is delivered is stored: every message in memory has its durable copy
\* under the same queue name, so the ack that follows deletes the right one.
MemoryBacked == \A l \in Levels : InMemory(l) \subseteq stored[l]

\* Messages are only ever stored under a queue whose configuration is stored
\* too: recovery, which goes by the configurations, finds all of them.
StoredIsFound == \A l \in Levels : stored[l] # {} => l \in meta

\* One idempotency key, one message, unless the tracker has forgotten the key:
\* its window has ended, or the process has died.
OncePerKey ==
  \A m, n \in Messages :
    pub[m] = "ok" /\ pub[n] = "ok" /\ KeyOf[m] = KeyOf[n] /\ KeyOf[m] # NoKey =>
      m = n \/ KeyOf[m] \in lapsed
=============================================================================
