------------------------------ MODULE Batcher ------------------------------
(***************************************************************************)
(* The write batcher of the message storage (internal/storage/batcher.go)  *)
(* with the sync loop and the Close of badger.go around it.                *)
(*                                                                         *)
(* A save is handed to the batcher's goroutine over a bounded channel and  *)
(* answered when its batch has been flushed; a deletion goes to the        *)
(* database directly.  On a signal main closes the storage while           *)
(* connections are still being served, so Close may find saves anywhere.   *)
(***************************************************************************)
EXTENDS Integers, Sequences, Functions

CONSTANTS
  Saves,        \* the SaveMessage calls, each of a message of its own
  Sizes,        \* the batch sizes that may be configured
  MaxFailures     \* bound: how many flushes fail although the database is open

ASSUME BatcherAssumption == Sizes \subseteq Nat \ {0} /\ MaxFailures \in Nat

VARIABLES
  maxSize,    \* b.maxSize
  call,       \* how far each call is, or its result
  inbox,      \* b.inbox
  inboxOpen,  \* b.inbox has not been closed
  batch,      \* the loop's batch
  timer,      \* the loop's timer: "off", "on", or "fired" with its tick unread
  loop,       \* the loop: at its "select", in its "last" flush, or "gone"
  stage,      \* how far BadgerStorage.Close is
  written,    \* messages the database holds
  synced,     \* messages it would hold after a power failure
  failures,     \* history: flushes that failed although the database was open
  crashed    \* a goroutine has died of a send on a closed channel

batcherVars == <<maxSize, call, inbox, inboxOpen, batch, timer, loop, stage, written, synced,
          failures, crashed>>

loopVars == <<maxSize, inbox, inboxOpen, batch, timer, loop>>

InboxCap == 2 * maxSize

BatcherTypeOK ==
  /\ maxSize \in Sizes
  /\ call \in [Saves -> {"new", "select", "wait", "ok", "error", "refused", "deleted"}]
  /\ inbox \in Seq(Saves)
  /\ Len(inbox) <= InboxCap
  /\ inboxOpen \in BOOLEAN
  /\ batch \in Seq(Saves)
  /\ timer \in {"off", "on", "fired"}
  /\ loop \in {"select", "last", "gone"}
  /\ stage \in {"open", "batcher", "sync", "db", "closed"}
  /\ written \subseteq Saves
  /\ synced \subseteq Saves
  /\ failures \in 0 .. MaxFailures
  /\ crashed \in BOOLEAN

BatcherInit ==
  /\ maxSize \in Sizes
  /\ call = [s \in Saves |-> "new"]
  /\ inbox = << >>
  /\ inboxOpen = TRUE
  /\ batch = << >>
  /\ timer = "off"
  /\ loop = "select"
  /\ stage = "open"
  /\ written = {}
  /\ synced = {}
  /\ failures = 0
  /\ crashed = FALSE

Running == ~crashed /\ stage # "closed"
Done    == stage # "open"     \* b.done is closed

Return(s, result) == call' = [call EXCEPT ![s] = result]

-----------------------------------------------------------------------------
(* submit: the select over the inbox and b.done.                            *)

SaveMessage(s) ==
  /\ Running
  /\ call[s] = "new"
  /\ Return(s, "select")
  /\ UNCHANGED <<loopVars, stage, written, synced, failures, crashed>>

SubmitSend(s) ==
  /\ Running
  /\ call[s] = "select"
  /\ inboxOpen
  /\ Len(inbox) < InboxCap
  /\ inbox' = Append(inbox, s)
  /\ Return(s, "wait")
  /\ UNCHANGED <<maxSize, inboxOpen, batch, timer, loop, stage, written, synced, failures, crashed>>

SubmitClosed(s) ==
  /\ Running
  /\ call[s] = "select"
  /\ Done
  /\ Return(s, "refused")
  /\ UNCHANGED <<loopVars, stage, written, synced, failures, crashed>>

\* A closed channel counts as ready to send on, and the send panics; the
\* select chooses between its ready cases at random.
SubmitPanic(s) ==
  /\ Running
  /\ call[s] = "select"
  /\ ~inboxOpen
  /\ crashed' = TRUE
  /\ UNCHANGED <<call, loopVars, stage, written, synced, failures>>

\* A message whose save was answered is deleted, past the batcher.
DeleteMessage(s) ==
  /\ Running
  /\ call[s] = "ok"
  /\ written' = written \ {s}
  /\ Return(s, "deleted")
  /\ UNCHANGED <<loopVars, stage, synced, failures, crashed>>

-----------------------------------------------------------------------------
(* loop.                                                                    *)

\* Every caller of the batch gets the one result.
Answer(b, result) == call' = [s \in Saves |-> IF s \in Range(b) THEN result ELSE call[s]]

\* Mutant: the error of Flush is logged and not handed on.
FlushHidesError(b) ==
  \/ /\ stage # "closed"
     /\ written' = written \cup Range(b)
     /\ Answer(b, "ok")
     /\ UNCHANGED failures
  \/ /\ failures < MaxFailures
     /\ failures' = failures + 1
     /\ \E S \in SUBSET Range(b) : written' = written \cup S
     /\ Answer(b, "ok")

\* flush: a batch too large for one transaction is committed in parts, so a
\* failed one may be there in part.
Flush(b) ==
  \/ /\ stage # "closed"
     /\ written' = written \cup Range(b)
     /\ Answer(b, "ok")
     /\ UNCHANGED failures
  \/ /\ failures < MaxFailures
     /\ failures' = failures + 1
     /\ \E S \in SUBSET Range(b) : written' = written \cup S
     /\ Answer(b, "error")

\* Mutant: the timer is not started for a batch after the first.
LoopReceiveNoReset ==
  /\ Running
  /\ loop = "select"
  /\ inbox # << >>
  /\ inbox' = Tail(inbox)
  /\ LET b == Append(batch, Head(inbox)) IN
     IF Len(b) >= maxSize
     THEN /\ Flush(b)
          /\ batch' = << >>
          /\ timer' = "off"
     ELSE /\ batch' = b
          /\ timer' = IF batch = << >> /\ written = {} THEN "on" ELSE timer
          /\ UNCHANGED <<call, written, failures>>
  /\ UNCHANGED <<maxSize, inboxOpen, loop, stage, synced, crashed>>

LoopReceive ==
  /\ Running
  /\ loop = "select"
  /\ inbox # << >>
  /\ inbox' = Tail(inbox)
  /\ LET b == Append(batch, Head(inbox)) IN
     IF Len(b) >= maxSize
     THEN /\ Flush(b)
          /\ batch' = << >>
          /\ timer' = "off"
     ELSE /\ batch' = b
          /\ timer' = IF batch = << >> THEN "on" ELSE timer
          /\ UNCHANGED <<call, written, failures>>
  /\ UNCHANGED <<maxSize, inboxOpen, loop, stage, synced, crashed>>

TimerFires ==
  /\ Running
  /\ timer = "on"
  /\ timer' = "fired"
  /\ UNCHANGED <<maxSize, call, inbox, inboxOpen, batch, loop, stage, written, synced, failures, crashed>>

LoopTimer ==
  /\ Running
  /\ loop = "select"
  /\ timer = "fired"
  /\ timer' = "off"
  /\ IF batch = << >> THEN UNCHANGED <<call, written, failures>> ELSE Flush(batch)
  /\ batch' = << >>
  /\ UNCHANGED <<maxSize, inbox, inboxOpen, loop, stage, synced, crashed>>

\* <-b.done: nothing can enter the inbox once it is closed, so closing and
\* draining it are one step.
LoopDone ==
  /\ Running
  /\ loop = "select"
  /\ Done
  /\ inboxOpen' = FALSE
  /\ batch' = batch \o inbox
  /\ inbox' = << >>
  /\ loop' = "last"
  /\ UNCHANGED <<maxSize, call, timer, stage, written, synced, failures, crashed>>

LoopLast ==
  /\ Running
  /\ loop = "last"
  /\ IF batch = << >> THEN UNCHANGED <<call, written, failures>> ELSE Flush(batch)
  /\ batch' = << >>
  /\ loop' = "gone"
  /\ UNCHANGED <<maxSize, inbox, inboxOpen, timer, stage, synced, crashed>>

Loop == LoopReceive \/ LoopTimer \/ LoopDone \/ LoopLast

-----------------------------------------------------------------------------
(* syncLoop and Close.                                                      *)


SyncTick ==
  /\ Running
  /\ stage \in {"open", "batcher"}
  /\ synced' = written
  /\ UNCHANGED <<call, loopVars, stage, written, failures, crashed>>

\* close(b.done) of the batcher.
CloseBegin ==
  /\ Running
  /\ stage = "open"
  /\ stage' = "batcher"
  /\ UNCHANGED <<call, loopVars, written, synced, failures, crashed>>

\* The batcher's goroutine has ended; then the sync loop is stopped.
CloseBatcher ==
  /\ Running
  /\ stage = "batcher"
  /\ loop = "gone"
  /\ stage' = "sync"
  /\ UNCHANGED <<call, loopVars, written, synced, failures, crashed>>

CloseSync ==
  /\ Running
  /\ stage = "sync"
  /\ stage' = "db"
  /\ synced' = written
  /\ UNCHANGED <<call, loopVars, written, failures, crashed>>

\* db.Close writes out what it has in memory; main returns and the process ends.
CloseDB ==
  /\ Running
  /\ stage = "db"
  /\ stage' = "closed"
  /\ synced' = written
  /\ UNCHANGED <<call, loopVars, written, failures, crashed>>

Close == CloseBatcher \/ CloseSync \/ CloseDB

BatcherNext ==
  \/ \E s \in Saves :
       \/ SaveMessage(s) \/ SubmitSend(s) \/ SubmitClosed(s) \/ SubmitPanic(s)
       \/ DeleteMessage(s)
  \/ Loop \/ TimerFires \/ SyncTick \/ CloseBegin \/ Close

BatcherSpec == BatcherInit /\ [][BatcherNext]_batcherVars

(* Goroutines run; the timer and the ticker fire; a select that finds       *)
(* b.done closed again and again takes that case.  Nobody has to call       *)
(* SaveMessage, and no signal has to come.                                  *)
BatcherFairness ==
  /\ \A s \in Saves : SF_batcherVars(SubmitSend(s)) /\ WF_batcherVars(SubmitClosed(s))
  /\ WF_batcherVars(LoopReceive \/ LoopTimer \/ LoopLast)
  /\ WF_batcherVars(LoopDone)
  /\ WF_batcherVars(LoopTimer)
  /\ WF_batcherVars(TimerFires)
  /\ WF_batcherVars(SyncTick)
  /\ WF_batcherVars(Close)

-----------------------------------------------------------------------------
(* Properties.                                                              *)

\* Whoever waits for an answer is in the inbox or in the batch, exactly once,
\* and nobody else is: no answer is forgotten and none is given twice.
WaitersQueued ==
  /\ IsInjective(batch \o inbox)
  /\ Range(batch \o inbox) = {s \in Saves : call[s] = "wait"}

\* A save that was answered with success is in the database, and a message
\* deleted after that does not come back with a later flush; the others wait,
\* each for one answer.  Close waits for the last flush before it closes the
\* database: a save that was queued in time fails only if the database fails.
AnsweredTruly ==
  /\ BatcherTypeOK
  /\ WaitersQueued
  /\ \A s \in Saves : /\ call[s] = "ok" => s \in written
                      /\ call[s] = "deleted" => s \notin written
  /\ (\E s \in Saves : call[s] = "error") => failures > 0
  /\ stage \in {"sync", "db", "closed"} => \A s \in Saves : call[s] # "wait"

\* Every submit returns, under backpressure and during Close too, unless the
\* process ends first.
SubmitReturns ==
  \A s \in Saves :
    call[s] \in {"select", "wait"} ~> call[s] \notin {"select", "wait"} \/ ~Running

=============================================================================
