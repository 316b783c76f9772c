------------------------------- MODULE Stream -------------------------------
(***************************************************************************)
(* A stream queue (internal/broker/stream.go) over its storage: a log with *)
(* sequence numbers, subscriptions that start anywhere in it, retention,   *)
(* committed offsets, and the restart of the process.                      *)
(*                                                                         *)
(* A subscription is fed from two sides: Publish pushes to those that have *)
(* caught up, and a goroutine of its own (deliverFromStorage, the feeder)  *)
(* brings the others forward.  Both run with the mutex released between    *)
(* their steps; sq.mu is held from Publish's save to its notification.     *)
(***************************************************************************)
EXTENDS Integers, Sequences, FiniteSetsExt, Functions

CONSTANTS
  Subs,        \* the subscriptions, each of one Seek of some connection
  MaxSeq,      \* bound: how many numbers are assigned
  ChanCap,     \* capacity of a subscription's channel (100 in the code)
  BatchSize,   \* messages the feeder loads at once (100 in the code)
  MaxCrashes,  \* bound: how often the process dies
  MaxFaults    \* bound: storage calls that return an error

ASSUME StreamAssumption ==
  /\ MaxSeq \in Nat /\ MaxCrashes \in Nat /\ MaxFaults \in Nat
  /\ ChanCap \in Nat \ {0} /\ BatchSize \in Nat \ {0}

VARIABLES
  log,        \* the numbers whose messages are stored
  nextSeq,    \* sq.nextSeq
  locked,     \* Publish holds sq.mu and has saved its message
  committed,  \* the stored offset of the consumer group, 0 if there is none
  sub,        \* how far each subscription is
  start,      \* the offset it was made with
  offset,     \* c.offset
  ch,         \* c.Ch
  feeder,     \* where its deliverFromStorage is
  loaded,     \* numbers the feeder has loaded and not yet sent
  got,        \* history: what the connection has taken from the channel
  stalled,    \* history: a push met a full channel or the feeder gave up
  acked,      \* history: numbers whose publisher has been answered
  deleted,    \* history: numbers deleted by retention
  emptied,    \* history: retention by size has deleted the newest message
  crashes, faults,
  panicked    \* the process has died of a send on a closed channel

logVars == <<log, nextSeq, locked, committed, acked, deleted, emptied>>
subVars == <<sub, start, offset, ch, feeder, loaded, got, stalled>>
streamVars == <<logVars, subVars, crashes, faults, panicked>>

Numbers == 1 .. MaxSeq

StreamTypeOK ==
  /\ log \subseteq Numbers
  /\ nextSeq \in 1 .. MaxSeq + 1
  /\ locked \in BOOLEAN
  /\ committed \in 0 .. MaxSeq
  /\ sub \in [Subs -> {"new", "resolved", "added", "open", "removed"}]
  /\ start \in [Subs -> 1 .. MaxSeq + 1]
  /\ offset \in [Subs -> 1 .. MaxSeq + 1]
  /\ \A c \in Subs : ch[c] \in Seq(Numbers) /\ Len(ch[c]) <= ChanCap
  /\ feeder \in [Subs -> {"none", "top", "load", "send", "advance"}]
  /\ \A c \in Subs : loaded[c] \in Seq(Numbers) /\ Len(loaded[c]) <= BatchSize
  /\ got \in [Subs -> Seq(Numbers)]
  /\ stalled \in [Subs -> BOOLEAN]
  /\ acked \subseteq Numbers /\ deleted \subseteq Numbers
  /\ crashes \in 0 .. MaxCrashes /\ faults \in 0 .. MaxFaults
  /\ emptied \in BOOLEAN /\ panicked \in BOOLEAN

StreamInit ==
  /\ log = {} /\ nextSeq = 1 /\ locked = FALSE /\ committed = 0
  /\ sub = [c \in Subs |-> "new"]
  /\ start = [c \in Subs |-> 1]
  /\ offset = [c \in Subs |-> 1]
  /\ ch = [c \in Subs |-> << >>]
  /\ feeder = [c \in Subs |-> "none"]
  /\ loaded = [c \in Subs |-> << >>]
  /\ got = [c \in Subs |-> << >>]
  /\ stalled = [c \in Subs |-> FALSE]
  /\ acked = {} /\ deleted = {} /\ emptied = FALSE /\ crashes = 0 /\ faults = 0
  /\ panicked = FALSE

Attached == {c \in Subs : sub[c] \in {"added", "open"}}     \* sq.consumers

-----------------------------------------------------------------------------
(* Publish.                                                                 *)

\* The save fails and the number is given back.
PublishFails ==
  /\ ~panicked /\ ~locked /\ nextSeq <= MaxSeq
  /\ faults < MaxFaults
  /\ faults' = faults + 1
  /\ UNCHANGED <<logVars, subVars, crashes, panicked>>

PublishSave ==
  /\ ~panicked /\ ~locked /\ nextSeq <= MaxSeq
  /\ log' = log \cup {nextSeq}
  /\ nextSeq' = nextSeq + 1
  /\ locked' = TRUE
  /\ UNCHANGED <<committed, acked, deleted, emptied, subVars, crashes, faults, panicked>>

\* Mutant: a subscription that is behind is pushed to as well.
PublishNotifyAll ==
  /\ ~panicked /\ locked
  /\ LET seq  == nextSeq - 1
         due  == Attached
         room == {c \in due : Len(ch[c]) < ChanCap}
     IN  /\ ch' = [c \in Subs |-> IF c \in room THEN Append(ch[c], seq) ELSE ch[c]]
         /\ offset' = [c \in Subs |-> IF c \in room THEN seq + 1 ELSE offset[c]]
         /\ stalled' = [c \in Subs |-> stalled[c] \/ c \in due \ room]
         /\ acked' = acked \cup {seq}
  /\ locked' = FALSE
  /\ UNCHANGED <<log, nextSeq, committed, deleted, emptied, sub, start, feeder, loaded, got,
                 crashes, faults, panicked>>

\* Those at the tail get the message if their channel has room.
PublishNotify ==
  /\ ~panicked /\ locked
  /\ LET seq  == nextSeq - 1
         due  == {c \in Attached : offset[c] = seq}
         room == {c \in due : Len(ch[c]) < ChanCap}
     IN  /\ ch' = [c \in Subs |-> IF c \in room THEN Append(ch[c], seq) ELSE ch[c]]
         /\ offset' = [c \in Subs |-> IF c \in room THEN seq + 1 ELSE offset[c]]
         /\ stalled' = [c \in Subs |-> stalled[c] \/ c \in due \ room]
         /\ acked' = acked \cup {seq}
  /\ locked' = FALSE
  /\ UNCHANGED <<log, nextSeq, committed, deleted, emptied, sub, start, feeder, loaded, got,
                 crashes, faults, panicked>>

-----------------------------------------------------------------------------
(* Seek of a connection: the offset is resolved, then Subscribe adds the    *)
(* consumer, then it decides without the mutex whether to start a feeder.   *)

\* BEGINNING, END, OFFSET (0 is taken for 1), TIMESTAMP (the first message not
\* older, or the tail), and the default: after the committed offset, or the tail.
SeekOffsets ==
  {1, nextSeq} \cup (1 .. MaxSeq + 1) \cup log
    \cup {IF committed > 0 THEN committed + 1 ELSE nextSeq}

SeekResolve(c) ==
  /\ ~panicked /\ ~locked
  /\ sub[c] = "new"
  /\ sub' = [sub EXCEPT ![c] = "resolved"]
  /\ \E o \in SeekOffsets : start' = [start EXCEPT ![c] = o]
  /\ UNCHANGED <<logVars, offset, ch, feeder, loaded, got, stalled, crashes, faults, panicked>>

SubscribeAdd(c) ==
  /\ ~panicked /\ ~locked
  /\ sub[c] = "resolved"
  /\ sub' = [sub EXCEPT ![c] = "added"]
  /\ offset' = [offset EXCEPT ![c] = start[c]]
  /\ UNCHANGED <<logVars, start, ch, feeder, loaded, got, stalled, crashes, faults, panicked>>

SubscribeFeed(c) ==
  /\ ~panicked
  /\ sub[c] = "added"
  /\ sub' = [sub EXCEPT ![c] = "open"]
  /\ feeder' = [feeder EXCEPT ![c] = IF start[c] < nextSeq THEN "top" ELSE "none"]
  /\ UNCHANGED <<logVars, start, offset, ch, loaded, got, stalled, crashes, faults, panicked>>

\* The connection's goroutine takes a message; those left in a closed channel too.
Receive(c) ==
  /\ ~panicked
  /\ ch[c] # << >>
  /\ got' = [got EXCEPT ![c] = Append(@, Head(ch[c]))]
  /\ ch' = [ch EXCEPT ![c] = Tail(@)]
  /\ UNCHANGED <<logVars, sub, start, offset, feeder, loaded, stalled, crashes, faults, panicked>>

\* The connection seeks again or ends: c.stopCh and c.Ch are closed.
RemoveConsumer(c) ==
  /\ ~panicked /\ ~locked
  /\ sub[c] = "open"
  /\ sub' = [sub EXCEPT ![c] = "removed"]
  /\ UNCHANGED <<logVars, start, offset, ch, feeder, loaded, got, stalled, crashes, faults, panicked>>

CommitOffset(n) == committed' = n

\* The consumer commits a number it has received.
handleCommitOffset(c) ==
  /\ ~panicked
  /\ sub[c] = "open"
  /\ \E n \in Range(got[c]) : CommitOffset(n)
  /\ UNCHANGED <<log, nextSeq, locked, acked, deleted, emptied, subVars, crashes, faults, panicked>>

-----------------------------------------------------------------------------
(* deliverFromStorage.                                                      *)

FeederTo(c, pc) == feeder' = [feeder EXCEPT ![c] = pc]

\* Mutant: the feeder ends one message before the tail.
FeederTopEarly(c) ==
  /\ ~panicked
  /\ feeder[c] = "top"
  /\ \/ /\ sub[c] = "removed"
        /\ FeederTo(c, "none")
     \/ /\ sub[c] # "removed" /\ ~locked
        /\ FeederTo(c, IF offset[c] + 1 >= nextSeq THEN "none" ELSE "load")
  /\ UNCHANGED <<logVars, sub, start, offset, ch, loaded, got, stalled, crashes, faults, panicked>>

FeederTop(c) ==
  /\ ~panicked
  /\ feeder[c] = "top"
  /\ \/ /\ sub[c] = "removed"
        /\ FeederTo(c, "none")
     \/ /\ sub[c] # "removed" /\ ~locked
        /\ FeederTo(c, IF offset[c] >= nextSeq THEN "none" ELSE "load")
  /\ UNCHANGED <<logVars, sub, start, offset, ch, loaded, got, stalled, crashes, faults, panicked>>

\* The n smallest members of S in ascending order.
Lowest(S, n) ==
  LET at[i \in 1 .. Cardinality(S)] == CHOOSE x \in S : Cardinality({y \in S : y <= x}) = i
  IN  [i \in 1 .. Min({n, Cardinality(S)}) |-> at[i]]

\* LoadStreamMessages reads without the mutex: offset[c] is still what FeederTop
\* read, unless Publish has moved it, which it does only at the tail.
FeederLoad(c) ==
  /\ ~panicked
  /\ feeder[c] = "load"
  /\ LET msgs == Lowest({n \in log : n >= offset[c]}, BatchSize) IN
     \/ /\ msgs # << >>
        /\ loaded' = [loaded EXCEPT ![c] = msgs]
        /\ FeederTo(c, "send")
        /\ UNCHANGED <<faults, stalled>>
     \/ /\ \/ msgs = << >> /\ UNCHANGED faults
           \/ faults < MaxFaults /\ faults' = faults + 1
        /\ FeederTo(c, "none")
        /\ stalled' = [stalled EXCEPT ![c] = TRUE]
        /\ UNCHANGED loaded
  /\ UNCHANGED <<logVars, sub, start, offset, ch, got, crashes, panicked>>

\* The select of a send and c.stopCh.
FeederSend(c) ==
  /\ ~panicked
  /\ feeder[c] = "send"
  /\ \/ /\ sub[c] # "removed"
        /\ Len(ch[c]) < ChanCap
        /\ ch' = [ch EXCEPT ![c] = Append(@, Head(loaded[c]))]
        /\ FeederTo(c, "advance")
        /\ UNCHANGED <<loaded, panicked>>
     \/ /\ sub[c] = "removed"
        /\ loaded' = [loaded EXCEPT ![c] = << >>]
        /\ FeederTo(c, "none")
        /\ UNCHANGED <<ch, panicked>>
     \/ /\ sub[c] = "removed"
        /\ panicked' = TRUE
        /\ UNCHANGED <<loaded, ch, feeder>>
  /\ UNCHANGED <<logVars, sub, start, offset, got, stalled, crashes, faults>>

FeederAdvance(c) ==
  /\ ~panicked /\ ~locked
  /\ feeder[c] = "advance"
  /\ offset' = [offset EXCEPT ![c] = Head(loaded[c]) + 1]
  /\ loaded' = [loaded EXCEPT ![c] = Tail(@)]
  /\ FeederTo(c, IF Tail(loaded[c]) = << >> THEN "top" ELSE "send")
  /\ UNCHANGED <<logVars, sub, start, ch, got, stalled, crashes, faults, panicked>>

Feeder(c) == FeederTop(c) \/ FeederLoad(c) \/ FeederSend(c) \/ FeederAdvance(c)

-----------------------------------------------------------------------------
(* Retention, and restart.                                                  *)

DeleteBefore(first) ==
  /\ log' = {n \in log : n >= first}
  /\ deleted' = deleted \cup {n \in log : n < first}


\* By age: everything before the first message that is not expired is deleted;
\* nothing if all are.  No mutex is held.  Time is left open, and publication
\* times need not follow the numbers (they are taken before Publish waits for
\* the mutex): any message may be the first.
RunRetention ==
  /\ ~panicked
  /\ \E first \in log : DeleteBefore(first)
  /\ UNCHANGED <<nextSeq, locked, committed, acked, emptied, subVars, crashes, faults, panicked>>

\* By size: everything up to the message that goes over the limit (Retention
\* says which) is deleted, the newest too if it is too large by itself.
RunSizeRetention ==
  /\ ~panicked
  /\ \E over \in log : /\ DeleteBefore(over + 1)
                       /\ emptied' = (emptied \/ over = Max(log))
  /\ UNCHANGED <<nextSeq, locked, committed, acked, subVars, crashes, faults, panicked>>

\* Every connection is gone, and with it its subscription.
ConnectionsLost ==
  /\ sub' = [c \in Subs |-> "new"]
  /\ start' = [c \in Subs |-> 1]
  /\ offset' = [c \in Subs |-> 1]
  /\ ch' = [c \in Subs |-> << >>]
  /\ feeder' = [c \in Subs |-> "none"]
  /\ loaded' = [c \in Subs |-> << >>]
  /\ got' = [c \in Subs |-> << >>]
  /\ stalled' = [c \in Subs |-> FALSE]

\* The process dies and starts again: connections are gone, and NewStreamQueue
\* continues after the highest stored number.
Crash ==
  /\ crashes < MaxCrashes
  /\ crashes' = crashes + 1
  /\ nextSeq' = IF log = {} THEN 1 ELSE Max(log) + 1
  /\ locked' = FALSE
  /\ panicked' = FALSE
  /\ ConnectionsLost
  /\ UNCHANGED <<log, committed, acked, deleted, emptied, faults>>

StreamNext ==
  \/ PublishFails \/ PublishSave \/ PublishNotify
  \/ \E c \in Subs :
       \/ SeekResolve(c) \/ SubscribeAdd(c) \/ SubscribeFeed(c)
       \/ Receive(c) \/ RemoveConsumer(c) \/ handleCommitOffset(c) \/ Feeder(c)
  \/ RunRetention \/ RunSizeRetention \/ Crash

StreamSpec == StreamInit /\ [][StreamNext]_streamVars

(* Goroutines run and the connection takes what is in its channel; nobody   *)
(* has to publish, and neither faults, crashes nor retention have to come.  *)
StreamFairness ==
  /\ WF_streamVars(PublishNotify)
  /\ \A c \in Subs : /\ WF_streamVars(SubscribeAdd(c)) /\ WF_streamVars(SubscribeFeed(c))
                     /\ WF_streamVars(Feeder(c)) /\ WF_streamVars(Receive(c))

-----------------------------------------------------------------------------
(* Properties.                                                              *)

\* A subscription receives the log from its start in order, each message once;
\* what it skips had been deleted by retention.  Pushes and the feeder never
\* overlap, although neither holds the mutex throughout.
InOrder ==
  /\ StreamTypeOK
  /\ \A c \in Subs :
    LET seen == <<start[c] - 1>> \o got[c] \o ch[c] IN
    \A i \in 1 .. Len(seen) - 1 :
      /\ seen[i] < seen[i + 1]
      /\ (seen[i] + 1) .. (seen[i + 1] - 1) \subseteq deleted


\* Messages already in the log reach an open subscription that starts before
\* them, unless it stalled, ended, or retention was faster.
CatchUp ==
  \A c \in Subs : \A n \in Numbers :
    (sub[c] = "open" /\ n \in log /\ n >= start[c])
      ~> (n \in Range(got[c]) \/ sub[c] # "open" \/ stalled[c] \/ n \notin log \/ panicked)
=============================================================================
