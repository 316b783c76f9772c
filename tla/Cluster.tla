------------------------------ MODULE Cluster ------------------------------
(***************************************************************************)
(* A cluster (internal/cluster): every node applies the committed commands *)
(* of the Raft log to its own broker and storage (fsm.go).                 *)
(*                                                                         *)
(* Raft itself is hashicorp/raft, modelled by what the code relies on: one *)
(* sequence of committed commands, which every node applies in order; a    *)
(* leader that may change at any time, so that any node may be the one a   *)
(* request or a snapshot comes from; snapshots that a node takes of its    *)
(* own state, restores when it starts and sends to a node that lags.       *)
(*                                                                         *)
(* One queue; its order and its consumers are the matter of Queue.  What a *)
(* node delivers is local: nodes do not agree on what is in flight.        *)
(***************************************************************************)
EXTENDS Naturals, Sequences, FiniteSets, FiniteSetsExt

CONSTANTS
  Nodes,        \* the nodes of the cluster
  MaxMessages,  \* bound on the messages published, each with an ID of its own
  MaxLog,       \* bound on the commands committed
  MaxSize,      \* the size limit of the queue, 0 for none
  SavesFail     \* whether SaveMessage may fail

Messages == 1 .. MaxMessages
Types    == {"publish", "ack", "drop", "requeue"}
Commands == [type : Types, m : Messages]

VARIABLES
  log,        \* the committed commands
  applied,    \* how many of them a node has applied
  queued,     \* q.messages of a node: the number of copies of each message
  inFlight,   \* q.inFlight
  stored,     \* the messages in the storage of a node
  snapshot,   \* the newest snapshot a node has: its index and its messages
  untaken,    \* messages some node had no room for or could not save (history)
  dropped,    \* messages a nack has ended somewhere (history)
  stale       \* messages left in storage by a restore (history)

brokerVars   == <<applied, queued, inFlight, stored>>
clusterHist  == <<untaken, dropped, stale>>
clusterVars  == <<log, brokerVars, snapshot, clusterHist>>

ClusterTypeOK ==
  /\ log \in Seq(Commands) /\ Len(log) <= MaxLog
  /\ applied \in [Nodes -> 0 .. Len(log)]
  /\ queued \in [Nodes -> [Messages -> 0 .. 2]]
  /\ inFlight \in [Nodes -> SUBSET Messages]
  /\ stored \in [Nodes -> SUBSET Messages]
  /\ snapshot \in [Nodes -> [index : 0 .. Len(log), messages : SUBSET Messages]]
  /\ untaken \subseteq Messages /\ dropped \subseteq Messages /\ stale \subseteq Messages

Once(M) == [m \in Messages |-> IF m \in M THEN 1 ELSE 0]

ClusterInit ==
   /\ log = <<>>
  /\ applied = [n \in Nodes |-> 0]
  /\ queued = [n \in Nodes |-> Once({})]
  /\ inFlight = [n \in Nodes |-> {}]
  /\ stored = [n \in Nodes |-> {}]
  /\ snapshot = [n \in Nodes |-> [index |-> 0, messages |-> {}]]
  /\ untaken = {} /\ dropped = {} /\ stale = {}

\* The position of a command in the log, 0 if it is not there.
Index(type, m) == Max({0} \cup {i \in 1 .. Len(log) : log[i].type = type /\ log[i].m = m})

-----------------------------------------------------------------------------
(* Requests to the leader that are committed.  One that is not leaves no    *)
(* trace but an error for the client.                                       *)

Propose(type, m) ==
  /\ Len(log) < MaxLog
  /\ log' = Append(log, [type |-> type, m |-> m])
  /\ UNCHANGED <<brokerVars, snapshot, clusterHist>>

ReplicatePublish(m) ==
  /\ \A i \in Messages : i < m <=> Index("publish", i) # 0
  /\ Propose("publish", m)

\* Whether the message was delivered, and by which node, is not looked at.
ReplicateAck(m) == Index("publish", m) # 0 /\ Index("ack", m) = 0 /\ Propose("ack", m)

ReplicateNack(m, requeue) ==
  /\ Index("publish", m) # 0
  /\ Propose(IF requeue THEN "requeue" ELSE "drop", m)

-----------------------------------------------------------------------------
(* The state machine of a node.                                             *)

Size(n) == MapThenSumSet(LAMBDA m : queued[n][m], Messages)

\* The node applies the next command.
Applies(n, type) ==
  /\ applied[n] < Len(log) /\ log[applied[n] + 1].type = type
  /\ applied' = [applied EXCEPT ![n] = @ + 1]

Command(n) == log[applied[n] + 1].m

\* Enqueue refuses when the queue is full; otherwise the message is pending,
\* whether or not it can be saved.
ApplyPublish(n) ==
  LET m == Command(n)
  IN  /\ Applies(n, "publish")
      /\ \/ /\ MaxSize # 0 /\ Size(n) >= MaxSize
            /\ untaken' = untaken \cup {m}
            /\ UNCHANGED <<queued, stored>>
         \/ /\ MaxSize = 0 \/ Size(n) < MaxSize
            /\ queued' = [queued EXCEPT ![n][m] = @ + 1]
            /\ \/ stored' = [stored EXCEPT ![n] = @ \cup {m}] /\ UNCHANGED untaken
               \/ SavesFail /\ untaken' = untaken \cup {m} /\ UNCHANGED stored
      /\ UNCHANGED <<log, inFlight, snapshot, dropped, stale>>


\* Ack finds the message only in flight; the stored copy goes in any case.
ApplyAck(n) ==
  LET m == Command(n)
  IN  /\ Applies(n, "ack")
      /\ inFlight' = [inFlight EXCEPT ![n] = @ \ {m}]
      /\ stored' = [stored EXCEPT ![n] = @ \ {m}]
      /\ UNCHANGED <<log, queued, snapshot, clusterHist>>

\* Nack acts only on a message in flight.  It ends the message, or puts it
\* back unless its retries are used up; the stored copy is left alone.
ApplyNack(n) ==
  LET m == Command(n)
      ends(ms) == dropped' = dropped \cup ms
  IN  /\ Applies(n, "drop") \/ Applies(n, "requeue")
      /\ inFlight' = [inFlight EXCEPT ![n] = @ \ {m}]
      /\ \/ m \notin inFlight[n] /\ ends({}) /\ UNCHANGED queued
         \/ m \in inFlight[n] /\ ends({m}) /\ UNCHANGED queued
         \/ /\ m \in inFlight[n] /\ log[applied[n] + 1].type = "requeue" /\ ends({})
            /\ queued' = [queued EXCEPT ![n][m] = @ + 1]
      /\ UNCHANGED <<log, stored, snapshot, untaken, stale>>

\* A consumer of the node has room when a call or the reaper delivers.
Deliver(n, m) ==
  /\ queued[n][m] > 0
  /\ queued' = [queued EXCEPT ![n][m] = @ - 1]
  /\ inFlight' = [inFlight EXCEPT ![n] = @ \cup {m}]
  /\ UNCHANGED <<log, applied, stored, snapshot, clusterHist>>

RequeueExpired(n, m) ==
  /\ m \in inFlight[n]
  /\ inFlight' = [inFlight EXCEPT ![n] = @ \ {m}]
  /\ queued' = [queued EXCEPT ![n][m] = @ + 1]
  /\ UNCHANGED <<log, applied, stored, snapshot, clusterHist>>

-----------------------------------------------------------------------------
(* Snapshots and restarts.                                                  *)

\* The messages of a snapshot are those in storage.
Snapshot(n) ==
  /\ applied[n] > snapshot[n].index
  /\ snapshot' = [snapshot EXCEPT ![n] = [index |-> applied[n], messages |-> stored[n]]]
  /\ UNCHANGED <<log, brokerVars, clusterHist>>

\* Restore: the memory is replaced by the snapshot, which is also saved; what
\* else is in storage stays there.
Restore(n, s) ==
  /\ queued' = [queued EXCEPT ![n] = Once(s.messages)]
  /\ inFlight' = [inFlight EXCEPT ![n] = {}]
  /\ stored' = [stored EXCEPT ![n] = @ \cup s.messages]
  /\ applied' = [applied EXCEPT ![n] = s.index]
  /\ stale' = stale \cup {m \in stored[n] : 0 < Index("ack", m) /\ Index("ack", m) <= s.index}

\* The snapshot of a leader k reaches a node that lags behind it.
InstallSnapshot(n, k) ==
  /\ snapshot[k].index > applied[n] /\ k # n
  /\ Restore(n, snapshot[k])
  /\ snapshot' = [snapshot EXCEPT ![n] = snapshot[k]]
  /\ UNCHANGED <<log, untaken, dropped>>


\* The process is started again: LoadFromStorage, then Raft restores the
\* newest snapshot, if there is one, and applies the log from there.
Restart(n) ==
  /\ IF snapshot[n].index > 0
       THEN Restore(n, snapshot[n])
       ELSE /\ queued' = [queued EXCEPT ![n] = Once(stored[n])]
            /\ inFlight' = [inFlight EXCEPT ![n] = {}]
            /\ applied' = [applied EXCEPT ![n] = 0]
            /\ UNCHANGED <<stored, stale>>
  /\ UNCHANGED <<log, snapshot, untaken, dropped>>

ClusterNext ==
  \/ \E m \in Messages :
       \/ ReplicatePublish(m) \/ ReplicateAck(m)
       \/ \E requeue \in BOOLEAN : ReplicateNack(m, requeue)
  \/ \E n \in Nodes :
       \/ ApplyPublish(n) \/ ApplyAck(n) \/ ApplyNack(n)
       \/ \E m \in Messages : Deliver(n, m) \/ RequeueExpired(n, m)
       \/ Snapshot(n) \/ (\E k \in Nodes : InstallSnapshot(n, k)) \/ Restart(n)

ClusterSpec == ClusterInit /\ [][ClusterNext]_clusterVars

-----------------------------------------------------------------------------
(* Properties.                                                              *)

\* The node has applied the command.
Past(n, type, m) == 0 < Index(type, m) /\ Index(type, m) <= applied[n]



\* The broker of the node has the message, in memory or in storage.
Has(n, m) == queued[n][m] > 0 \/ m \in inFlight[n] \cup stored[n]

=============================================================================
