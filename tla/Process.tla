------------------------------ MODULE Process -------------------------------
(***************************************************************************)
(* The life of a server process: runServe (cmd/qwer-q/serve.go) opens its  *)
(* resources one after the other, each of which may fail, starts the Raft  *)
(* node if there is one (NewNode, internal/cluster/raft.go), and serves;   *)
(* a goroutine of its own takes them down again when a signal comes.       *)
(***************************************************************************)
EXTENDS Naturals, Sequences, FiniteSets

CONSTANT MaxHandlers   \* bound on the connections at a time

\* What NewNode opens, in this order; the snapshot store holds nothing open.
NodeParts == <<"transport", "logStore", "stable", "snapStore", "raft">>

Resources ==
  {"storage", "broker", "http", "listener", "transport", "logStore", "stable", "raft"}

NodeResources == {"transport", "logStore", "stable", "raft"}

VARIABLES
  options,   \* the options of the command line that matter
  main,      \* where runServe is
  opening,   \* the part of the node NewNode opens next
  open,      \* open resources
  signals,   \* signal.Notify has been called
  closer,    \* where the goroutine is that waits for the signal
  quit,      \* s.done is closed
  handlers,  \* connection goroutines
  early,     \* s.Close found no listener (history)
  stuck      \* Raft's own shutdown failed (history)

processVars == <<options, main, opening, open, signals, closer, quit, handlers, early, stuck>>

ProcessTypeOK ==
  /\ options \in [storage : BOOLEAN, cluster : BOOLEAN, bootstrap : BOOLEAN]
  /\ main \in {"storage", "broker", "load", "cluster", "node", "bootstrap", "notify",
               "listen", "accept", "return", "exit"}
  /\ opening \in 1 .. Len(NodeParts) + 1
  /\ open \subseteq Resources
  /\ closer \in {"none", "signal", "http", "server", "wait", "done"}
  /\ signals \in BOOLEAN /\ quit \in BOOLEAN /\ early \in BOOLEAN /\ stuck \in BOOLEAN
  /\ handlers \in 0 .. MaxHandlers

ProcessInit ==
  /\ options \in [storage : BOOLEAN, cluster : BOOLEAN, bootstrap : BOOLEAN]
  /\ main = "storage" /\ opening = 1 /\ open = {} /\ closer = "none"
  /\ signals = FALSE /\ quit = FALSE /\ handlers = 0 /\ early = FALSE /\ stuck = FALSE

\* main goes from one statement of runServe to another.
MainGoes(from, to) ==
  /\ main = from /\ main' = to
  /\ UNCHANGED <<options, closer, quit, handlers, early>>

-----------------------------------------------------------------------------
(* Starting.                                                                *)

\* The storage is opened if there is a data directory.  Nothing is deferred yet.
OpenStorage ==
  /\ \/ ~options.storage /\ MainGoes("storage", "broker") /\ UNCHANGED open
     \/ options.storage /\ MainGoes("storage", "broker") /\ open' = {"storage"}
     \/ options.storage /\ MainGoes("storage", "exit") /\ UNCHANGED open
  /\ UNCHANGED <<opening, signals, stuck>>

\* NewBroker starts its goroutines; from here on b.Close is deferred.
StartBroker ==
  /\ MainGoes("broker", IF options.storage THEN "load" ELSE "cluster")
  /\ open' = open \cup {"broker"}
  /\ UNCHANGED <<opening, signals, stuck>>

Load ==
  /\ MainGoes("load", "cluster") \/ MainGoes("load", "return")
  /\ UNCHANGED <<opening, open, signals, stuck>>

StartCluster ==
  /\ MainGoes("cluster", IF options.cluster THEN "node" ELSE "notify")
  /\ UNCHANGED <<opening, open, signals, stuck>>

\* Mutant: a failing step closes only what the step before it opened.
OpenPartCloses(i) == open \ (IF i = 1 THEN {} ELSE {NodeParts[i - 1]})

\* The error path of the i-th part: all that NewNode has opened is closed.
OpenPartFails(i) == open \ {NodeParts[j] : j \in 1 .. i - 1}

\* NewNode opens its next part, or gives up.
OpenPart ==
  /\ \/ /\ MainGoes("node", IF opening < Len(NodeParts) THEN "node"
                            ELSE IF options.bootstrap THEN "bootstrap" ELSE "notify")
        /\ open' = open \cup ({NodeParts[opening]} \cap Resources) /\ opening' = opening + 1
     \/ MainGoes("node", "return") /\ open' = OpenPartFails(opening) /\ UNCHANGED opening
  /\ UNCHANGED <<signals, stuck>>

\* Node.Close: if Raft cannot be shut down the rest stays open.
CloseNode ==
  \/ open' = open \ NodeResources /\ UNCHANGED stuck
  \/ stuck' = TRUE /\ UNCHANGED open

\* BootstrapCluster; that the cluster exists already is no error.
Bootstrap ==
  /\ \/ MainGoes("bootstrap", "notify") /\ UNCHANGED <<open, stuck>>
     \/ MainGoes("bootstrap", "return") /\ CloseNode
  /\ UNCHANGED <<opening, signals>>

\* signal.Notify, the goroutine that waits for it, and the HTTP server, whose
\* failure to listen goes unnoticed.
Notify ==
  /\ main = "notify" /\ main' = "listen"
  /\ signals' = TRUE /\ closer' = "signal"
  /\ open' \in {open, open \cup {"http"}}
  /\ UNCHANGED <<options, opening, quit, handlers, early, stuck>>

Listen ==
  /\ \/ MainGoes("listen", "accept") /\ open' = open \cup {"listener"}
     \/ MainGoes("listen", "return") /\ UNCHANGED open
  /\ UNCHANGED <<opening, signals, stuck>>

-----------------------------------------------------------------------------
(* Serving.                                                                 *)

AcceptConn ==
  /\ main = "accept" /\ "listener" \in open /\ handlers < MaxHandlers
  /\ handlers' = handlers + 1
  /\ UNCHANGED <<options, main, opening, open, signals, closer, quit, early, stuck>>

HandlerEnds ==
  /\ main # "exit" /\ handlers > 0
  /\ handlers' = handlers - 1
  /\ UNCHANGED <<options, main, opening, open, signals, closer, quit, early, stuck>>

\* Accept fails: of itself, or as the listener is closed.  Without s.done the loop
\* goes on.
AcceptFails ==
  /\ quit
  /\ MainGoes("accept", "return")
  /\ UNCHANGED <<opening, open, signals, stuck>>

-----------------------------------------------------------------------------
(* Stopping.                                                                *)

CloserGoes(from, to) ==
  /\ main # "exit"
  /\ closer = from /\ closer' = to
  /\ UNCHANGED <<options, main, opening, signals, handlers>>

\* The signal comes, at any time: the Raft node goes first.  Without Notify the
\* signal would end the process on the spot.
SignalComes ==
  /\ signals
  /\ CloserGoes("signal", "http")
  /\ IF options.cluster THEN CloseNode ELSE UNCHANGED <<open, stuck>>
  /\ UNCHANGED <<quit, early>>

ShutdownHttp ==
  /\ CloserGoes("http", "server")
  /\ open' = open \ {"http"}
  /\ UNCHANGED <<quit, early, stuck>>

\* Server.Close: the loop is told first, then the listener is closed, if there is
\* one yet; then it waits for the connections.
CloseServer ==
  /\ CloserGoes("server", "wait")
  /\ quit' = TRUE
  /\ open' = open \ {"listener"}
  /\ early' = ("listener" \notin open /\ main = "listen")
  /\ UNCHANGED stuck

Waited ==
  /\ handlers = 0
  /\ CloserGoes("wait", "done")
  /\ UNCHANGED <<open, quit, early, stuck>>

\* The deferred b.Close of runServe, and the end of the process, whoever still
\* waits.
Return ==
  /\ MainGoes("return", "exit")
  /\ open' = open \ {"broker", "storage"}
  /\ UNCHANGED <<opening, signals, stuck>>

ProcessNext ==
  \/ OpenStorage \/ StartBroker \/ Load \/ StartCluster \/ OpenPart \/ Bootstrap \/ Notify \/ Listen
  \/ AcceptConn \/ HandlerEnds \/ AcceptFails
  \/ SignalComes \/ ShutdownHttp \/ CloseServer \/ Waited \/ Return

-----------------------------------------------------------------------------
(* Properties.                                                              *)

\* Whichever step of starting fails, and whenever the signal comes: connections
\* are accepted only while the broker and its storage are open; a node that did
\* not start, or that was shut down, leaves nothing open behind it, unless Raft's
\* shutdown failed; and once Server.Close has begun to wait no connection is
\* accepted any more, unless it came before there was a listener.
ResourcesReleased ==
  /\ ProcessTypeOK
  /\ "listener" \in open => {"broker"} \cup (IF options.storage THEN {"storage"} ELSE {}) \subseteq open \/ early
  /\ open \cap NodeResources # {} =>
       stuck \/ main = "node" \/ (opening > Len(NodeParts) /\ closer \in {"none", "signal"})
  /\ main \in {"return", "exit"} /\ closer = "none" => open \cap NodeResources = {} \/ stuck
  /\ closer \in {"wait", "done"} => "listener" \notin open \/ early
=============================================================================
