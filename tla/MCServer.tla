------------------------------ MODULE MCServer ------------------------------
(***************************************************************************)
(* A server and what talks to it, for TLC: connections and what they       *)
(* leave behind, requests and their answers, names of queues, the life of  *)
(* the process, or one input of the formats at its edge.  Each is a state  *)
(* machine of its own here; they share no state.                           *)
(***************************************************************************)
EXTENDS Session, Requests, Names, Process, Wire

\* Payloads below, at and above the limit of a message.
SamplePayloads == {<< >>, <<7>>, [i \in 1 .. MaxMessageSize |-> 0], [i \in 1 .. MaxMessageSize + 1 |-> 1]}

SampleFrames == {OpCodes.Publish, OpCodes.Message} \X SamplePayloads

\* Strings around the length that takes two bytes, and ones that look like the
\* beginning of a message.
SampleStrings ==
  {<< >>, <<97>>, <<10>>, <<10, 0>>, <<10, 1, 97>>, <<10, 2, 97>>, <<18, 1, 97>>, <<10, 0, 10, 1, 97>>,
   <<10, 129>>, [i \in 1 .. 127 |-> 98], [i \in 1 .. 128 |-> 98]}

SampleNumbers == {0, 1, 127, 128, 300}

SampleNames == {<< >>, <<97>>, <<98>>, <<61>>, <<97, 61>>, <<61, 97>>, <<97, 61, 98>>}

\* Files that import only later ones.
SampleFiles   == 1 .. 4
SampleImports == {imports \in [SampleFiles -> SUBSET SampleFiles] : \A f \in SampleFiles : \A g \in imports[f] : f < g}

VARIABLE part   \* which of them this is, or the input that is looked at

ServerInit ==
  /\ part \in {<<"session">>, <<"requests">>, <<"names">>, <<"process">>, <<"none">>}
  /\ SessionInit /\ NamesInit
  /\ RequestsInit /\ (part # <<"requests">> => strict /\ mix = CHOOSE x \in Mixes : TRUE)
  /\ ProcessInit /\ (part # <<"process">> => ~options.storage /\ ~options.cluster /\ ~options.bootstrap)

LookAt ==
  \/ \E f, g \in SampleFrames, cut \in 0 .. 2 * (6 + MaxMessageSize + 1) : part' = <<"frames", <<f, g>>, cut>>
  \/ \E size \in 2 .. Classes[4] + 1, dropped \in {0, 2} : part' = <<"buffer", size, dropped>>
  \/ \E s, p \in SampleStrings, n, t \in SampleNumbers : part' = <<"request", s, p, n, t>>
  \/ \E s \in SampleStrings : part' = <<"response", s>>
  \/ \E n \in -1 .. MaxUint32 + 1, u \in DOMAIN Units : part' = <<"size", n, u>>
  \/ \E imports \in SampleImports, f \in SampleFiles : part' = <<"descriptor", imports, f>>
  \/ \E self, id, addr \in SampleNames : part' = <<"peer", self, id, addr>>

Others == <<sessionVars, requestVars, nameVars, processVars>>

ServerNext ==
  \/ part = <<"session">> /\ SessionNext /\ UNCHANGED <<part, requestVars, nameVars, processVars>>
  \/ part = <<"requests">> /\ RequestsNext /\ UNCHANGED <<part, sessionVars, nameVars, processVars>>
  \/ part = <<"names">> /\ NamesNext /\ UNCHANGED <<part, sessionVars, requestVars, processVars>>
  \/ part = <<"process">> /\ ProcessNext /\ UNCHANGED <<part, sessionVars, requestVars, nameVars>>
  \/ part = <<"none">> /\ LookAt /\ UNCHANGED Others

ServerSpec == ServerInit /\ [][ServerNext]_<<part, Others>> /\ SessionFairness

\* Every reader gets exactly what the writer wrote: frames up to the one that the
\* connection cuts off, in buffers that are long enough; the requests the client
\* encodes by hand; the answer it decodes by hand; descriptors with their imports;
\* sizes and peers of the command line.
ParsedExactly ==
  CASE part[1] = "frames"   -> FramesExact(part[2], part[3])
    [] part[1] = "buffer"   -> BuffersFit(part[2], part[3])
    [] part[1] = "request"  -> RequestsExact(part[2], part[3], part[4], part[5])
    [] part[1] = "response" -> FastPathAgrees(part[2])
    [] part[1] = "size"     -> SizeExact32(part[2], part[3])
    [] part[1] = "descriptor" -> DescriptorExact(part[2], part[3])
    [] part[1] = "peer"     -> PeersExact(part[2], part[3], part[4])
    [] OTHER                -> TRUE
=============================================================================
