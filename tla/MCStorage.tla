----------------------------- MODULE MCStorage -----------------------------
(***************************************************************************)
(* What the broker keeps on disk, for TLC: the write batcher runs, or a    *)
(* stream queue, or one input of the storage formats and of the arithmetic *)
(* of size-based retention is looked at.  They share no state.             *)
(***************************************************************************)
EXTENDS Batcher, Codec, Keys, Stream, Retention

\* Values at which the encoding changes its length: empty and short strings, a
\* payload whose length takes two bytes, numbers around 128, negative times.
Long == [i \in 1 .. 130 |-> 7]

SampleHeaders ==
  {<< >>, <<97>> :> << >>, (<<97>> :> <<98>>) @@ (<<99, 99>> :> <<97>>)}

MessageSamples ==
  Fields({<< >>, <<1, 200>>}, SampleHeaders, {0, 127, 300}, {-65, 64})
    \cup Fields({Long}, SampleHeaders, {128}, {-1, 8192})

\* "a" and "aa"; IDs and group names may contain the separator.
QueueNames == {<<97>>, <<97, 97>>}
MessageIds == {<<97>>, <<58, 97>>}

VARIABLE part   \* <<"batcher">>, <<"stream">>, or the input that is looked at

StorageInit ==
  /\ part \in {<<"batcher">>, <<"stream">>, <<"none">>}
  /\ BatcherInit /\ (part # <<"batcher">> => maxSize = Min(Sizes))
  /\ StreamInit

LookAt ==
  \/ \E m \in MessageSamples : part' = <<"message", m>>
  \/ \E M, O \in SUBSET (Names \X Ids) : part' = <<"queues", M, O>>
  \/ \E S \in SUBSET (Names \X Sequences) : part' = <<"streams", S>>
  \/ \E sizes \in Logs, maxBytes \in 1 .. 2 * MaxLog : part' = <<"log", sizes, maxBytes>>

StorageNext ==
  \/ part = <<"batcher">> /\ BatcherNext /\ UNCHANGED <<part, streamVars>>
  \/ part = <<"stream">> /\ StreamNext /\ UNCHANGED <<part, batcherVars>>
  \/ part = <<"none">> /\ LookAt /\ UNCHANGED <<batcherVars, streamVars>>

StorageSpec ==
  /\ StorageInit /\ [][StorageNext]_<<part, batcherVars, streamVars>>
  /\ BatcherFairness /\ StreamFairness

\* What SaveMessage stores, LoadMessages reads back as it was, whole or not at
\* all, in whichever order Go visited the headers.
CodecExact ==
  part[1] = "message" =>
    RoundTrip(part[2]) /\ SizeExact(part[2]) /\ CutOffRefused(part[2])

\* The flat key space of Badger serves every queue and stream as if it were
\* alone, and streams in the order of their numbers.
KeySpace ==
  /\ part[1] = "queues" => QueuesApart(part[2], part[3])
  /\ part[1] = "streams" => StreamInOrder(part[2])

=============================================================================
