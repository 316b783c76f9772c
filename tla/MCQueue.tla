------------------------------ MODULE MCQueue ------------------------------
(* Small instances of Queue for TLC.                                        *)
EXTENDS Queue, TLC

CONSTANT k1

\* Messages 1 and 2 share a key; message 3 has none.
MCKeyOf  == [m \in Messages |-> IF m <= 2 THEN k1 ELSE NoKey]
\* Only the first message has a key.
FirstKeyed == [m \in Messages |-> IF m = 1 THEN k1 ELSE NoKey]
MCHash == [k \in Keys |-> 1]

UniqueId == [m \in Messages |-> m]

\* Only positions in q.consumers matter, not which consumer is which.
ConsumerSymmetry == Permutations(Consumers)
=============================================================================
