----------------------------- MODULE MCDurable -----------------------------
(* Small instances of Durable for TLC.                                      *)
EXTENDS Durable, TLC

CONSTANT k1

\* No request has an idempotency key.
NoKeys  == [m \in Messages |-> NoKey]
\* Every request has the same one: a producer that tries again.
SameKey == [m \in Messages |-> k1]
\* All but the first request have the same one.
KeyFrom2 == [m \in Messages |-> IF m = 1 THEN NoKey ELSE k1]
=============================================================================
