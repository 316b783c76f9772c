------------------------------- MODULE Slices -------------------------------
(* The slice idioms the broker's code is written with.                      *)
EXTENDS Integers, Sequences, FiniteSets, Functions

\* append(s[:i-1], s[i:]...): s with the element at position i cut out.
Without(s, i) == SubSeq(s, 1, i - 1) \o SubSeq(s, i + 1, Len(s))

\* The sequences in which a loop over a Go map may visit the members of S.
MapOrders(S) == Bijection(1 .. Cardinality(S), S)

\* The sequence, as a singleton, in which an iterator over keys visits S.
KeyOrders(S) ==
  {s \in MapOrders(S) : \A i, j \in DOMAIN s : i < j => s[i] < s[j]}
=============================================================================
