----------------------------- MODULE Retention -----------------------------
(***************************************************************************)
(* The arithmetic of retention by size (RunRetention in                    *)
(* internal/broker/stream.go): the log is scanned from its newest end in   *)
(* batches until the limit is exceeded.  A log is a function from stored     *)
(* numbers to payload sizes.                                               *)
(***************************************************************************)
EXTENDS Integers, Sequences, FiniteSetsExt, Functions

CONSTANTS
  ScanBatch,   \* messages loaded at once (100 in the code)
  Word,        \* number of values of an unsigned integer (2^64 in the code)
  MaxLog       \* bound: the longest log the properties look at

ASSUME RetentionAssumption == ScanBatch \in Nat \ {0} /\ Word > 2 * (ScanBatch + MaxLog)

\* The total size of the messages ns.
Bytes(sizes, ns) == MapThenSumSet(LAMBDA n : sizes[n], ns)

\* LoadStreamMessages: the ScanBatch lowest numbers from first on.
Loaded(sizes, first) ==
  {n \in DOMAIN sizes : n >= first /\ Cardinality({m \in DOMAIN sizes : first <= m /\ m < n}) < ScanBatch}

\* The numbers at which the sum of sizes from the newest down is over the limit.
Over(sizes, ns, total, maxBytes) ==
  {n \in ns : total + Bytes(sizes, {m \in ns : m >= n}) > maxBytes}


\* One round of the loop.  Subtraction wraps below zero.
ScanSizes(sizes, maxBytes, s) ==
  LET oldest == Min(DOMAIN sizes)
      back   == (s.seq - ScanBatch + 1) % Word
      first  == IF back < oldest THEN oldest ELSE back
      ns     == Loaded(sizes, first)
      over   == Over(sizes, ns, s.total, maxBytes)
  IN  IF over # {} THEN [s EXCEPT !.done = TRUE, !.deleteUpTo = Max(over) + 1]
      ELSE [s EXCEPT !.seq = first - 1, !.total = @ + Bytes(sizes, ns),
                     !.done = first <= oldest, !.rounds = @ + 1]

\* The state of the loop after at most n rounds.
ScanRounds(sizes, maxBytes, n) ==
  LET after[i \in 0 .. n] ==
        IF i = 0 THEN [seq |-> Max(DOMAIN sizes), total |-> 0, deleteUpTo |-> 0, done |-> FALSE,
                       rounds |-> 0]
        ELSE IF after[i - 1].done THEN after[i - 1] ELSE ScanSizes(sizes, maxBytes, after[i - 1])
  IN  after[n]

\* What DeleteStreamMessagesBefore(deleteUpTo) leaves.
Kept(sizes, s) == {n \in DOMAIN sizes : n >= s.deleteUpTo}

-----------------------------------------------------------------------------
(* Properties.                                                              *)

\* The logs in which every number is at least a batch, so that going back by
\* one batch does not wrap.  Below that the scan visits 2^64 / 100 batches.
Logs == UNION {[b .. b + l - 1 -> 1 .. 2] : b \in ScanBatch .. ScanBatch + 1, l \in 1 .. MaxLog}

\* Size-based retention ends after one pass over the log, what it keeps fits the
\* limit, and a log of at most one batch loses only what does not fit.  (Of a
\* longer log the oldest batch is clipped and counts some messages twice.)
Fits(sizes, maxBytes) ==
  LET s    == ScanRounds(sizes, maxBytes, MaxLog)
      kept == Kept(sizes, s)
      more == {n \in DOMAIN sizes : n + 1 \in kept \/ n = Max(DOMAIN sizes)} \cup kept
  IN  /\ s.done
      /\ s.rounds <= (Cardinality(DOMAIN sizes) \div ScanBatch) + 1
      /\ Bytes(sizes, kept) <= maxBytes
      /\ Cardinality(DOMAIN sizes) <= ScanBatch =>
           kept = DOMAIN sizes \/ Bytes(sizes, more) > maxBytes
=============================================================================
