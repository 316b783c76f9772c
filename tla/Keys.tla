-------------------------------- MODULE Keys --------------------------------
(***************************************************************************)
(* How the storage (internal/storage/badger.go) keeps messages, queue      *)
(* configurations, streams and offsets in one ordered key space, and finds *)
(* them again by prefix.  Keys are byte sequences; a database is a         *)
(* function from keys to values.                                           *)
(***************************************************************************)
EXTENDS Slices, SequencesExt

CONSTANTS
  Names, Ids,     \* the queue and group names, and the message IDs
  Sequences,      \* the stream sequence numbers
  Width           \* digits of a sequence number in a key (20 in the code)

Colon  == 58

\* Nothing in the code keeps a queue name from containing the separator; the
\* properties below are about names that do not.
ASSUME KeysAssumption ==
  /\ \A q \in Names : ~Contains(q, Colon)
  /\ \A n \in Sequences : n \in 1 .. 10 ^ Width - 1

msgPrefix    == <<109, 115, 103, Colon>>
queuePrefix  == <<113, 117, 101, 117, 101, Colon>>
streamPrefix == <<115, 116, 114, 101, 97, 109, Colon>>
offsetPrefix == <<111, 102, 102, 115, 101, 116, Colon>>

-----------------------------------------------------------------------------
(* Keys.                                                                    *)

\* %020d
Digits(n) == [i \in 1 .. Width |-> 48 + ((n \div 10 ^ (Width - i)) % 10)]

\* Mutant: the separator between queue and ID is left out.
msgScanUnseparated(q) == msgPrefix \o q

msgScan(q)    == msgPrefix \o q \o <<Colon>>
streamScan(q) == streamPrefix \o q \o <<Colon>>
offsetScan(q) == offsetPrefix \o q \o <<Colon>>

msgKey(q, id)     == msgScan(q) \o id
queueKey(q)       == queuePrefix \o q
streamKey(q, n)   == streamScan(q) \o Digits(n)
offsetKey(q, g)   == offsetScan(q) \o g

\* %d of the digits a key ends in.
Scanned(s) == FoldLeft(LAMBDA v, d : 10 * v + (d - 48), 0, s)

\* bytes.Compare
RECURSIVE Before(_, _)
Before(s, t) ==
  /\ t # << >>
  /\ s = << >> \/ Head(s) < Head(t) \/ (Head(s) = Head(t) /\ Before(Tail(s), Tail(t)))

-----------------------------------------------------------------------------
(* Iteration.  An iterator visits the keys in order and stops at the first  *)
(* one without the prefix.                                                  *)

Ascending(keys)    == SetToSortSeq(keys, Before)
Suffix(k, scan)  == SubSeq(k, Len(scan) + 1, Len(k))
Scan(db, scan)   == {k \in DOMAIN db : IsPrefix(scan, k)}

\* it.Seek(start) and on while the prefix holds.
ScanFrom(db, scan, start) == {k \in Scan(db, scan) : ~Before(k, start)}

LoadMessages(db, q) == {[id |-> Suffix(k, msgScan(q)), body |-> db[k]] : k \in Scan(db, msgScan(q))}

\* Batches of keys are deleted until a scan finds none.
DeleteQueueMessages(db, q) == Restrict(db, DOMAIN db \ Scan(db, msgScan(q)))

LoadQueues(db) ==
  LET names == {Suffix(k, queuePrefix) : k \in Scan(db, queuePrefix)}
  IN  [q \in names |-> db[queueKey(q)]]

LoadStreamMessages(db, q, from, limit) ==
  LET found == Ascending(ScanFrom(db, streamScan(q), streamKey(q, from)))
  IN  [i \in 1 .. Min({limit, Len(found)}) |-> db[found[i]]]

LoadAllConsumerOffsets(db, q) ==
  LET groups == {Suffix(k, offsetScan(q)) : k \in Scan(db, offsetScan(q))}
  IN  [g \in groups |-> db[offsetKey(q, g)]]

LoadConsumerOffset(db, q, g) ==
  IF offsetKey(q, g) \in DOMAIN db THEN db[offsetKey(q, g)] ELSE 0

\* The reverse iterator starts at the largest key not after the seek key.
GetStreamSequence(db, q) ==
  LET seek  == streamScan(q) \o <<255>>
      upTo  == {k \in DOMAIN db : ~Before(seek, k)}
      last  == CHOOSE k \in upTo : \A other \in upTo : ~Before(k, other)
  IN  IF upTo = {} \/ ~IsPrefix(streamScan(q), last) THEN 0
      ELSE Scanned(Suffix(last, streamScan(q)))

GetStreamStats(db, q) ==
  LET keys == Scan(db, streamScan(q))
  IN  [oldest |-> IF keys = {} THEN 0 ELSE Scanned(Suffix(Ascending(keys)[1], streamScan(q))),
       newest |-> GetStreamSequence(db, q)]

DeleteStreamMessagesBefore(db, q, n) ==
  Restrict(db, DOMAIN db \ {k \in Scan(db, streamScan(q)) : Before(k, streamKey(q, n))})

\* The first message in key order that is not older than t, 0 if there is none.
GetStreamMessageByTimestamp(db, q, t) ==
  LET found == SelectSeq(Ascending(Scan(db, streamScan(q))), LAMBDA k : db[k].publishedAt >= t)
  IN  IF found = << >> THEN 0 ELSE db[found[1]].sequence

-----------------------------------------------------------------------------
(* Properties: the operations agree with the contents they were saved from. *)

\* Publication times do not follow the sequence numbers: handlers take the time
\* before they wait for the stream's mutex.
publishedAt(n) == n % 7

\* The database with messages M (queue and ID), streams S (queue and sequence
\* number), committed offsets O (queue and group) and the configurations of Names.
Database(M, S, O) ==
  [k \in {msgKey(x[1], x[2]) : x \in M} |-> k]
    @@ [k \in {queueKey(q) : q \in Names} |-> k]
    @@ [k \in {offsetKey(x[1], x[2]) : x \in O} |-> 5]
    @@ [k \in {streamKey(x[1], x[2]) : x \in S} |->
          LET x == CHOOSE y \in S : streamKey(y[1], y[2]) = k
          IN  [sequence |-> x[2], publishedAt |-> publishedAt(x[2])]]

\* Loading or purging a queue reaches the messages of that queue and no others,
\* also of a queue whose name begins with the name of another, and whatever
\* bytes the IDs contain; so do the loads of configurations and offsets.
QueuesApart(M, O) ==
  LET db == Database(M, Names \X Sequences, O) IN
  /\ DOMAIN LoadQueues(db) = Names
  /\ \A q \in Names :
       /\ {m.id : m \in LoadMessages(db, q)} = {i \in Ids : <<q, i>> \in M}
       /\ DeleteQueueMessages(db, q)
            = Database({x \in M : x[1] # q}, Names \X Sequences, O)
       /\ DOMAIN LoadAllConsumerOffsets(db, q) = {g \in Ids : <<q, g>> \in O}
       /\ \A g \in Ids : LoadConsumerOffset(db, q, g) = IF <<q, g>> \in O THEN 5 ELSE 0

\* The order of the keys of a stream is the order of its numbers: loading from
\* a sequence number, the newest one, retention and the search by time all see
\* the log as a sequence.
StreamInOrder(S) ==
  LET db == Database(Names \X Ids, S, Names \X Ids) IN
  \A q \in Names :
    LET numbers == {n \in Sequences : <<q, n>> \in S} IN
    /\ GetStreamStats(db, q) = [oldest |-> IF numbers = {} THEN 0 ELSE Min(numbers),
                                newest |-> Max(numbers \cup {0})]
    /\ \A n \in Sequences :
         LET from == {k \in numbers : k >= n}
             late == {k \in numbers : publishedAt(k) >= publishedAt(n)}
             two  == LoadStreamMessages(db, q, n, 2)
         IN  /\ [i \in DOMAIN two |-> two[i].sequence]
                  = SubSeq(SetToSortSeq(from, <), 1, Min({2, Cardinality(from)}))
             /\ DeleteStreamMessagesBefore(db, q, n)
                  = Database(Names \X Ids, {x \in S : x[1] = q => x[2] >= n}, Names \X Ids)
             /\ GetStreamMessageByTimestamp(db, q, publishedAt(n))
                  = (IF late = {} THEN 0 ELSE Min(late))
=============================================================================
