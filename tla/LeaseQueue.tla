----------------------------- MODULE LeaseQueue -----------------------------
(***************************************************************************)
(* What a queue of the broker promises to producers and consumers, with no *)
(* mention of channels, round-robin, ordering keys or locks.               *)
(*                                                                         *)
(* Every message has one status.  An accepted message is "fresh" until its *)
(* first delivery, "leased" while a consumer may settle it, and "ready"    *)
(* when a lease has ended without being settled.  Messages are numbered in *)
(* the order in which they were offered.                                   *)
(***************************************************************************)
EXTENDS Naturals

CONSTANT Messages    \* a set of naturals, in publish order

VARIABLE status

Statuses == {"unpublished", "refused", "fresh", "ready", "leased", "settled"}

LeaseTypeOK == status \in [Messages -> Statuses]

LeaseInit == status = [m \in Messages |-> "unpublished"]

\* A publish is refused, or accepted; a recovered message may already have
\* been delivered before the restart.
Offer(m) ==
  /\ status[m] = "unpublished"
  /\ \E s \in {"refused", "fresh", "ready"} : status' = [status EXCEPT ![m] = s]

\* First deliveries happen in publish order; redeliveries in any order.
Lease(m) ==
  /\ \/ status[m] = "ready"
     \/ /\ status[m] = "fresh"
        /\ \A n \in Messages : n < m => status[n] # "fresh"
  /\ status' = [status EXCEPT ![m] = "leased"]

\* Leases end without a settlement: one by a nack, several by a timeout scan.
Release(S) ==
  /\ \A m \in S : status[m] = "leased"
  /\ status' = [m \in Messages |-> IF m \in S THEN "ready" ELSE status[m]]

\* An ack, or a nack that ends the message's life in this queue.
Settle(m) ==
  /\ status[m] = "leased"
  /\ status' = [status EXCEPT ![m] = "settled"]

\* An operator discards accepted messages, leased or not.
Discard(S) ==
  /\ \A m \in S : status[m] \in {"fresh", "ready", "leased"}
  /\ status' = [m \in Messages |-> IF m \in S THEN "settled" ELSE status[m]]

LeaseNext ==
  \/ \E m \in Messages : Offer(m) \/ Lease(m) \/ Settle(m)
  \/ \E S \in SUBSET Messages : Release(S) \/ Discard(S)

LeaseSpec == LeaseInit /\ [][LeaseNext]_status
=============================================================================
