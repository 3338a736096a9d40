--------------------------- MODULE RuntimeOutbox ---------------------------
(***************************************************************************)
(* The Agent's durable outbox of runtime events, runtime-events-outbox.json *)
(* (crates/amcp-agent/src/main.rs).  The file holds one JSON array; every  *)
(* operation reads the whole array, computes a new one, and renames it     *)
(* into place.  This module has the pure part: what each operation         *)
(* computes from the queue it read.  An event stands for its event_id: two *)
(* events with one id carry the same payload, because the id is either     *)
(* random or a hash of the payload.                                        *)
(***************************************************************************)
EXTENDS Integers, Sequences, FiniteSets, Functions

CONSTANT OutboxCap      \* 256 in the code: the most events kept queued

ASSUME OutboxCapAssumption == OutboxCap \in Nat \ {0}

-----------------------------------------------------------------------------
(* The subsequence of s at the positions P, in the order of s.             *)
Nth(P, n) == CHOOSE p \in P : Cardinality({r \in P : r <= p}) = n
AtPositions(s, P) == [n \in 1..Cardinality(P) |-> s[Nth(P, n)]]

(* Bug: remove as many events from the front as were acknowledged.         *)
WithoutByCount(q, ids) == SubSeq(q, Cardinality(Range(q) \cap ids) + 1, Len(q))

(* The queue without the events in ids: the filter of an acknowledgement.  *)
Without(q, ids) == AtPositions(q, {i \in DOMAIN q : q[i] \notin ids})

(* Push each event whose id is not queued yet, the ones pushed before it   *)
(* in the same call included.                                              *)
Push(q, events) ==
  LET s == q \o events
  IN  AtPositions(s, {i \in DOMAIN s : \/ i <= Len(q)
                                       \/ \A j \in 1..(i-1) : s[j] # s[i]})

(* Bug: keep one event too few.                                            *)
NewestMinusOne(q) == IF Len(q) > OutboxCap
                     THEN SubSeq(q, Len(q) - OutboxCap + 2, Len(q))
                     ELSE q

(* Drain the oldest events beyond the bound.                               *)
Newest(q) == IF Len(q) > OutboxCap
             THEN SubSeq(q, Len(q) - OutboxCap + 1, Len(q))
             ELSE q

Appended(q, events) == Newest(Push(q, events))

(* The position after the event a reader names as its cursor; the front of *)
(* the queue when the reader names none or one that is no longer queued.   *)
StartAfter(q, cursor) ==
  IF \E i \in DOMAIN q : q[i] = cursor
  THEN 1 + CHOOSE i \in DOMAIN q : q[i] = cursor /\ \A j \in 1..(i-1) : q[j] # cursor
  ELSE 1

(* Bug: take the page from the end of the queue.                           *)
EventPageNewest(q, start, limit) ==
  SubSeq(q, IF Len(q) - limit + 1 > start THEN Len(q) - limit + 1 ELSE start, Len(q))

(* One page of at most limit events from the position start.               *)
EventPage(q, start, limit) ==
  SubSeq(q, start, IF start + limit - 1 < Len(q) THEN start + limit - 1 ELSE Len(q))

NoDuplicates(q) == \A i, j \in DOMAIN q : q[i] = q[j] => i = j
=============================================================================
