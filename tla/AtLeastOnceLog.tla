--------------------------- MODULE AtLeastOnceLog ---------------------------
(***************************************************************************)
(* What the Agent's outbox and the Controller's catalog promise together,  *)
(* without the file, the mutex, the sessions and the connections: a        *)
(* bounded at-least-once log.                                              *)
(***************************************************************************)
EXTENDS Integers, FiniteSets

CONSTANTS Event,    \* the events there can be
          Bound     \* the most events kept for delivery

VARIABLES
  emitted,    \* the events ever accepted
  queued,     \* the events kept for delivery
  delivered,  \* the events the catalog has
  dropped     \* the events given up because the log was full

vars == <<emitted, queued, delivered, dropped>>

Init == emitted = {} /\ queued = {} /\ delivered = {} /\ dropped = {}

(* Accept E; drop only what does not fit.                                  *)
Emit(E, D) ==
  /\ D \subseteq queued \cup E
  /\ emitted' = emitted \cup E
  /\ queued' = (queued \cup E) \ D
  /\ dropped' = dropped \cup D
  /\ Cardinality(queued') <= Bound
  /\ D # {} => Cardinality(queued') = Bound
  /\ UNCHANGED delivered

Deliver(E) ==
  /\ E \subseteq emitted
  /\ delivered' = delivered \cup E
  /\ UNCHANGED <<emitted, queued, dropped>>

(* Only what was delivered is ever forgotten.                              *)
Acknowledge(E) ==
  /\ E \subseteq delivered
  /\ queued' = queued \ E
  /\ UNCHANGED <<emitted, delivered, dropped>>

Next == \/ \E E, D \in SUBSET Event : Emit(E, D)
        \/ \E E \in SUBSET emitted : Deliver(E)
        \/ \E E \in SUBSET delivered : Acknowledge(E)

Spec == Init /\ [][Next]_vars
=============================================================================
