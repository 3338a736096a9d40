-------------------------- MODULE MCEventDelivery --------------------------
(* Small instances of EventDelivery for TLC.                               *)
EXTENDS EventDelivery, TLC

Symmetry == Permutations(Sessions) \cup Permutations(Snapshots)
=============================================================================
