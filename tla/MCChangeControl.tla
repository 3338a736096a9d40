--------------------------- MODULE MCChangeControl ---------------------------
(* Model checking of ChangeControl: who issues and repeats is symmetric.   *)
EXTENDS ChangeControl, TLC

Symmetry == Permutations(Approvals) \cup Permutations(Controllers) \cup Permutations(Changes)
=============================================================================
