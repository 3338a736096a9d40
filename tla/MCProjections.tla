--------------------------- MODULE MCProjections ---------------------------
(* Small instances of Projections for TLC.                                 *)
EXTENDS Projections, TLC

Symmetry == Permutations(Contents) \cup Permutations(Rebuilds)

(* A bound: no retrieval during a rebuild.  They share no variable that    *)
(* either writes; a search that meets a half-filled table finds less.      *)
Apart ==
  \/ \A q \in Retrievals : retrieval[q].phase = "idle"
  \/ \A p \in Rebuilds : rebuild[p].phase \in {"idle", "done"}
=============================================================================
