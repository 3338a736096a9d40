------------------------- MODULE ReviewedDocuments -------------------------
(***************************************************************************)
(* What change control promises, without the catalog's statuses, the       *)
(* processes, the connections, the replay store and the backups: documents *)
(* that others change at any time, and that are compared and swapped under *)
(* grants, each at most once and with a true account.                      *)
(*                                                                         *)
(* The promise has a hole, which is part of it: a change set is exposed    *)
(* when its document changes while one of its grants is being carried out, *)
(* and an exposed change set is swapped without a comparison.              *)
(***************************************************************************)

CONSTANTS
  Docs,       \* the documents
  Threads,    \* those that cannot be taken back
  Held,       \* what a document can hold
  Contents,   \* what a change set can put there
  Changes,    \* the change sets there can be
  Approvals,  \* one for each grant
  NoChange    \* a change set that is not proposed

VARIABLES
  disk,     \* per document, what it holds
  change,   \* per change set, its document and the content before and after
  granted,  \* the grants: to apply a change set or to roll it back
  swapped,  \* the grants under which the document was replaced
  audits,   \* the account: grants with their outcome
  exposed   \* the change sets that are not compared any more

vars == <<disk, change, granted, swapped, audits, exposed>>

Init ==
  /\ disk \in [Docs -> Held]
  /\ change = [c \in Changes |-> NoChange]
  /\ granted = {} /\ swapped = {} /\ audits = {} /\ exposed = {}

(* What a grant replaces, and by what.                                     *)
Doc(g)    == change[g.change].doc
Before(g) == IF g.op = "apply" THEN change[g.change].before ELSE change[g.change].after
After(g)  == IF g.op = "apply" THEN change[g.change].after ELSE change[g.change].before

(* Neither used nor accounted for.                                         *)
Outstanding == {g \in granted \ swapped : \A r \in audits : r.approval # g.approval}

(* A change of d may expose change sets whose grants are outstanding.      *)
Expose(d, grants) ==
  exposed' \in {exposed \cup X : X \in SUBSET {g.change : g \in {g \in grants : Doc(g) = d}}}

(* Somebody else changes a document.                                       *)
Edit(d, v) ==
  /\ disk' = [disk EXCEPT ![d] = v]
  /\ Expose(d, Outstanding)
  /\ UNCHANGED <<change, granted, swapped, audits>>

(* A change set says what it replaces: the document as it is.              *)
Propose(c, d, v) ==
  /\ change[c] = NoChange
  /\ change' = [change EXCEPT ![c] = [doc |-> d, before |-> disk[d], after |-> v]]
  /\ UNCHANGED <<disk, granted, swapped, audits, exposed>>

Grant(op, c, a) ==
  /\ change[c] # NoChange
  /\ \A g \in granted : g.approval # a
  /\ granted' = granted \cup {[op |-> op, change |-> c, approval |-> a]}
  /\ UNCHANGED <<disk, change, swapped, audits, exposed>>

(* Compare and swap, once, and not after an account of it was given.       *)
Swap(g) ==
  /\ g \in Outstanding
  /\ Doc(g) \in Threads => g.op = "apply"
  /\ g.change \notin exposed => disk[Doc(g)] = Before(g)
  /\ disk' = [disk EXCEPT ![Doc(g)] = After(g)]
  /\ swapped' = swapped \cup {g}
  /\ Expose(Doc(g), Outstanding \ {g})
  /\ UNCHANGED <<change, granted, audits>>

(* The account of a grant: whether the document was replaced under it.     *)
Done(g) == IF g.op = "apply" THEN "Applied" ELSE "RolledBack"

Record(g, outcome) ==
  /\ g \in granted
  /\ outcome = IF g \in swapped THEN Done(g) ELSE "Conflict"
  /\ audits' = audits \cup
       {[op |-> g.op, change |-> g.change, approval |-> g.approval, outcome |-> outcome]}
  /\ UNCHANGED <<disk, change, granted, swapped, exposed>>

Next ==
  \/ \E d \in Docs, v \in Held : Edit(d, v)
  \/ \E c \in Changes, d \in Docs, v \in Contents : Propose(c, d, v)
  \/ \E op \in {"apply", "rollback"}, c \in Changes, a \in Approvals : Grant(op, c, a)
  \/ \E g \in granted : Swap(g)
  \/ \E g \in granted, outcome \in {"Applied", "RolledBack", "Conflict"} : Record(g, outcome)

Spec == Init /\ [][Next]_vars
=============================================================================
