-------------------------- MODULE ProjectionsProofs --------------------------
(***************************************************************************)
(* Theorems about Projections, for any number of artifacts, rebuilds and   *)
(* retrievals.                                                             *)
(***************************************************************************)
EXTENDS Projections, TLAPS

(* The names of all actions, for facts that hold of every step.            *)
LEMMA Steps ==
  ASSUME [Next]_vars
  PROVE  \/ \E i \in Ids, c \in Contents : Ingest(i, c)
         \/ \E S \in SUBSET Catalogued : \E T \in SUBSET S : Forget(S, T)
         \/ \E p \in Rebuilds : \/ Begin(p) \/ Clear(p) \/ ReadChunk(p)
                                \/ InsertChunk(p) \/ Complete(p) \/ Stop(p)
         \/ \E q \in Retrievals :
              \/ \E hits \in SUBSET Found : Search(q, hits)
              \/ Compare(q) \/ Mark(q) \/ Invalidate(q)
              \/ \E dropped \in SUBSET Ids : Load(q, dropped)
              \/ Replace(q) \/ EndRetrieval(q)
         \/ ClearRag
         \/ UNCHANGED vars
  BY DEF Next, RebuildStep, RetrievalStep

-----------------------------------------------------------------------------
(* Type correctness.                                                       *)
LEMMA InitTypes == Init => TypeOK
  BY ConstantsAssumption
  DEF Init, TypeOK, Stored, Rebuild, Retrieval, NoRebuild, NoRetrieval, Catalogued

LEMMA CataloguedIds == Catalogued \subseteq Ids
  BY DEF Catalogued

LEMMA StepTypes == TypeOK /\ [Next]_vars => TypeOK'
<1> SUFFICES ASSUME TypeOK, [Next]_vars PROVE TypeOK'
  OBVIOUS
<1>a. /\ artifact \in [Ids -> Stored] /\ tombstones \in SUBSET (Ids \ Catalogued)
      /\ entries \in [Ids -> [Contents -> Nat]] /\ rebuild \in [Rebuilds -> Rebuild]
      /\ chunks \in SUBSET Ids /\ retrieval \in [Retrievals -> Retrieval]
      /\ cleared \in Rebuilds \cup {None} /\ whole \in {"yes", "no"}
      /\ quiet \in [Rebuilds -> {"yes", "no"}] /\ known \in [Retrievals -> SUBSET Ids]
  BY DEF TypeOK
<1>b. ASSUME NEW S, Disturb(S) PROVE quiet' \in [Rebuilds -> {"yes", "no"}]
  BY <1>a, <1>b DEF Disturb
<1>c. Catalogued \subseteq Ids
  BY CataloguedIds
<1>d. 0..N = {n \in Int : 0 <= n /\ n <= N} /\ Ids \subseteq 0..N
  BY ConstantsAssumption DEF Ids
<1>e. NoRebuild \in Rebuild /\ NoRetrieval \in Retrieval
  BY ConstantsAssumption DEF NoRebuild, Rebuild, NoRetrieval, Retrieval
<1>1. ASSUME NEW i \in Ids, NEW c \in Contents, Ingest(i, c) PROVE TypeOK'
  <2>1. artifact' \in [Ids -> Stored]
    BY <1>1, <1>a DEF Ingest, Stored
  <2>2. entries' \in [Ids -> [Contents -> Nat]]
    BY <1>1, <1>a DEF Ingest, Only
  <2>3. tombstones' \in SUBSET (Ids \ Catalogued')
    BY <1>1, <1>a DEF Ingest, Catalogued
  <2>4. known' \in [Retrievals -> SUBSET Ids]
    BY <1>1, <1>a DEF Ingest
  <2>5. quiet' \in [Rebuilds -> {"yes", "no"}]
    BY <1>1, <1>b DEF Ingest
  <2> QED
    BY <1>1, <1>a, <2>1, <2>2, <2>3, <2>4, <2>5 DEF TypeOK, Ingest
<1>2. ASSUME NEW S \in SUBSET Catalogued, NEW T \in SUBSET S, Forget(S, T) PROVE TypeOK'
  <2>1. artifact' \in [Ids -> Stored]
    BY <1>2, <1>a DEF Forget, Stored
  <2>2. entries' \in [Ids -> [Contents -> Nat]]
    BY <1>2, <1>a DEF Forget
  <2>3. tombstones' \in SUBSET (Ids \ Catalogued')
    BY <1>2, <1>a, <1>c DEF Forget, Catalogued
  <2>4. chunks' \in SUBSET Ids
    BY <1>2, <1>a DEF Forget
  <2>5. quiet' \in [Rebuilds -> {"yes", "no"}]
    BY <1>2, <1>b DEF Forget
  <2> QED
    BY <1>2, <1>a, <2>1, <2>2, <2>3, <2>4, <2>5 DEF TypeOK, Forget
<1>3. ASSUME NEW p \in Rebuilds, Begin(p) PROVE TypeOK'
  <2>1. rebuild' \in [Rebuilds -> Rebuild]
    BY <1>3, <1>a, <1>e DEF Begin, NoRebuild, Rebuild
  <2> QED
    BY <1>3, <1>a, <2>1 DEF TypeOK, Begin, catalogVars, searchVars, Catalogued
<1>4. ASSUME NEW p \in Rebuilds, Clear(p) PROVE TypeOK'
  <2>1. rebuild' \in [Rebuilds -> Rebuild]
    BY <1>4, <1>a DEF Clear, Rebuild
  <2>2. entries' \in [Ids -> [Contents -> Nat]]
    BY <1>4 DEF Clear
  <2>3. quiet' \in [Rebuilds -> {"yes", "no"}]
    BY <1>4, <1>b DEF Clear
  <2> QED
    BY <1>4, <1>a, <2>1, <2>2, <2>3 DEF TypeOK, Clear, catalogVars, Catalogued
<1>5. ASSUME NEW p \in Rebuilds, ReadChunk(p) PROVE TypeOK'
  <2>1. PICK k \in Catalogued :
          rebuild' = [rebuild EXCEPT ![p] =
            [phase |-> "inserting", last |-> k,
             rows |-> {r \in Row : r.id \in Ahead(p, k) /\ r.content = artifact[r.id]}]]
    BY <1>5 DEF ReadChunk
  <2>2. k \in 0..N
    BY <1>c, <1>d
  <2>3. rebuild' \in [Rebuilds -> Rebuild]
    BY <2>1, <2>2, <1>a DEF Rebuild
  <2> QED
    BY <1>5, <1>a, <2>3 DEF TypeOK, ReadChunk, catalogVars, searchVars, Catalogued
<1>6. ASSUME NEW p \in Rebuilds, InsertChunk(p) PROVE TypeOK'
  <2>1. rebuild' \in [Rebuilds -> Rebuild]
    BY <1>6, <1>a DEF InsertChunk, Rebuild
  <2>2. \A i \in Ids, c \in Contents : entries[i][c] \in Nat /\ entries[i][c] + 1 \in Nat
    BY <1>a
  <2>3. entries' \in [Ids -> [Contents -> Nat]]
    BY <1>6, <2>2 DEF InsertChunk
  <2>4. quiet' \in [Rebuilds -> {"yes", "no"}]
    BY <1>6, <1>b DEF InsertChunk
  <2> QED
    BY <1>6, <1>a, <2>1, <2>3, <2>4 DEF TypeOK, InsertChunk, catalogVars, Catalogued
<1>7. ASSUME NEW p \in Rebuilds, Complete(p) PROVE TypeOK'
  <2>1. rebuild' \in [Rebuilds -> Rebuild]
    BY <1>7, <1>a DEF Complete, Rebuild
  <2>2. whole' \in {"yes", "no"}
    BY <1>7, <1>a DEF Complete
  <2> QED
    BY <1>7, <1>a, <2>1, <2>2 DEF TypeOK, Complete, catalogVars, Catalogued
<1>8. ASSUME NEW p \in Rebuilds, Stop(p) PROVE TypeOK'
  <2>1. rebuild' \in [Rebuilds -> Rebuild]
    BY <1>8, <1>a, <1>e DEF Stop
  <2> QED
    BY <1>8, <1>a, <2>1 DEF TypeOK, Stop, catalogVars, searchVars, Catalogued
<1>9. ASSUME NEW q \in Retrievals, NEW hits \in SUBSET Found, Search(q, hits) PROVE TypeOK'
  <2>1. hits \in SUBSET Ids
    BY <1>c DEF Found
  <2>2. [phase |-> "searched", hits |-> hits, stale |-> {}, memory |-> {}] \in Retrieval
    BY <2>1 DEF Retrieval
  <2>3. retrieval' = [retrieval EXCEPT ![q] =
                       [phase |-> "searched", hits |-> hits, stale |-> {}, memory |-> {}]]
    BY <1>9 DEF Search, Step
  <2>4. retrieval' \in [Retrievals -> Retrieval]
    BY <1>a, <2>2, <2>3
  <2>5. known' \in [Retrievals -> SUBSET Ids]
    BY <1>9, <1>a, <1>c DEF Search
  <2> QED
    BY <1>9, <1>a, <2>4, <2>5 DEF TypeOK, Search, catalogVars, searchVars, Catalogued
<1>10. ASSUME NEW q \in Retrievals, Compare(q) PROVE TypeOK'
  <2>1. Ids \ Catalogued \in SUBSET Ids
    OBVIOUS
  <2>2. retrieval' \in [Retrievals -> Retrieval]
    <3>1. [retrieval[q] EXCEPT !.phase = "compared", !.stale = Ids \ Catalogued] \in Retrieval
      BY <1>a, <2>1 DEF Retrieval
    <3> QED
      BY <1>10, <1>a, <3>1 DEF Compare, Step
  <2> QED
    BY <1>10, <1>a, <2>2 DEF TypeOK, Compare, catalogVars, searchVars, Catalogued
<1>11. ASSUME NEW q \in Retrievals, Mark(q) PROVE TypeOK'
  <2>1. [retrieval[q] EXCEPT !.phase = "marked", !.stale = @ \cap chunks] \in Retrieval
    BY <1>a DEF Retrieval
  <2>2. retrieval' \in [Retrievals -> Retrieval]
    BY <1>11, <1>a, <2>1 DEF Mark, Step
  <2> QED
    BY <1>11, <1>a, <2>2 DEF TypeOK, Mark, catalogVars, searchVars, Catalogued
<1>12. ASSUME NEW q \in Retrievals, Invalidate(q) PROVE TypeOK'
  <2>1. retrieval' \in [Retrievals -> Retrieval] /\ chunks' \in SUBSET Ids
    BY <1>12, <1>a DEF Invalidate, Step, Retrieval
  <2> QED
    BY <1>12, <1>a, <2>1 DEF TypeOK, Invalidate, catalogVars, searchVars, Catalogued
<1>13. ASSUME NEW q \in Retrievals, NEW dropped \in SUBSET Ids, Load(q, dropped) PROVE TypeOK'
  <2>1. retrieval[q].hits \in SUBSET Ids
    BY <1>a DEF Retrieval
  <2>2. (chunks \cup retrieval[q].hits) \ dropped \in SUBSET Ids
    BY <2>1, <1>a
  <2>3. retrieval' \in [Retrievals -> Retrieval]
    BY <1>13, <1>a, <2>2 DEF Load, Step, Retrieval
  <2> QED
    BY <1>13, <1>a, <2>3 DEF TypeOK, Load, catalogVars, searchVars, Catalogued
<1>14. ASSUME NEW q \in Retrievals, Replace(q) PROVE TypeOK'
  <2>1. retrieval[q].memory \in SUBSET Ids
    BY <1>a DEF Retrieval
  <2>2. retrieval' \in [Retrievals -> Retrieval] /\ chunks' \in SUBSET Ids
    BY <1>14, <1>a, <2>1 DEF Replace, Step, Retrieval
  <2> QED
    BY <1>14, <1>a, <2>2 DEF TypeOK, Replace, catalogVars, searchVars, Catalogued
<1>15. ASSUME NEW q \in Retrievals, EndRetrieval(q) PROVE TypeOK'
  <2>1. retrieval' \in [Retrievals -> Retrieval] /\ known' \in [Retrievals -> SUBSET Ids]
    BY <1>15, <1>a, <1>e DEF EndRetrieval, Step
  <2> QED
    BY <1>15, <1>a, <2>1 DEF TypeOK, EndRetrieval, catalogVars, searchVars, Catalogued
<1>16. ASSUME ClearRag \/ UNCHANGED vars PROVE TypeOK'
  BY <1>16, <1>a DEF TypeOK, ClearRag, vars, catalogVars, searchVars, Catalogued
<1> QED
  BY <1>1, <1>2, <1>3, <1>4, <1>5, <1>6, <1>7, <1>8, <1>9, <1>10, <1>11, <1>12, <1>13,
     <1>14, <1>15, <1>16, Steps

(* The state of the projections keeps its types, and no artifact that has a*)
(* tombstone is in the catalog.                                            *)
THEOREM TypeCorrect == Spec => []TypeOK
<1> QED
  BY InitTypes, StepTypes, PTL DEF Spec
-----------------------------------------------------------------------------
(* Nothing is lost to a rebuild.  While the rebuild that emptied the table *)
(* goes on, an artifact is in the table, still ahead of it, or in the      *)
(* chunk it has read.                                                      *)
Underway(p) == rebuild[p].phase \in {"reading", "inserting"}

Filled(p, i) ==
  \/ entries[i][artifact[i]] > 0
  \/ i > rebuild[p].last
  \/ /\ rebuild[p].phase = "inserting"
     /\ [id |-> i, content |-> artifact[i]] \in rebuild[p].rows

Filling ==
  /\ whole = "no" => cleared \in Rebuilds
  /\ whole = "no" /\ Underway(cleared) => \A i \in Catalogued : Filled(cleared, i)
  /\ \A p \in Rebuilds : rebuild[p].phase = "begun" => rebuild[p].last = 0

FillInv == Searchable /\ Filling

LEMMA InitFills == Init => FillInv
  BY DEF Init, FillInv, Searchable, Filling, Catalogued, NoRebuild

LEMMA StepFills == TypeOK /\ FillInv /\ [Next]_vars => FillInv'
<1> SUFFICES ASSUME TypeOK, FillInv, [Next]_vars PROVE FillInv'
  OBVIOUS
<1> USE DEF FillInv, Searchable, Filling, Underway, Filled
<1>a. /\ artifact \in [Ids -> Stored] /\ entries \in [Ids -> [Contents -> Nat]]
      /\ rebuild \in [Rebuilds -> Rebuild] /\ whole \in {"yes", "no"}
  BY DEF TypeOK
<1>b. \A i \in Catalogued : i \in Ids /\ artifact[i] \in Contents
  BY <1>a DEF Catalogued, Stored
<1>c. \A i \in Catalogued : i > 0
  BY <1>b, ConstantsAssumption DEF Ids
<1>d. whole = "no" => cleared \in Rebuilds
  OBVIOUS
<1>1. ASSUME NEW i \in Ids, NEW c \in Contents, Ingest(i, c) PROVE FillInv'
  <2>1. entries'[i][c] = 1 /\ artifact'[i] = c
    BY <1>1, <1>a DEF Ingest, Only
  <2>2. \A j \in Ids : j # i => entries'[j] = entries[j] /\ artifact'[j] = artifact[j]
    BY <1>1, <1>a DEF Ingest
  <2>3. Catalogued' \subseteq Catalogued \cup {i}
    BY <2>2 DEF Catalogued
  <2> QED
    BY <1>1, <1>b, <2>1, <2>2, <2>3 DEF Ingest
<1>2. ASSUME NEW S \in SUBSET Catalogued, NEW T \in SUBSET S, Forget(S, T) PROVE FillInv'
  <2>1. \A j \in Catalogued' : /\ j \in Catalogued /\ artifact'[j] = artifact[j]
                             /\ entries'[j] = entries[j]
    BY <1>2, <1>a DEF Forget, Catalogued
  <2> QED
    BY <1>2, <2>1 DEF Forget
<1>3. ASSUME NEW p \in Rebuilds, Begin(p) PROVE FillInv'
  <2>1. rebuild'[p] = [phase |-> "begun", last |-> 0, rows |-> {}]
    BY <1>3, <1>a DEF Begin, NoRebuild
  <2>2. \A r \in Rebuilds : r # p => rebuild'[r] = rebuild[r]
    BY <1>3, <1>a DEF Begin
  <2> QED
    BY <1>3, <2>1, <2>2 DEF Begin, catalogVars, searchVars, Catalogued
<1>4. ASSUME NEW p \in Rebuilds, Clear(p) PROVE FillInv'
  <2>1. rebuild'[p].phase = "reading" /\ rebuild'[p].last = 0
    BY <1>4, <1>a DEF Clear, Rebuild
  <2>2. \A r \in Rebuilds : r # p => rebuild'[r] = rebuild[r]
    BY <1>4, <1>a DEF Clear
  <2>3. whole' = "no" /\ cleared' = p /\ Catalogued' = Catalogued
    BY <1>4 DEF Clear, catalogVars, Catalogued
  <2> QED
    BY <1>c, <2>1, <2>2, <2>3
<1>5. ASSUME NEW p \in Rebuilds, ReadChunk(p) PROVE FillInv'
  <2>1. PICK k \in Catalogued :
          /\ rebuild[p].last < k
          /\ rebuild' = [rebuild EXCEPT ![p] =
               [phase |-> "inserting", last |-> k,
                rows |-> {r \in Row : r.id \in Ahead(p, k) /\ r.content = artifact[r.id]}]]
    BY <1>5 DEF ReadChunk
  <2>2. /\ rebuild'[p].phase = "inserting" /\ rebuild'[p].last = k
        /\ rebuild'[p].rows = {r \in Row : r.id \in Ahead(p, k) /\ r.content = artifact[r.id]}
    BY <2>1, <1>a
  <2>3. \A r \in Rebuilds : r # p => rebuild'[r] = rebuild[r]
    BY <2>1, <1>a
  <2>4. UNCHANGED <<artifact, entries, cleared, whole>> /\ Catalogued' = Catalogued
    BY <1>5 DEF ReadChunk, catalogVars, searchVars, Catalogued
  <2>5. \A i \in Catalogued : rebuild[p].last < i /\ i <= k =>
          [id |-> i, content |-> artifact[i]] \in rebuild'[p].rows
    BY <2>2, <1>b DEF Row, Ahead
  <2>6. rebuild[p].last \in Int /\ k \in Int /\ \A i \in Catalogued : i \in Int
    BY <1>a, <1>b, ConstantsAssumption DEF Rebuild, Ids
  <2>7. rebuild[p].phase = "reading"
    BY <1>5 DEF ReadChunk
  <2>8. ASSUME whole' = "no", Underway(cleared)', NEW i \in Catalogued
        PROVE  Filled(cleared, i)'
    <3>1. CASE cleared = p
      BY <3>1, <2>2, <2>4, <2>5, <2>6, <2>7, <2>8
    <3>2. CASE cleared # p
      <4>1. cleared \in Rebuilds /\ cleared' = cleared /\ rebuild'[cleared] = rebuild[cleared]
        BY <1>d, <3>2, <2>3, <2>4, <2>8
      <4>2. Filled(cleared, i)
        BY <4>1, <2>4, <2>8
      <4> QED
        BY <4>1, <4>2, <2>4
    <3> QED
      BY <3>1, <3>2
  <2> QED
    BY <2>2, <2>3, <2>4, <2>8
<1>6. ASSUME NEW p \in Rebuilds, InsertChunk(p) PROVE FillInv'
  <2>1. /\ rebuild'[p].phase = "reading" /\ rebuild'[p].last = rebuild[p].last
        /\ rebuild[p].phase = "inserting"
    BY <1>6, <1>a DEF InsertChunk, Rebuild
  <2>2. \A r \in Rebuilds : r # p => rebuild'[r] = rebuild[r]
    BY <1>6, <1>a DEF InsertChunk
  <2>3. UNCHANGED <<artifact, cleared, whole>> /\ Catalogued' = Catalogued
    BY <1>6 DEF InsertChunk, catalogVars, Catalogued
  <2>4. \A i \in Catalogued :
          entries'[i][artifact[i]] =
            IF [id |-> i, content |-> artifact[i]] \in rebuild[p].rows
            THEN entries[i][artifact[i]] + 1 ELSE entries[i][artifact[i]]
    BY <1>6, <1>b DEF InsertChunk
  <2>5. \A i \in Catalogued : entries[i][artifact[i]] \in Nat
    BY <1>a, <1>b
  <2>6. \A i \in Catalogued :
          /\ entries[i][artifact[i]] > 0 => entries'[i][artifact[i]] > 0
          /\ [id |-> i, content |-> artifact[i]] \in rebuild[p].rows
                => entries'[i][artifact[i]] > 0
    BY <2>4, <2>5
  <2>7. ASSUME whole' = "no", Underway(cleared)', NEW i \in Catalogued
        PROVE  Filled(cleared, i)'
    <3>1. CASE cleared = p
      BY <3>1, <2>1, <2>3, <2>6, <2>7
    <3>2. CASE cleared # p
      <4>1. cleared \in Rebuilds /\ cleared' = cleared /\ rebuild'[cleared] = rebuild[cleared]
        BY <1>d, <3>2, <2>2, <2>3, <2>7
      <4>2. Filled(cleared, i)
        BY <4>1, <2>3, <2>7
      <4> QED
        BY <4>1, <4>2, <2>3, <2>6
    <3> QED
      BY <3>1, <3>2
  <2> QED
    BY <2>1, <2>2, <2>3, <2>6, <2>7
<1>7. ASSUME NEW p \in Rebuilds, Complete(p) PROVE FillInv'
  <2>1. rebuild'[p].phase = "done"
    BY <1>7, <1>a DEF Complete, Rebuild
  <2>2. \A r \in Rebuilds : r # p => rebuild'[r] = rebuild[r]
    BY <1>7, <1>a DEF Complete
  <2>3. UNCHANGED <<artifact, entries, cleared>> /\ Catalogued' = Catalogued
    BY <1>7 DEF Complete, catalogVars, Catalogued
  <2>4. /\ rebuild[p].phase = "reading" /\ \A i \in Catalogued : i <= rebuild[p].last
        /\ whole' = IF cleared = p THEN "yes" ELSE whole
    BY <1>7 DEF Complete
  <2>5. rebuild[p].last \in Int /\ \A i \in Catalogued : i \in Int
    BY <1>a, <1>b, ConstantsAssumption DEF Rebuild, Ids
  <2>6. CASE cleared = p
    <3>1. ASSUME NEW i \in Catalogued PROVE entries[i][artifact[i]] > 0
      <4>1. CASE whole = "yes"
        BY <4>1
      <4>2. CASE whole = "no"
        <5>1. Underway(cleared)
          BY <2>4, <2>6
        <5>2. Filled(cleared, i)
          BY <4>2, <5>1
        <5>3. ~(i > rebuild[cleared].last)
          BY <2>4, <2>5, <2>6
        <5> QED
          BY <5>2, <5>3, <2>4, <2>6
      <4> QED
        BY <4>1, <4>2, <1>a
    <3>2. whole' = "yes"
      BY <2>4, <2>6
    <3>3. rebuild'[p].phase # "begun"
      BY <2>1
    <3> QED
      BY <2>2, <2>3, <3>1, <3>2, <3>3
  <2>7. CASE cleared # p
    <3>1. whole' = whole
      BY <2>4, <2>7
    <3>2. whole = "no" => cleared \in Rebuilds /\ rebuild'[cleared] = rebuild[cleared]
      BY <1>d, <2>2, <2>7
    <3> QED
      BY <2>1, <2>2, <2>3, <3>1, <3>2
  <2> QED
    BY <2>6, <2>7
<1>8. ASSUME NEW p \in Rebuilds, Stop(p) PROVE FillInv'
  <2>1. rebuild'[p].phase = "idle"
    BY <1>8, <1>a DEF Stop, NoRebuild
  <2>2. \A r \in Rebuilds : r # p => rebuild'[r] = rebuild[r]
    BY <1>8, <1>a DEF Stop
  <2> QED
    BY <1>8, <2>1, <2>2 DEF Stop, catalogVars, searchVars, Catalogued
<1>9. ASSUME NEW q \in Retrievals,
             \/ \E hits \in SUBSET Found : Search(q, hits)
             \/ Compare(q) \/ Mark(q) \/ Invalidate(q)
             \/ \E dropped \in SUBSET Ids : Load(q, dropped)
             \/ Replace(q) \/ EndRetrieval(q)
      PROVE  FillInv'
  <2>1. UNCHANGED <<catalogVars, searchVars, rebuild>>
    BY <1>9 DEF Search, Compare, Mark, Invalidate, Load, Replace, EndRetrieval
  <2> QED
    BY <2>1 DEF catalogVars, searchVars, Catalogued
<1>10. ASSUME ClearRag \/ UNCHANGED vars PROVE FillInv'
  BY <1>10 DEF ClearRag, vars, catalogVars, searchVars, Catalogued
<1> QED
  BY <1>1, <1>2, <1>3, <1>4, <1>5, <1>6, <1>7, <1>8, <1>9, <1>10, Steps

(* However many rebuilds, ingests and forgets interleave, an artifact of   *)
(* the catalog is missing from the search table only while the rebuild     *)
(* that emptied it last has not completed.                                 *)
THEOREM EverythingSearchable == Spec => []Searchable
<1>1. Init => TypeOK /\ FillInv
  BY InitTypes, InitFills
<1>2. TypeOK /\ FillInv /\ [Next]_vars => (TypeOK /\ FillInv)'
  BY StepTypes, StepFills
<1>3. FillInv => Searchable
  BY DEF FillInv
<1> QED
  BY <1>1, <1>2, <1>3, PTL DEF Spec
-----------------------------------------------------------------------------
(* A retrieval that has the index to itself.  What it holds at each point  *)
(* was in the catalog at some time since it began.                         *)
CitesInv ==
  \A q \in Retrievals :
    /\ retrieval[q].phase # "idle" => Catalogued \subseteq known[q]
    /\ retrieval[q].phase \in {"searched", "compared", "marked", "invalidated"} =>
         retrieval[q].hits \subseteq known[q]
    /\ retrieval[q].phase = "compared" => Ids \ retrieval[q].stale \subseteq known[q]
    /\ retrieval[q].phase = "marked" => chunks \ retrieval[q].stale \subseteq known[q]
    /\ retrieval[q].phase = "invalidated" => chunks \subseteq known[q]
    /\ retrieval[q].phase \in {"loaded", "answering"} =>
         retrieval[q].memory \subseteq known[q]

LEMMA StepCites ==
  ASSUME SingleRetrieval
  PROVE  TypeOK /\ CitesInv /\ [Next]_vars => CitesInv'
<1> SUFFICES ASSUME TypeOK, CitesInv, [Next]_vars PROVE CitesInv'
  OBVIOUS
<1>a. /\ chunks \in SUBSET Ids /\ retrieval \in [Retrievals -> Retrieval]
      /\ known \in [Retrievals -> SUBSET Ids] /\ artifact \in [Ids -> Stored]
  BY DEF TypeOK
<1>b. \A q, r \in Retrievals : q = r
  BY DEF SingleRetrieval
<1>1. ASSUME NEW i \in Ids, NEW c \in Contents, Ingest(i, c) PROVE CitesInv'
  <2>1. \A q \in Retrievals : known'[q] = known[q] \cup {i}
    BY <1>1, <1>a DEF Ingest
  <2>2. Catalogued' \subseteq Catalogued \cup {i}
    BY <1>1, <1>a DEF Ingest, Catalogued
  <2>3. UNCHANGED <<retrieval, chunks>>
    BY <1>1 DEF Ingest
  <2> QED
    BY <2>1, <2>2, <2>3 DEF CitesInv
<1>2. ASSUME NEW S \in SUBSET Catalogued, NEW T \in SUBSET S, Forget(S, T) PROVE CitesInv'
  <2>1. Catalogued' \subseteq Catalogued /\ chunks' \subseteq chunks
    BY <1>2, <1>a DEF Forget, Catalogued
  <2>2. UNCHANGED <<retrieval, known>>
    BY <1>2 DEF Forget
  <2> QED
    BY <2>1, <2>2 DEF CitesInv
<1>3. ASSUME NEW p \in Rebuilds,
             \/ Begin(p) \/ Clear(p) \/ ReadChunk(p)
             \/ InsertChunk(p) \/ Complete(p) \/ Stop(p)
      PROVE  CitesInv'
  <2>1. UNCHANGED <<artifact, retrieval, chunks, known>>
    BY <1>3 DEF Begin, Clear, ReadChunk, InsertChunk, Complete, Stop, catalogVars
  <2> QED
    BY <2>1 DEF CitesInv, Catalogued
<1>4. ASSUME NEW q \in Retrievals, NEW hits \in SUBSET Found, Search(q, hits) PROVE CitesInv'
  <2>1. retrieval'[q] = [phase |-> "searched", hits |-> hits, stale |-> {}, memory |-> {}]
    BY <1>4, <1>a DEF Search, Step
  <2>2. known'[q] = Catalogued /\ Catalogued' = Catalogued
    BY <1>4, <1>a DEF Search, catalogVars, Catalogued
  <2>3. hits \subseteq Catalogued
    BY DEF Found
  <2> QED
    BY <1>b, <2>1, <2>2, <2>3 DEF CitesInv
<1>5. ASSUME NEW q \in Retrievals, Compare(q) PROVE CitesInv'
  <2>1. /\ retrieval[q].phase = "searched" /\ retrieval'[q].phase = "compared"
        /\ retrieval'[q].hits = retrieval[q].hits /\ retrieval'[q].stale = Ids \ Catalogued
    BY <1>5, <1>a DEF Compare, Step, Retrieval
  <2>2. UNCHANGED <<known, chunks>> /\ Catalogued' = Catalogued
    BY <1>5 DEF Compare, catalogVars, Catalogued
  <2>3. Catalogued \subseteq known[q] /\ retrieval[q].hits \subseteq known[q]
    BY <2>1 DEF CitesInv
  <2> QED
    BY <1>b, <2>1, <2>2, <2>3 DEF CitesInv
<1>6. ASSUME NEW q \in Retrievals, Mark(q) PROVE CitesInv'
  <2>1. /\ retrieval[q].phase = "compared" /\ retrieval'[q].phase = "marked"
        /\ retrieval'[q].hits = retrieval[q].hits
        /\ retrieval'[q].stale = retrieval[q].stale \cap chunks
    BY <1>6, <1>a DEF Mark, Step, Retrieval
  <2>2. UNCHANGED <<known, chunks>> /\ Catalogued' = Catalogued
    BY <1>6 DEF Mark, catalogVars, Catalogued
  <2>3. /\ Catalogued \subseteq known[q] /\ retrieval[q].hits \subseteq known[q]
        /\ chunks \ retrieval'[q].stale \subseteq known[q]
    BY <2>1, <1>a DEF CitesInv
  <2> QED
    BY <1>b, <2>1, <2>2, <2>3 DEF CitesInv
<1>7. ASSUME NEW q \in Retrievals, Invalidate(q) PROVE CitesInv'
  <2>1. /\ retrieval[q].phase = "marked" /\ retrieval'[q].phase = "invalidated"
        /\ retrieval'[q].hits = retrieval[q].hits
    BY <1>7, <1>a DEF Invalidate, Step, Retrieval
  <2>2. chunks' = chunks \ retrieval[q].stale /\ known' = known /\ Catalogued' = Catalogued
    BY <1>7 DEF Invalidate, catalogVars, Catalogued
  <2>3. /\ Catalogued \subseteq known[q] /\ retrieval[q].hits \subseteq known[q]
        /\ chunks' \subseteq known[q]
    BY <2>1, <2>2, <1>a DEF CitesInv
  <2> QED
    BY <1>b, <2>1, <2>2, <2>3 DEF CitesInv
<1>8. ASSUME NEW q \in Retrievals, NEW dropped \in SUBSET Ids, Load(q, dropped) PROVE CitesInv'
  <2>1. /\ retrieval[q].phase = "invalidated" /\ retrieval'[q].phase = "loaded"
        /\ retrieval'[q].memory = (chunks \cup retrieval[q].hits) \ dropped
    BY <1>8, <1>a DEF Load, Step, Retrieval
  <2>2. UNCHANGED <<known, chunks>> /\ Catalogued' = Catalogued
    BY <1>8 DEF Load, catalogVars, Catalogued
  <2>3. Catalogued \subseteq known[q] /\ retrieval'[q].memory \subseteq known[q]
    BY <2>1 DEF CitesInv
  <2> QED
    BY <1>b, <2>1, <2>2, <2>3 DEF CitesInv
<1>9. ASSUME NEW q \in Retrievals, Replace(q) PROVE CitesInv'
  <2>1. /\ retrieval[q].phase = "loaded" /\ retrieval'[q].phase = "answering"
        /\ retrieval'[q].memory = retrieval[q].memory
    BY <1>9, <1>a DEF Replace, Step, Retrieval
  <2>2. known' = known /\ Catalogued' = Catalogued
    BY <1>9 DEF Replace, catalogVars, Catalogued
  <2>3. Catalogued \subseteq known[q] /\ retrieval[q].memory \subseteq known[q]
    BY <2>1 DEF CitesInv
  <2> QED
    BY <1>b, <2>1, <2>2, <2>3 DEF CitesInv
<1>10. ASSUME NEW q \in Retrievals, EndRetrieval(q) PROVE CitesInv'
  <2>1. retrieval'[q].phase = "idle"
    BY <1>10, <1>a DEF EndRetrieval, Step, NoRetrieval
  <2> QED
    BY <1>b, <2>1 DEF CitesInv
<1>11. ASSUME ClearRag \/ UNCHANGED vars PROVE CitesInv'
  <2>1. chunks' \subseteq chunks /\ UNCHANGED <<artifact, retrieval, known>>
    BY <1>11 DEF ClearRag, vars, catalogVars
  <2> QED
    BY <2>1 DEF CitesInv, Catalogued
<1> QED
  BY <1>1, <1>2, <1>3, <1>4, <1>5, <1>6, <1>7, <1>8, <1>9, <1>10, <1>11,
     Steps

(* With one retrieval at a time, an answer cites only what was in the      *)
(* catalog since the retrieval began, whatever is collected, forgotten and *)
(* rebuilt meanwhile.                                                      *)
THEOREM AnswersFromCatalog ==
  ASSUME SingleRetrieval
  PROVE  Spec => []CitesKnown
<1>1. Init => TypeOK /\ CitesInv
  BY InitTypes DEF Init, CitesInv, NoRetrieval
<1>2. TypeOK /\ CitesInv /\ [Next]_vars => (TypeOK /\ CitesInv)'
  BY StepTypes, StepCites
<1>3. CitesInv => CitesKnown
  BY DEF CitesInv, CitesKnown
<1> QED
  BY <1>1, <1>2, <1>3, PTL DEF Spec
-----------------------------------------------------------------------------
(* A rebuild that nobody disturbs.  The table has one row for each artifact*)
(* it has passed, save those of the chunk in hand.                         *)
InHand(p, i, c) ==
  rebuild[p].phase = "inserting" /\ [id |-> i, content |-> c] \in rebuild[p].rows

Written(p, i, c) ==
  artifact[i] = c /\ i <= rebuild[p].last /\ ~InHand(p, i, c)

ExactAt(p) ==
  /\ rebuild[p].phase \in {"reading", "inserting", "done"} =>
       \A i \in Ids, c \in Contents :
         entries[i][c] = IF Written(p, i, c) THEN 1 ELSE 0
  /\ rebuild[p].phase = "inserting" =>
       \A i \in Ids, c \in Contents :
         InHand(p, i, c) => artifact[i] = c /\ i <= rebuild[p].last
  /\ rebuild[p].phase = "done" => \A i \in Catalogued : i <= rebuild[p].last

ExactInv ==
  \A p \in Rebuilds :
    /\ rebuild[p].phase = "begun" => rebuild[p].last = 0
    /\ quiet[p] = "yes" => ExactAt(p)

(* A step that leaves the catalog, the table and a rebuild alone.          *)
LEMMA ExactStays ==
  ASSUME NEW p \in Rebuilds, ExactAt(p), rebuild'[p] = rebuild[p],
         UNCHANGED <<artifact, entries>>
  PROVE  ExactAt(p)'
  BY DEF ExactAt, InHand, Written, Catalogued

LEMMA StepExact == TypeOK /\ ExactInv /\ [Next]_vars => ExactInv'
<1> SUFFICES ASSUME TypeOK, ExactInv, [Next]_vars PROVE ExactInv'
  OBVIOUS
<1>a. /\ artifact \in [Ids -> Stored] /\ entries \in [Ids -> [Contents -> Nat]]
      /\ rebuild \in [Rebuilds -> Rebuild] /\ quiet \in [Rebuilds -> {"yes", "no"}]
  BY DEF TypeOK
<1>b. \A p \in Rebuilds : /\ rebuild[p].phase = "begun" => rebuild[p].last = 0
                          /\ quiet[p] = "yes" => ExactAt(p)
  BY DEF ExactInv
<1>c. \A i \in Ids : i \in Int /\ i > 0
  BY ConstantsAssumption DEF Ids
<1>d. \A p \in Rebuilds : rebuild[p].last \in Int
  BY <1>a, ConstantsAssumption DEF Rebuild
<1>e. None \notin Contents
  BY ConstantsAssumption
<1>1. ASSUME Disturb({}), rebuild' = rebuild PROVE ExactInv'
  <2>1. \A p \in Rebuilds : quiet'[p] = "no"
    BY <1>1 DEF Disturb
  <2> QED
    BY <1>1, <1>b, <2>1 DEF ExactInv
<1>2. ASSUME NEW p \in Rebuilds, Begin(p) PROVE ExactInv'
  <2>1. rebuild'[p] = [phase |-> "begun", last |-> 0, rows |-> {}]
    BY <1>2, <1>a DEF Begin, NoRebuild
  <2>2. ExactAt(p)'
    BY <2>1 DEF ExactAt
  <2>3. ASSUME NEW r \in Rebuilds, r # p
        PROVE  rebuild'[r] = rebuild[r] /\ quiet'[r] = quiet[r]
    BY <1>2, <1>a, <2>3 DEF Begin
  <2>4. UNCHANGED <<artifact, entries>>
    BY <1>2 DEF Begin, catalogVars, searchVars
  <2>5. ASSUME NEW r \in Rebuilds, r # p, quiet'[r] = "yes" PROVE ExactAt(r)'
    BY <1>b, <2>3, <2>4, <2>5, ExactStays
  <2> QED
    BY <1>b, <2>1, <2>2, <2>3, <2>5 DEF ExactInv
<1>3. ASSUME NEW p \in Rebuilds, Clear(p) PROVE ExactInv'
  <2>1. rebuild'[p].phase = "reading" /\ rebuild'[p].last = 0
    BY <1>3, <1>a, <1>b DEF Clear, Rebuild
  <2>2. \A i \in Ids, c \in Contents : entries'[i][c] = 0
    BY <1>3 DEF Clear
  <2>3. ExactAt(p)'
    BY <1>c, <2>1, <2>2 DEF ExactAt, Written
  <2>4. \A r \in Rebuilds : r # p => rebuild'[r] = rebuild[r] /\ quiet'[r] = "no"
    BY <1>3, <1>a DEF Clear, Disturb
  <2> QED
    BY <1>b, <2>1, <2>3, <2>4 DEF ExactInv
<1>4. ASSUME NEW p \in Rebuilds, ReadChunk(p) PROVE ExactInv'
  <2>1. PICK k \in Catalogued :
          /\ rebuild[p].last < k
          /\ rebuild' = [rebuild EXCEPT ![p] =
               [phase |-> "inserting", last |-> k,
                rows |-> {r \in Row : r.id \in Ahead(p, k) /\ r.content = artifact[r.id]}]]
    BY <1>4 DEF ReadChunk
  <2>2. /\ rebuild'[p].phase = "inserting" /\ rebuild'[p].last = k
        /\ rebuild'[p].rows = {r \in Row : r.id \in Ahead(p, k) /\ r.content = artifact[r.id]}
    BY <2>1, <1>a
  <2>3. \A r \in Rebuilds : r # p => rebuild'[r] = rebuild[r]
    BY <2>1, <1>a
  <2>4. UNCHANGED <<artifact, entries, quiet>> /\ Catalogued' = Catalogued
    BY <1>4 DEF ReadChunk, catalogVars, searchVars, Catalogued
  <2>5. \A r \in Rebuilds : r # p /\ quiet'[r] = "yes" => ExactAt(r)'
    BY <1>b, <2>3, <2>4, ExactStays
  <2>6. k \in Int
    BY <1>c DEF Catalogued
  <2>7. rebuild[p].phase = "reading"
    BY <1>4 DEF ReadChunk
  <2>8. ASSUME NEW i \in Ids, NEW c \in Contents
        PROVE  InHand(p, i, c)' <=> artifact[i] = c /\ rebuild[p].last < i /\ i <= k
    <3>1. [id |-> i, content |-> c] \in Row
      BY DEF Row
    <3>2. artifact[i] = c => i \in Catalogued
      BY <1>e DEF Catalogued
    <3> QED
      BY <2>2, <3>1, <3>2 DEF InHand, Ahead
  <2>9. ASSUME quiet'[p] = "yes" PROVE ExactAt(p)'
    <3>1. \A i \in Ids, c \in Contents :
            entries[i][c] = IF artifact[i] = c /\ i <= rebuild[p].last THEN 1 ELSE 0
      <4>1. ExactAt(p)
        BY <1>b, <2>4, <2>9
      <4>2. \A i \in Ids, c \in Contents :
              Written(p, i, c) <=> artifact[i] = c /\ i <= rebuild[p].last
        BY <2>7 DEF Written, InHand
      <4> QED
        BY <2>7, <4>1, <4>2 DEF ExactAt
    <3>2. ASSUME NEW i \in Ids, NEW c \in Contents
          PROVE  Written(p, i, c)' <=> artifact[i] = c /\ i <= rebuild[p].last
      BY <1>c, <1>d, <2>1, <2>2, <2>4, <2>6, <2>8 DEF Written
    <3>3. \A i \in Ids, c \in Contents : entries'[i][c] = IF Written(p, i, c)' THEN 1 ELSE 0
      BY <2>4, <3>1, <3>2
    <3>4. \A i \in Ids, c \in Contents :
            InHand(p, i, c)' => artifact'[i] = c /\ i <= rebuild'[p].last
      BY <2>2, <2>4, <2>8
    <3> QED
      BY <2>2, <3>3, <3>4 DEF ExactAt
  <2> QED
    BY <1>b, <2>2, <2>3, <2>5, <2>9 DEF ExactInv
<1>5. ASSUME NEW p \in Rebuilds, InsertChunk(p) PROVE ExactInv'
  <2>1. /\ rebuild[p].phase = "inserting" /\ rebuild'[p].phase = "reading"
        /\ rebuild'[p].last = rebuild[p].last
    BY <1>5, <1>a DEF InsertChunk, Rebuild
  <2>2. \A r \in Rebuilds : r # p => rebuild'[r] = rebuild[r] /\ quiet'[r] = "no"
    BY <1>5, <1>a DEF InsertChunk, Disturb
  <2>3. artifact' = artifact /\ quiet'[p] = quiet[p]
    BY <1>5, <1>a DEF InsertChunk, catalogVars, Disturb
  <2>4. \A i \in Ids, c \in Contents :
          entries'[i][c] = IF InHand(p, i, c) THEN entries[i][c] + 1 ELSE entries[i][c]
    BY <1>5, <2>1 DEF InsertChunk, InHand
  <2>5. ASSUME quiet'[p] = "yes" PROVE ExactAt(p)'
    <3>1. /\ \A i \in Ids, c \in Contents :
               entries[i][c] = IF Written(p, i, c) THEN 1 ELSE 0
          /\ \A i \in Ids, c \in Contents :
               InHand(p, i, c) => artifact[i] = c /\ i <= rebuild[p].last
      BY <1>b, <2>1, <2>3, <2>5 DEF ExactAt
    <3>2. \A i \in Ids, c \in Contents :
            Written(p, i, c)' <=> artifact[i] = c /\ i <= rebuild[p].last
      BY <2>1, <2>3 DEF Written, InHand
    <3>3. \A i \in Ids, c \in Contents :
            entries'[i][c] = IF artifact[i] = c /\ i <= rebuild[p].last THEN 1 ELSE 0
      BY <2>4, <3>1 DEF Written
    <3> QED
      BY <2>1, <3>2, <3>3 DEF ExactAt
  <2> QED
    BY <1>b, <2>1, <2>2, <2>5 DEF ExactInv
<1>6. ASSUME NEW p \in Rebuilds, Complete(p) PROVE ExactInv'
  <2>1. /\ rebuild[p].phase = "reading" /\ rebuild'[p].phase = "done"
        /\ rebuild'[p].last = rebuild[p].last
        /\ \A i \in Catalogued : i <= rebuild[p].last
    BY <1>6, <1>a DEF Complete, Rebuild
  <2>2. \A r \in Rebuilds : r # p => rebuild'[r] = rebuild[r]
    BY <1>6, <1>a DEF Complete
  <2>3. UNCHANGED <<artifact, entries, quiet>> /\ Catalogued' = Catalogued
    BY <1>6 DEF Complete, catalogVars, Catalogued
  <2>4. \A r \in Rebuilds : r # p /\ quiet'[r] = "yes" => ExactAt(r)'
    BY <1>b, <2>2, <2>3, ExactStays
  <2>5. ASSUME quiet'[p] = "yes" PROVE ExactAt(p)'
    <3>1. ExactAt(p)
      BY <1>b, <2>3, <2>5
    <3>2. \A i \in Ids, c \in Contents : Written(p, i, c)' <=> Written(p, i, c)
      BY <2>1, <2>3 DEF Written, InHand
    <3> QED
      BY <2>1, <2>3, <3>1, <3>2 DEF ExactAt
  <2> QED
    BY <1>b, <2>1, <2>2, <2>4, <2>5 DEF ExactInv
<1>7. ASSUME NEW p \in Rebuilds, Stop(p) PROVE ExactInv'
  <2>1. rebuild'[p].phase = "idle"
    BY <1>7, <1>a DEF Stop, NoRebuild
  <2>2. \A r \in Rebuilds : r # p => rebuild'[r] = rebuild[r]
    BY <1>7, <1>a DEF Stop
  <2>3. UNCHANGED <<artifact, entries, quiet>>
    BY <1>7 DEF Stop, catalogVars, searchVars
  <2>4. \A r \in Rebuilds : r # p /\ quiet'[r] = "yes" => ExactAt(r)'
    BY <1>b, <2>2, <2>3, ExactStays
  <2>5. ExactAt(p)'
    BY <2>1 DEF ExactAt
  <2> QED
    BY <1>b, <2>1, <2>2, <2>4, <2>5 DEF ExactInv
<1>8. ASSUME UNCHANGED <<artifact, entries, rebuild, quiet>> PROVE ExactInv'
  BY <1>8, <1>b, ExactStays DEF ExactInv
<1> QED
  <2>1. ASSUME NEW q \in Retrievals,
               \/ \E hits \in SUBSET Found : Search(q, hits)
               \/ Compare(q) \/ Mark(q) \/ Invalidate(q)
               \/ \E dropped \in SUBSET Ids : Load(q, dropped)
               \/ Replace(q) \/ EndRetrieval(q)
        PROVE  ExactInv'
    BY <2>1, <1>8 DEF Search, Compare, Mark, Invalidate, Load, Replace, EndRetrieval,
                      catalogVars, searchVars
  <2>2. ASSUME ClearRag \/ UNCHANGED vars PROVE ExactInv'
    BY <2>2, <1>8 DEF ClearRag, vars, catalogVars, searchVars
  <2>3. ASSUME NEW i \in Ids, NEW c \in Contents, Ingest(i, c) PROVE ExactInv'
    BY <2>3, <1>1 DEF Ingest
  <2>4. ASSUME NEW S \in SUBSET Catalogued, NEW T \in SUBSET S, Forget(S, T) PROVE ExactInv'
    BY <2>4, <1>1 DEF Forget
  <2> QED
    BY <1>2, <1>3, <1>4, <1>5, <1>6, <1>7, <2>1, <2>2, <2>3, <2>4, Steps

(* A rebuild during which nobody else wrote the search table leaves one    *)
(* row per artifact of the catalog, with what it says, and no other row.   *)
THEOREM QuietRebuildExact == Spec => []RebuildExact
<1>1. Init => TypeOK /\ ExactInv
  BY InitTypes DEF Init, ExactInv, ExactAt, NoRebuild
<1>2. TypeOK /\ ExactInv /\ [Next]_vars => (TypeOK /\ ExactInv)'
  BY StepTypes, StepExact
<1>3. TypeOK /\ ExactInv => RebuildExact
  <2> SUFFICES ASSUME TypeOK, ExactInv, NEW p \in Rebuilds,
                      rebuild[p].phase = "done", quiet[p] = "yes",
                      NEW i \in Ids, NEW c \in Contents
               PROVE  entries[i][c] = IF artifact[i] = c THEN 1 ELSE 0
    BY DEF RebuildExact
  <2>1. artifact[i] = c => i \in Catalogued
    BY ConstantsAssumption DEF Catalogued
  <2>2. ExactAt(p)
    BY DEF ExactInv
  <2>3. artifact[i] = c => Written(p, i, c)
    BY <2>1, <2>2 DEF ExactAt, Written, InHand
  <2> QED
    BY <2>2, <2>3 DEF ExactAt, Written
<1> QED
  BY <1>1, <1>2, <1>3, PTL DEF Spec
=============================================================================
