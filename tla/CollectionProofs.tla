-------------------------- MODULE CollectionProofs --------------------------
(***************************************************************************)
(* Proofs about Collection and, in the second part, about Discovery.  The  *)
(* two have their names apart, and no theorem is about both.               *)
(***************************************************************************)
EXTENDS Collection, Discovery, SequenceTheorems, NaturalsInduction, WellFoundedInduction, TLAPS

(* The inductive invariants.  TypeOK bounds versions by MaxVersions; this  *)
(* one says that whoever holds a version holds one the source had.         *)
Known(q) == \A i \in DOMAIN q : q[i].version <= Now /\ q[i].cursor <= Now

TaskKnown(w) == w.version <= Now /\ w.cursor <= Now /\ Known(w.loaded)

PassKnown(c) == c.start <= Now /\ Known(c.replay)

VersionsKnown ==
  /\ row <= Now
  /\ row # 0 => source[row] # Absent
  /\ cache # NoBatch => cache.version <= Now /\ cache.cursor <= Now
  /\ Known(queue)
  /\ \A s \in Sessions : TaskKnown(task[s]) /\ PassKnown(ctl[s])

-----------------------------------------------------------------------------
(* Lemmas about the operators.                                             *)

(* An element of a sequence with one more is that one or was there.        *)
LEMMA OneMore ==
  ASSUME NEW S, NEW q \in Seq(S), NEW x \in S
  PROVE  /\ Append(q, x) \in Seq(S)
         /\ \A i \in DOMAIN Append(q, x) :
              Append(q, x)[i] = x \/ \E j \in DOMAIN q : Append(q, x)[i] = q[j]
BY AppendProperties, LenProperties

(* The last batches are some of the batches, and at most OutboxCap.        *)
LEMMA LastBatchesPart ==
  ASSUME NEW q \in Seq(Batch)
  PROVE  /\ LastBatches(q) \in Seq(Batch)
         /\ Len(LastBatches(q)) <= OutboxCap
         /\ \A i \in DOMAIN LastBatches(q) : \E j \in DOMAIN q : LastBatches(q)[i] = q[j]
<1> DEFINE n == Len(q)
<1>1. n \in Nat /\ OutboxCap \in Nat \ {0} /\ DOMAIN q = 1..n
  BY ConstantsAssumption
<1>2. CASE n > OutboxCap
  <2> DEFINE k == n - OutboxCap
  <2>1. LastBatches(q) = SubSeq(q, k + 1, n) /\ k \in Nat /\ k + 1 \in Int /\ n \in Int
    BY <1>1, <1>2 DEF LastBatches
  <2>2. \A i \in k + 1 .. n : q[i] \in Batch
    BY <1>1, <2>1
  <2>3. /\ SubSeq(q, k + 1, n) \in Seq(Batch)
        /\ Len(SubSeq(q, k + 1, n)) = IF k + 1 <= n THEN n - (k + 1) + 1 ELSE 0
        /\ \A i \in 1 .. n - (k + 1) + 1 : SubSeq(q, k + 1, n)[i] = q[k + 1 + i - 1]
    BY <2>1, <2>2, SubSeqProperties
  <2>4. n - (k + 1) + 1 = OutboxCap /\ k + 1 <= n
    BY <1>1, <1>2
  <2>5. LastBatches(q) \in Seq(Batch) /\ Len(LastBatches(q)) = OutboxCap
    BY <2>1, <2>3, <2>4
  <2>6. \A i \in 1..OutboxCap : LastBatches(q)[i] = q[k + i] /\ k + i \in 1..n
    BY <1>1, <1>2, <2>1, <2>3, <2>4
  <2>7. DOMAIN LastBatches(q) = 1..OutboxCap
    BY <2>5
  <2> HIDE DEF k
  <2>8. ASSUME NEW i \in DOMAIN LastBatches(q)
        PROVE  \E j \in DOMAIN q : LastBatches(q)[i] = q[j]
    BY <1>1, <2>6, <2>7
  <2> QED
    BY <1>1, <2>5, <2>8
<1>3. CASE ~(n > OutboxCap)
  <2>1. LastBatches(q) = q
    BY <1>3 DEF LastBatches
  <2> QED
    BY <1>1, <1>3, <2>1
<1> QED
  BY <1>2, <1>3

(* A reversed sequence has the elements of the sequence.                   *)
LEMMA ReversePart ==
  ASSUME NEW q \in Seq(Batch)
  PROVE  /\ Reverse(q) \in Seq(Batch)
         /\ \A i \in DOMAIN Reverse(q) : \E j \in DOMAIN q : Reverse(q)[i] = q[j]
<1>1. Len(q) \in Nat /\ DOMAIN q = 1..Len(q)
  OBVIOUS
<1>2. Reverse(q) = [i \in 1..Len(q) |-> q[(Len(q) - i) + 1]]
  BY DEF Reverse
<1>3. \A i \in 1..Len(q) : (Len(q) - i) + 1 \in 1..Len(q) /\ q[(Len(q) - i) + 1] \in Batch
  BY <1>1
<1>4. Reverse(q) \in [1..Len(q) -> Batch]
  BY <1>2, <1>3
<1> QED
  BY <1>1, <1>2, <1>3, <1>4

-----------------------------------------------------------------------------
(* Type correctness.                                                       *)
LEMMA InitTypes == Init => TypeOK
<1> SUFFICES ASSUME Init PROVE TypeOK
  OBVIOUS
<1>1. Resting \in Task
  BY ConstantsAssumption DEF Resting, Task, Cursor, Version, Batch, Health
<1>2. Waiting \in Pass
  BY ConstantsAssumption DEF Waiting, Pass, Cursor, Version, Batch
<1>3. source \in Seq(Contents \cup {Absent}) /\ Now \in Version
  BY ConstantsAssumption DEF Init, Now, Version
<1> QED
  BY <1>1, <1>2, <1>3, ConstantsAssumption DEF Init, TypeOK, Cursor

(* What a task found is a batch; a task at rest and a waiting pass have    *)
(* the types of a task and a pass.                                         *)
LEMMA FoundBatch ==
  ASSUME TypeOK, NEW s \in Sessions
  PROVE  Found(s) \in Batch
BY DEF TypeOK, Task, Found, Batch

LEMMA RestTypes == Resting \in Task /\ Waiting \in Pass
<1>1. Resting \in Task
  BY ConstantsAssumption DEF Resting, Task, Cursor, Version, Batch, Health
<1>2. Waiting \in Pass
  BY ConstantsAssumption DEF Waiting, Pass, Cursor, Version, Batch
<1> QED
  BY <1>1, <1>2

(* Ingesting a batch that is known keeps the types of the catalog.         *)
CatalogTypes ==
  /\ seen \in SUBSET Version
  /\ row \in Cursor
  /\ artifact \in [Contents -> {"none", "Active", "Stale"}]
  /\ cursor \in Cursor
  /\ tombs \in SUBSET Contents
  /\ received \in Cursor

LEMMA IngestTypes ==
  ASSUME TypeOK, NEW b \in Batch, Ingest(b)
  PROVE  CatalogTypes'
<1>1. b.version \in Version /\ b.version \in Cursor /\ b.cursor \in Cursor
  BY ConstantsAssumption DEF Batch, Version, Cursor
<1>2. row' \in Cursor /\ cursor' \in Cursor /\ received' \in Cursor
  BY <1>1 DEF Ingest, TypeOK
<1>3. artifact' \in [Contents -> {"none", "Active", "Stale"}]
  BY DEF Ingest, TypeOK
<1> QED
  BY <1>2, <1>3 DEF Ingest, TypeOK, CatalogTypes

LEMMA StepTypes ==
  ASSUME TypeOK, VersionsKnown, [Next]_vars
  PROVE  TypeOK'
<1> USE DEF TypeOK
<1>1. ASSUME NEW c \in Contents \cup {Absent}, Change(c) PROVE TypeOK'
  <2>1. source' \in Seq(Contents \cup {Absent}) /\ Len(source') = Len(source) + 1
    BY <1>1 DEF Change
  <2>2. Now' \in Version
    BY <1>1, <2>1, ConstantsAssumption DEF Change, Now, Version
  <2> QED
    BY <1>1, <2>1, <2>2 DEF Change, agentVars, catalogVars
<1>2. CASE Notice
  BY <1>2 DEF Notice, agentVars, catalogVars, Now
<1>3. CASE Forget
  <2>1. row \in 1..Len(source) /\ row' \in Cursor
    BY <1>3, ConstantsAssumption DEF Forget, Cursor, Version, VersionsKnown, Now
  <2>2. source[row] \in Contents
    BY <1>3, <2>1 DEF Forget, VersionsKnown
  <2> QED
    BY <1>3, <2>1, <2>2 DEF Forget, agentVars, Now
<1>4. CASE AgentCrash
  <2>1. task' \in [Sessions -> Task]
    BY <1>4, RestTypes DEF AgentCrash
  <2>2. ctl' \in [Sessions -> Pass]
    <3>1. \A s \in Sessions : ctl[s] \in Pass
      OBVIOUS
    <3>2. \A s \in Sessions : [ctl[s] EXCEPT !.up = FALSE] \in Pass
      BY <3>1 DEF Pass
    <3> QED
      BY <1>4, <3>2 DEF AgentCrash
  <2>3. faults' \in 0..MaxFaults
    BY <1>4, ConstantsAssumption DEF AgentCrash, Fault
  <2> QED
    BY <1>4, <2>1, <2>2, <2>3 DEF AgentCrash, catalogVars, Now
<1>5. ASSUME NEW s \in Sessions, PassStep(s) PROVE TypeOK'
  <2>1. ctl[s] \in Pass /\ task[s] \in Task /\ Found(s) \in Batch
    BY FoundBatch
  <2>2. CASE BeginPass(s)
    <3>1. ctl'[s] \in Pass
      BY <2>2, RestTypes DEF BeginPass, Pass, Waiting
    <3> QED
      BY <2>2, <3>1 DEF BeginPass, agentVars, catalogVars, Now
  <2>3. CASE PersistNotices(s)
    <3>1. artifact' \in [Contents -> {"none", "Active", "Stale"}]
      BY <2>3 DEF PersistNotices, Marked
    <3>2. ctl'[s] \in Pass
      BY <2>1, <2>3 DEF PersistNotices, Pass
    <3>3. seen' \in SUBSET Version
      BY <2>1, <2>3 DEF PersistNotices, Pass
    <3> QED
      BY <2>3, <3>1, <3>2, <3>3 DEF PersistNotices, agentVars, Now
  <2>4. CASE Replay(s)
    <3>1. ctl'[s] \in Pass
      BY <2>1, <2>4, ReversePart DEF Replay, Pass
    <3> QED
      BY <2>4, <3>1 DEF Replay, agentVars, catalogVars, Now
  <2>5. CASE IngestReplayed(s)
    <3>1. Head(ctl[s].replay) \in Batch /\ Tail(ctl[s].replay) \in Seq(Batch)
      BY <2>1, <2>5 DEF IngestReplayed, Pass
    <3>2. ctl'[s] \in Pass
      BY <2>1, <2>5, <3>1 DEF IngestReplayed, Pass, Batch
    <3>3. CatalogTypes'
      BY <2>5, <3>1, IngestTypes DEF IngestReplayed
    <3> QED
      BY <2>5, <3>2, <3>3 DEF IngestReplayed, CatalogTypes, agentVars, Now
  <2>6. CASE SaveCursor(s)
    <3>1. cursor' \in Cursor
      BY <2>1, <2>6 DEF SaveCursor, Pass
    <3>2. ctl'[s] \in Pass
      <4>1. ctl'[s] = IF ctl[s].phase = "saving" THEN [ctl[s] EXCEPT !.phase = "replaying"]
                      ELSE Waiting
        BY <2>6 DEF SaveCursor
      <4>2. [ctl[s] EXCEPT !.phase = "replaying"] \in Pass
        BY <2>1 DEF Pass
      <4> HIDE DEF TypeOK
      <4> QED
        BY <4>1, <4>2, RestTypes
    <3> QED
      BY <2>6, <3>1, <3>2 DEF SaveCursor, agentVars, Now
  <2>7. CASE Ask(s)
    <3>1. ctl'[s] \in Pass
      BY <2>1, <2>7 DEF Ask, Pass
    <3>2. task'[s] \in Task
      BY <2>7, RestTypes DEF Ask, Task, Resting
    <3> QED
      BY <2>7, <3>1, <3>2 DEF Ask, catalogVars, Now
  <2>8. CASE IngestLive(s)
    <3>1. ctl'[s] \in Pass
      <4>1. task[s].cursor \in Cursor
        BY <2>1 DEF Task
      <4>2. ctl'[s] = [ctl[s] EXCEPT !.phase = "ending", !.next = task[s].cursor]
        BY <2>8 DEF IngestLive
      <4> HIDE DEF TypeOK
      <4> QED
        BY <2>1, <4>1, <4>2 DEF Pass
    <3>2. CatalogTypes'
      BY <2>1, <2>8, IngestTypes DEF IngestLive
    <3> QED
      BY <2>8, <3>1, <3>2, RestTypes DEF IngestLive, CatalogTypes, Now
  <2>9. CASE ReplayFails(s)
    <3>1. ctl'[s] \in Pass
      <4>1. ctl'[s] = [ctl[s] EXCEPT !.phase = "replaying", !.replay = << >>]
        BY <2>9 DEF ReplayFails
      <4>2. << >> \in Seq(Batch)
        OBVIOUS
      <4> HIDE DEF TypeOK
      <4> QED
        BY <2>1, <4>1, <4>2 DEF Pass
    <3>2. faults' \in 0..MaxFaults
      BY <2>9, ConstantsAssumption DEF ReplayFails, Fault
    <3> QED
      BY <2>9, <3>1, <3>2 DEF ReplayFails, agentVars, catalogVars, Now
  <2>10. CASE CollectFails(s)
    BY <2>10, RestTypes DEF CollectFails, agentVars, catalogVars, Now
  <2> QED
    BY <1>5, <2>2, <2>3, <2>4, <2>5, <2>6, <2>7, <2>8, <2>9, <2>10 DEF PassStep
<1>6. ASSUME NEW s \in Sessions, TaskStep(s) PROVE TypeOK'
  <2>1. task[s] \in Task /\ Found(s) \in Batch /\ Now \in Cursor
    BY FoundBatch, ConstantsAssumption DEF Cursor, Version
  <2>2. CASE Look(s)
    <3>1. task'[s] \in Task
      BY <2>1, <2>2 DEF Look, Task
    <3> QED
      BY <2>2, <3>1 DEF Look, catalogVars, Now
  <2>3. CASE ServeCached(s)
    <3>1. task'[s] \in Task
      <4>1. cache.version \in Version /\ cache.health \in Health
        BY <2>3 DEF ServeCached, Unchanged, Batch
      <4>2. task'[s] = [task[s] EXCEPT !.step = "done", !.version = cache.version,
                                       !.health = cache.health]
        BY <2>3 DEF ServeCached
      <4> HIDE DEF TypeOK
      <4> QED
        BY <2>1, <4>1, <4>2 DEF Task
    <3> QED
      BY <2>3, <3>1 DEF ServeCached, catalogVars, Now
  <2>4. CASE Discover(s)
    <3>1. task'[s] \in Task
      BY <2>1, <2>4 DEF Discover, Task
    <3> QED
      BY <2>4, <3>1 DEF Discover, catalogVars, Now
  <2>5. CASE SaveCache(s)
    <3>1. task'[s] \in Task
      BY <2>1, <2>5 DEF SaveCache, Task
    <3> QED
      BY <2>1, <2>5, <3>1 DEF SaveCache, catalogVars, Now
  <2>6. CASE LoadQueue(s)
    <3>1. task'[s] \in Task
      BY <2>1, <2>6 DEF LoadQueue, Task
    <3> QED
      BY <2>6, <3>1 DEF LoadQueue, catalogVars, Now
  <2>7. CASE StoreQueue(s)
    <3>1. task'[s] \in Task
      <4>1. task'[s] = [task[s] EXCEPT !.step = "done", !.loaded = << >>]
        BY <2>7 DEF StoreQueue
      <4>2. << >> \in Seq(Batch)
        OBVIOUS
      <4> HIDE DEF TypeOK
      <4> QED
        BY <2>1, <4>1, <4>2 DEF Task
    <3>2. Append(task[s].loaded, Found(s)) \in Seq(Batch)
      BY <2>1 DEF Task
    <3>3. queue' \in Seq(Batch) /\ Len(queue') <= OutboxCap
      BY <2>7, <3>2, LastBatchesPart DEF StoreQueue
    <3> QED
      BY <2>7, <3>1, <3>3 DEF StoreQueue, catalogVars, Now
  <2>8. CASE DropAnswer(s)
    BY <2>8, RestTypes DEF DropAnswer, catalogVars, Now
  <2> QED
    BY <1>6, <2>2, <2>3, <2>4, <2>5, <2>6, <2>7, <2>8 DEF TaskStep
<1>7. ASSUME NEW s \in Sessions, FaultStep(s) PROVE TypeOK'
  <2>1. task[s] \in Task /\ ctl[s] \in Pass
    OBVIOUS
  <2>2. Fault => faults' \in 0..MaxFaults
    BY ConstantsAssumption DEF Fault
  <2>3. Ignored => ignored' \in 0..MaxIgnored
    BY ConstantsAssumption DEF Ignored
  <2>4. CASE DiscoverFails(s)
    <3>1. task'[s] \in Task
      <4>1. task'[s] = IF cache = NoBatch THEN Resting
                       ELSE [task[s] EXCEPT !.step = "done", !.version = cache.version,
                                            !.cursor = cache.cursor, !.health = "Degraded"]
        BY <2>4 DEF DiscoverFails
      <4>2. cache # NoBatch => cache.version \in Version /\ cache.cursor \in Cursor
        BY DEF Batch
      <4> HIDE DEF TypeOK
      <4>3. CASE cache = NoBatch
        BY <4>1, <4>3, RestTypes
      <4>4. CASE cache # NoBatch
        <5>1. task'[s] = [task[s] EXCEPT !.step = "done", !.version = cache.version,
                                         !.cursor = cache.cursor, !.health = "Degraded"]
          BY <4>1, <4>4
        <5> QED
          BY <2>1, <4>2, <4>4, <5>1 DEF Task, Health
      <4> QED
        BY <4>3, <4>4
    <3> QED
      BY <2>2, <2>4, <3>1 DEF DiscoverFails, catalogVars, Now
  <2>5. CASE SaveCacheFails(s)
    <3>1. task'[s] \in Task
      BY <2>1, <2>5 DEF SaveCacheFails, Task
    <3> QED
      BY <2>3, <2>5, <3>1 DEF SaveCacheFails, catalogVars, Now
  <2>6. CASE StoreQueueFails(s)
    <3>1. task'[s] \in Task
      <4>1. task'[s] = [task[s] EXCEPT !.step = "done", !.loaded = << >>]
        BY <2>6 DEF StoreQueueFails
      <4>2. << >> \in Seq(Batch)
        OBVIOUS
      <4> HIDE DEF TypeOK
      <4> QED
        BY <2>1, <4>1, <4>2 DEF Task
    <3> QED
      BY <2>3, <2>6, <3>1 DEF StoreQueueFails, catalogVars, Now
  <2>7. CASE AnswerFails(s)
    BY <2>2, <2>7, RestTypes DEF AnswerFails, catalogVars, Now
  <2>8. CASE ControllerStops(s)
    BY <2>2, <2>8, RestTypes DEF ControllerStops, agentVars, catalogVars, Now
  <2> QED
    BY <1>7, <2>4, <2>5, <2>6, <2>7, <2>8 DEF FaultStep
<1>8. CASE UNCHANGED vars
  BY <1>8 DEF vars, agentVars, catalogVars, Now
<1> QED
  BY <1>1, <1>2, <1>3, <1>4, <1>5, <1>6, <1>7, <1>8 DEF Next

-----------------------------------------------------------------------------
(* What has been read somewhere is a version the source had.               *)
LEMMA StepKnown ==
  ASSUME TypeOK, TypeOK', VersionsKnown, [Next]_vars
  PROVE  VersionsKnown'
<1> USE DEF VersionsKnown
<1>a. Now \in Nat /\ Now >= 1 /\ row \in Nat
  BY ConstantsAssumption DEF TypeOK, Version, Cursor
<1>b. TaskKnown(Resting) /\ PassKnown(Waiting)
  BY <1>a DEF TaskKnown, PassKnown, Resting, Waiting, Known
<1>d. Version \subseteq Int /\ Cursor \subseteq Int
  BY ConstantsAssumption DEF Version, Cursor
<1>1. ASSUME NEW c \in Contents \cup {Absent}, Change(c) PROVE VersionsKnown'
  <2>1. Now' = Now + 1 /\ \A v \in 1..Now : source'[v] = source[v]
    BY <1>1 DEF Change, TypeOK, Now
  <2>2. \A v \in Int : v <= Now => v <= Now'
    BY <1>a, <2>1
  <2>3. ASSUME NEW q \in Seq(Batch), Known(q) PROVE Known(q)'
    <3>1. \A i \in DOMAIN q : q[i].version \in Int /\ q[i].cursor \in Int
      <4>1. \A i \in DOMAIN q : q[i] \in Batch
        OBVIOUS
      <4> QED
        BY <1>d, <4>1 DEF Batch
    <3> QED
      BY <2>2, <2>3, <3>1 DEF Known
  <2>4. ASSUME NEW s \in Sessions PROVE (TaskKnown(task[s]) /\ PassKnown(ctl[s]))'
    <3>1. /\ task[s].version \in Int /\ task[s].cursor \in Int /\ task[s].loaded \in Seq(Batch)
          /\ ctl[s].start \in Int /\ ctl[s].replay \in Seq(Batch)
      <4>1. task[s] \in Task /\ ctl[s] \in Pass
        BY DEF TypeOK
      <4> QED
        BY <1>d, <4>1 DEF Task, Pass
    <3>2. task'[s] = task[s] /\ ctl'[s] = ctl[s]
      BY <1>1 DEF Change, agentVars
    <3> QED
      BY <2>2, <2>3, <3>1, <3>2 DEF TaskKnown, PassKnown
  <2>5. (cache # NoBatch => cache.version <= Now /\ cache.cursor <= Now)'
    <3>1. cache # NoBatch => cache.version \in Int /\ cache.cursor \in Int
      BY <1>d DEF TypeOK, Batch
    <3>2. cache' = cache
      BY <1>1 DEF Change, agentVars
    <3> QED
      BY <2>2, <3>1, <3>2
  <2>6. row' = row /\ queue' = queue
    BY <1>1 DEF Change, agentVars, catalogVars
  <2>7. Known(queue)'
    BY <2>3, <2>6 DEF TypeOK
  <2>8. row' <= Now' /\ (row' # 0 => source'[row'] # Absent)
    BY <1>a, <2>1, <2>6
  <2> QED
    BY <2>4, <2>5, <2>7, <2>8
<1>2. CASE Notice
  BY <1>2 DEF Notice, agentVars, catalogVars, Now, TaskKnown, PassKnown, Known
<1>3. CASE Forget
  BY <1>3, <1>a DEF Forget, agentVars, Now, TaskKnown, PassKnown, Known
<1>4. CASE AgentCrash
  <2>1. ASSUME NEW s \in Sessions PROVE (TaskKnown(task[s]) /\ PassKnown(ctl[s]))'
    <3>1. ctl[s] \in Pass
      BY DEF TypeOK
    <3>2. ctl'[s] = [ctl[s] EXCEPT !.up = FALSE] /\ task'[s] = Resting /\ source' = source
      BY <1>4 DEF AgentCrash
    <3>3. ctl'[s].start = ctl[s].start /\ ctl'[s].replay = ctl[s].replay
      BY <3>1, <3>2 DEF Pass
    <3> QED
      BY <1>b, <3>2, <3>3 DEF TaskKnown, PassKnown, Known, Now
  <2> QED
    BY <1>4, <2>1 DEF AgentCrash, catalogVars, Now, Known
<1>5. ASSUME NEW s \in Sessions, PassStep(s) PROVE VersionsKnown'
  <2>1. ctl[s] \in Pass /\ task[s] \in Task /\ Found(s) \in Batch
    BY FoundBatch DEF TypeOK
  <2>2. CASE BeginPass(s)
    BY <2>2, <1>a DEF BeginPass, agentVars, catalogVars, TypeOK, Now, Waiting, TaskKnown,
       PassKnown, Known
  <2>3. CASE PersistNotices(s)
    BY <2>3 DEF PersistNotices, agentVars, TypeOK, Now, TaskKnown, PassKnown, Known, Pass
  <2>4. CASE Replay(s)
    BY <2>1, <2>4, ReversePart DEF Replay, agentVars, catalogVars, TypeOK, Now, TaskKnown,
       PassKnown, Known, Pass
  <2>5. CASE IngestReplayed(s)
    <3> DEFINE q == ctl[s].replay
    <3>1. q \in Seq(Batch) /\ q # << >> /\ Known(q)
      BY <2>1, <2>5 DEF IngestReplayed, Pass, PassKnown
    <3>2. Head(q).version <= Now /\ Known(Tail(q))
      BY <3>1 DEF Known
    <3>3. row' <= Now' /\ (row' # 0 => source'[row'] # Absent)
      BY <2>5, <3>2 DEF IngestReplayed, Ingest, Skipped, Now
    <3>4. ctl'[s].start = ctl[s].start /\ ctl'[s].replay = Tail(q)
      BY <2>1, <2>5 DEF IngestReplayed, TypeOK
    <3>5. \A r \in Sessions \ {s} : ctl'[r] = ctl[r]
      BY <2>5 DEF IngestReplayed, TypeOK
    <3>6. source' = source /\ cache' = cache /\ queue' = queue /\ task' = task
      BY <2>5 DEF IngestReplayed, agentVars
    <3> HIDE DEF q
    <3> QED
      BY <3>2, <3>3, <3>4, <3>5, <3>6 DEF Now, TaskKnown, PassKnown, Known
  <2>6. CASE SaveCursor(s)
    BY <2>1, <2>6, <1>b DEF SaveCursor, agentVars, TypeOK, Now, TaskKnown, PassKnown,
       Known, Pass
  <2>7. CASE Ask(s)
    BY <2>1, <2>7, <1>a DEF Ask, Resting, catalogVars, TypeOK, Now, TaskKnown, PassKnown,
       Known, Pass
  <2>8. CASE IngestLive(s)
    <3>1. row' <= Now' /\ (row' # 0 => source'[row'] # Absent)
      BY <2>8 DEF IngestLive, Ingest, Skipped, Found, Now, TaskKnown
    <3>2. ctl'[s].start = ctl[s].start /\ ctl'[s].replay = ctl[s].replay /\ task'[s] = Resting
      BY <2>1, <2>8 DEF IngestLive, TypeOK
    <3>3. \A r \in Sessions \ {s} : ctl'[r] = ctl[r] /\ task'[r] = task[r]
      BY <2>8 DEF IngestLive, TypeOK
    <3>4. source' = source /\ cache' = cache /\ queue' = queue
      BY <2>8 DEF IngestLive
    <3> QED
      BY <1>b, <3>1, <3>2, <3>3, <3>4 DEF Now, TaskKnown, PassKnown, Known
  <2>9. CASE ReplayFails(s)
    BY <2>1, <2>9 DEF ReplayFails, agentVars, catalogVars, TypeOK, Now, TaskKnown,
       PassKnown, Known, Pass
  <2>10. CASE CollectFails(s)
    BY <2>10, <1>b DEF CollectFails, agentVars, catalogVars, TypeOK, Now, TaskKnown,
       PassKnown, Known
  <2> QED
    BY <1>5, <2>2, <2>3, <2>4, <2>5, <2>6, <2>7, <2>8, <2>9, <2>10 DEF PassStep
<1>6. ASSUME NEW s \in Sessions, TaskStep(s) PROVE VersionsKnown'
  <2>1. task[s] \in Task /\ Found(s) \in Batch
    BY FoundBatch DEF TypeOK
  <2>2. CASE Look(s)
    BY <2>1, <2>2, <1>a DEF Look, catalogVars, TypeOK, Now, TaskKnown, PassKnown, Known,
       Task
  <2>3. CASE ServeCached(s)
    BY <2>1, <2>3 DEF ServeCached, Unchanged, catalogVars, TypeOK, Now, TaskKnown,
       PassKnown, Known, Task
  <2>4. CASE Discover(s)
    BY <2>1, <2>4, <1>a DEF Discover, catalogVars, TypeOK, Now, TaskKnown, PassKnown,
       Known, Task
  <2>5. CASE SaveCache(s)
    BY <2>1, <2>5 DEF SaveCache, Found, catalogVars, TypeOK, Now, TaskKnown, PassKnown,
       Known, Task
  <2>6. CASE LoadQueue(s)
    BY <2>1, <2>6 DEF LoadQueue, catalogVars, TypeOK, Now, TaskKnown, PassKnown, Known, Task
  <2>7. CASE StoreQueue(s)
    <3>1. Append(task[s].loaded, Found(s)) \in Seq(Batch)
      BY <2>1 DEF Task
    <3>2. Known(Append(task[s].loaded, Found(s)))
      BY <2>1 DEF Task, Known, TaskKnown, Found
    <3>3. Known(queue')
      BY <2>7, <3>1, <3>2, LastBatchesPart DEF StoreQueue, Known
    <3> QED
      BY <2>1, <2>7, <3>3 DEF StoreQueue, catalogVars, TypeOK, Now, TaskKnown, PassKnown,
         Known, Task
  <2>8. CASE DropAnswer(s)
    BY <2>8, <1>b DEF DropAnswer, catalogVars, TypeOK, Now, TaskKnown, PassKnown, Known
  <2> QED
    BY <1>6, <2>2, <2>3, <2>4, <2>5, <2>6, <2>7, <2>8 DEF TaskStep
<1>7. ASSUME NEW s \in Sessions, FaultStep(s) PROVE VersionsKnown'
  <2>1. task[s] \in Task /\ ctl[s] \in Pass
    BY DEF TypeOK
  <2>2. CASE DiscoverFails(s)
    BY <2>1, <2>2, <1>b DEF DiscoverFails, catalogVars, TypeOK, Now, TaskKnown, PassKnown,
       Known, Task
  <2>3. CASE SaveCacheFails(s)
    BY <2>1, <2>3 DEF SaveCacheFails, catalogVars, TypeOK, Now, TaskKnown, PassKnown,
       Known, Task
  <2>4. CASE StoreQueueFails(s)
    BY <2>1, <2>4 DEF StoreQueueFails, catalogVars, TypeOK, Now, TaskKnown, PassKnown,
       Known, Task
  <2>5. CASE AnswerFails(s)
    BY <2>5, <1>b DEF AnswerFails, catalogVars, TypeOK, Now, TaskKnown, PassKnown, Known
  <2>6. CASE ControllerStops(s)
    BY <2>6, <1>b DEF ControllerStops, agentVars, catalogVars, TypeOK, Now, TaskKnown,
       PassKnown, Known
  <2> QED
    BY <1>7, <2>2, <2>3, <2>4, <2>5, <2>6 DEF FaultStep
<1>8. CASE UNCHANGED vars
  BY <1>8 DEF vars, agentVars, catalogVars, Now, TaskKnown, PassKnown, Known
<1> QED
  BY <1>1, <1>2, <1>3, <1>4, <1>5, <1>6, <1>7, <1>8 DEF Next

-----------------------------------------------------------------------------
(* A cursor says no more than what is ingested.  A batch carries a cursor  *)
(* that is not newer than its contents, because the cursor was computed    *)
(* before the files were read, or one that the catalog had already.        *)
Honest(b) == b.cursor <= b.version \/ b.cursor <= received

HonestAll(q) == \A i \in DOMAIN q : Honest(q[i])

PassHonest(c) == c.next <= received /\ HonestAll(c.replay)

TaskHonest(w) ==
  /\ w.asked <= received
  /\ HonestAll(w.loaded)
  /\ w.step = "looked" => w.cursor <= Now
  /\ w.step \in {"discovered", "saved", "loaded", "done"} => Honest(w)

CursorsHonest ==
  /\ cursor <= received
  /\ cache # NoBatch => Honest(cache)
  /\ HonestAll(queue)
  /\ \A s \in Sessions : PassHonest(ctl[s]) /\ TaskHonest(task[s])

(* What is honest stays honest as the catalog ingests and the source       *)
(* changes.                                                                *)
LEMMA HonestStays ==
  ASSUME TypeOK, TypeOK', received <= received', Now <= Now'
  PROVE  /\ \A b \in Batch : Honest(b) => Honest(b)'
         /\ \A q \in Seq(Batch) : HonestAll(q) => HonestAll(q)'
         /\ \A c \in Pass : PassHonest(c) => PassHonest(c)'
         /\ \A w \in Task : TaskHonest(w) => TaskHonest(w)'
<1>1. /\ Version \subseteq Int /\ Cursor \subseteq Int
      /\ received \in Int /\ received' \in Int /\ Now \in Int /\ Now' \in Int
  BY ConstantsAssumption DEF Version, Cursor, TypeOK
<1>2. \A k \in Int : k <= received => k <= received'
  BY <1>1
<1>3. \A b \in Batch : Honest(b) => Honest(b)'
  BY <1>1, <1>2 DEF Honest, Batch
<1>4. ASSUME NEW q \in Seq(Batch), HonestAll(q) PROVE HonestAll(q)'
  <2>1. \A i \in DOMAIN q : q[i] \in Batch
    OBVIOUS
  <2> QED
    BY <1>3, <1>4, <2>1 DEF HonestAll
<1>5. \A c \in Pass : PassHonest(c) => PassHonest(c)'
  BY <1>1, <1>2, <1>4 DEF PassHonest, Pass
<1>6. ASSUME NEW w \in Task, TaskHonest(w) PROVE TaskHonest(w)'
  <2>1. /\ w.asked \in Int /\ w.cursor \in Int /\ w.version \in Int /\ w.loaded \in Seq(Batch)
    BY <1>1 DEF Task
  <2>2. w.asked <= received' /\ HonestAll(w.loaded)'
    BY <1>2, <1>4, <1>6, <2>1 DEF TaskHonest
  <2>3. w.step = "looked" => w.cursor <= Now'
    BY <1>1, <1>6, <2>1 DEF TaskHonest
  <2>4. w.step \in {"discovered", "saved", "loaded", "done"} => Honest(w)'
    BY <1>2, <1>6, <2>1 DEF TaskHonest, Honest
  <2> QED
    BY <2>2, <2>3, <2>4 DEF TaskHonest
<1> QED
  BY <1>3, <1>4, <1>5, <1>6

(* A step that leaves the catalog's cursor and the received version alone, *)
(* the files too, and changes one session only.                            *)
LEMMA HonestStep ==
  ASSUME TypeOK, TypeOK', CursorsHonest, NEW s \in Sessions,
         received <= received', Now <= Now', cursor' <= received',
         cache' # NoBatch => cache' = cache \/ Honest(cache)', HonestAll(queue)',
         PassHonest(ctl[s])', TaskHonest(task[s])',
         \A r \in Sessions \ {s} : ctl'[r] = ctl[r] /\ task'[r] = task[r]
  PROVE  CursorsHonest'
<1>1. cache' # NoBatch => Honest(cache)'
  BY HonestStays DEF CursorsHonest, TypeOK
<1>2. ASSUME NEW r \in Sessions \ {s}
      PROVE  (PassHonest(ctl[r]) /\ TaskHonest(task[r]))'
  <2>1. ctl[r] \in Pass /\ task[r] \in Task /\ PassHonest(ctl[r]) /\ TaskHonest(task[r])
    BY DEF TypeOK, CursorsHonest
  <2>2. PassHonest(ctl[r])' /\ TaskHonest(task[r])'
    <3>1. ctl'[r] = ctl[r] /\ task'[r] = task[r]
      OBVIOUS
    <3> QED
      BY <2>1, <3>1, HonestStays
  <2> QED
    BY <2>2
<1> QED
  BY <1>1, <1>2 DEF CursorsHonest

(* The head and the tail of honest batches are honest.                     *)
LEMMA HeadTailHonest ==
  ASSUME NEW q \in Seq(Batch), q # << >>, HonestAll(q)
  PROVE  /\ Head(q) \in Batch /\ Tail(q) \in Seq(Batch)
         /\ Honest(Head(q)) /\ HonestAll(Tail(q))
<1>1. Len(q) \in Nat \ {0} /\ DOMAIN q = 1..Len(q) /\ \A i \in DOMAIN q : q[i] \in Batch
  OBVIOUS
<1>2. /\ Tail(q) \in Seq(Batch) /\ Len(Tail(q)) = Len(q) - 1
      /\ \A i \in 1 .. Len(q) - 1 : Tail(q)[i] = q[i + 1]
  OBVIOUS
<1>3. ASSUME NEW i \in DOMAIN Tail(q) PROVE Honest(Tail(q)[i])
  <2>1. i + 1 \in DOMAIN q /\ Tail(q)[i] = q[i + 1]
    BY <1>1, <1>2
  <2> QED
    BY <2>1 DEF HonestAll
<1>4. Head(q) = q[1] /\ 1 \in DOMAIN q
  BY <1>1
<1> QED
  BY <1>1, <1>2, <1>3, <1>4 DEF HonestAll

(* Ingesting an honest batch keeps the cursor below what was received.     *)
LEMMA IngestHonest ==
  ASSUME TypeOK, NEW b \in Batch, Honest(b), Ingest(b)
  PROVE  received <= received' /\ cursor' <= received'
<1>1. received \in Int /\ b.version \in Int /\ b.cursor \in Int
  BY ConstantsAssumption DEF TypeOK, Batch, Version, Cursor
<1>2. received' = (IF b.version > received THEN b.version ELSE received) /\ cursor' = b.cursor
  BY DEF Ingest
<1> QED
  BY <1>1, <1>2 DEF Honest

LEMMA StepHonest ==
  ASSUME TypeOK, TypeOK', VersionsKnown, CursorsHonest, [Next]_vars
  PROVE  CursorsHonest'
<1>a. /\ Version \subseteq Int /\ Cursor \subseteq Int
      /\ received \in Nat /\ received' \in Nat /\ Now \in Nat /\ Now' \in Nat
      /\ cursor \in Int /\ cursor' \in Int
  BY ConstantsAssumption DEF Version, Cursor, TypeOK
<1>b. TaskHonest(Resting)' /\ PassHonest(Waiting)'
  BY <1>a DEF TaskHonest, PassHonest, Resting, Waiting, HonestAll
<1>c. HonestAll(<< >>)'
  BY DEF HonestAll
<1>d. ASSUME source' = source, received' = received
      PROVE  Now <= Now' /\ received <= received'
  BY <1>a, <1>d DEF Now
<1>e. cursor <= received /\ HonestAll(queue)
      /\ \A r \in Sessions : /\ ctl[r] \in Pass /\ task[r] \in Task
                             /\ PassHonest(ctl[r]) /\ TaskHonest(task[r])
  BY DEF CursorsHonest, TypeOK
<1>f. ASSUME received <= received', Now <= Now', queue' = queue
      PROVE  HonestAll(queue)'
  BY <1>e, <1>f, HonestStays DEF TypeOK
<1>g. ASSUME NEW s \in Sessions, received <= received', Now <= Now'
      PROVE  /\ ctl'[s] = ctl[s] => PassHonest(ctl[s])'
             /\ task'[s] = task[s] => TaskHonest(task[s])'
  BY <1>e, <1>g, HonestStays
<1>1. ASSUME NEW c \in Contents \cup {Absent}, Change(c) PROVE CursorsHonest'
  <2>1. Now' = Now + 1
    BY <1>1 DEF Change, TypeOK, Now
  <2>2. received <= received' /\ Now <= Now'
    BY <1>1, <1>a, <2>1 DEF Change, catalogVars
  <2>3. queue' = queue /\ cache' = cache /\ ctl' = ctl /\ task' = task /\ cursor' = cursor
        /\ received' = received
    BY <1>1 DEF Change, agentVars, catalogVars
  <2>4. HonestAll(queue)' /\ \A s \in Sessions : (PassHonest(ctl[s]) /\ TaskHonest(task[s]))'
    BY <1>f, <1>g, <2>2, <2>3
  <2>5. cache' # NoBatch => Honest(cache)'
    BY <2>3 DEF CursorsHonest, Honest
  <2> QED
    BY <1>e, <2>3, <2>4, <2>5 DEF CursorsHonest
<1>2. CASE Notice \/ Forget
  <2>1. /\ queue' = queue /\ cache' = cache /\ ctl' = ctl /\ task' = task /\ cursor' = cursor
        /\ received' = received /\ source' = source
    BY <1>2 DEF Notice, Forget, agentVars, catalogVars
  <2> QED
    BY <1>d, <1>e, <1>f, <1>g, <2>1 DEF CursorsHonest, Honest
<1>3. CASE AgentCrash
  <2>1. /\ queue' = queue /\ cache' = cache /\ cursor' = cursor
        /\ received' = received /\ source' = source
    BY <1>3 DEF AgentCrash, catalogVars
  <2>2. ASSUME NEW s \in Sessions PROVE (PassHonest(ctl[s]) /\ TaskHonest(task[s]))'
    <3>1. ctl'[s] = [ctl[s] EXCEPT !.up = FALSE] /\ task'[s] = Resting
      BY <1>3 DEF AgentCrash
    <3>2. ctl'[s].next = ctl[s].next /\ ctl'[s].replay = ctl[s].replay
      BY <1>e, <3>1 DEF Pass
    <3> QED
      BY <1>b, <1>e, <2>1, <3>1, <3>2 DEF PassHonest, HonestAll, Honest
  <2> QED
    BY <1>d, <1>e, <1>f, <2>1, <2>2 DEF CursorsHonest, Honest
<1>4. ASSUME NEW s \in Sessions, PassStep(s) PROVE CursorsHonest'
  <2> DEFINE Others == \A r \in Sessions \ {s} : ctl'[r] = ctl[r] /\ task'[r] = task[r]
  <2> USE DEF TypeOK
  <2>1. CASE BeginPass(s)
    <3>1. /\ source' = source /\ received' = received /\ cursor' = cursor
          /\ queue' = queue /\ cache' = cache /\ task' = task /\ Others
      BY <2>1 DEF BeginPass, agentVars, catalogVars
    <3>2. PassHonest(ctl[s])'
      BY <2>1, <1>a DEF BeginPass, Waiting, PassHonest, HonestAll
    <3> HIDE DEF TypeOK
    <3> QED
      BY <1>d, <1>e, <1>f, <1>g, <3>1, <3>2, HonestStep
  <2>2. CASE PersistNotices(s)
    <3>1. /\ source' = source /\ received' = received /\ cursor' = cursor
          /\ queue' = queue /\ cache' = cache /\ task' = task /\ Others
      BY <2>2 DEF PersistNotices, agentVars
    <3>2. ctl'[s].next = ctl[s].next /\ ctl'[s].replay = ctl[s].replay
      BY <1>e, <2>2 DEF PersistNotices, Pass
    <3>3. PassHonest(ctl[s])'
      BY <1>e, <3>1, <3>2 DEF PassHonest, HonestAll, Honest
    <3> HIDE DEF TypeOK
    <3> QED
      BY <1>d, <1>e, <1>f, <1>g, <3>1, <3>3, HonestStep
  <2>3. CASE Replay(s)
    <3>1. /\ source' = source /\ received' = received /\ cursor' = cursor
          /\ queue' = queue /\ cache' = cache /\ task' = task /\ Others
      BY <2>3 DEF Replay, agentVars, catalogVars
    <3>2. ctl'[s].next = ctl[s].next /\ ctl'[s].replay = Reverse(queue)
      BY <1>e, <2>3 DEF Replay, Pass
    <3>3. HonestAll(Reverse(queue))
      BY <1>e, ReversePart DEF HonestAll
    <3>4. PassHonest(ctl[s])'
      BY <1>e, <3>1, <3>2, <3>3 DEF PassHonest, HonestAll, Honest
    <3> HIDE DEF TypeOK
    <3> QED
      BY <1>d, <1>e, <1>f, <1>g, <3>1, <3>4, HonestStep
  <2>4. CASE IngestReplayed(s)
    <3>1. /\ ctl[s].replay \in Seq(Batch) /\ ctl[s].replay # << >>
          /\ HonestAll(ctl[s].replay)
      BY <1>e, <2>4 DEF IngestReplayed, Pass, PassHonest
    <3>2. PICK h \in Batch, t \in Seq(Batch) :
            /\ h = Head(ctl[s].replay) /\ t = Tail(ctl[s].replay)
            /\ Honest(h) /\ HonestAll(t)
      BY <3>1, HeadTailHonest
    <3>3. Ingest(h)
      BY <2>4, <3>2 DEF IngestReplayed
    <3>4. received <= received' /\ cursor' <= received' /\ cursor' = h.cursor
      BY <3>2, <3>3, IngestHonest DEF Ingest
    <3>5. ctl'[s].next = h.cursor /\ ctl'[s].replay = t
      BY <1>e, <2>4, <3>2 DEF IngestReplayed, Pass
    <3>6. /\ source' = source /\ queue' = queue /\ cache' = cache /\ task' = task /\ Others
      BY <2>4 DEF IngestReplayed, agentVars
    <3>7. Now <= Now'
      BY <1>a, <3>6 DEF Now
    <3>8. PassHonest(ctl[s])'
      <4>1. HonestAll(t)'
        BY <3>2, <3>4, <3>7, HonestStays
      <4> QED
        BY <3>4, <3>5, <4>1 DEF PassHonest
    <3> HIDE DEF TypeOK
    <3> QED
      BY <1>f, <1>g, <3>4, <3>6, <3>7, <3>8, HonestStep
  <2>5. CASE SaveCursor(s)
    <3>1. /\ source' = source /\ received' = received /\ cursor' = ctl[s].next
          /\ queue' = queue /\ cache' = cache /\ task' = task /\ Others
      BY <2>5 DEF SaveCursor, agentVars
    <3>2. ctl[s].next <= received
      BY <1>e DEF PassHonest
    <3>3. \/ ctl'[s] = Waiting
          \/ ctl'[s].next = ctl[s].next /\ ctl'[s].replay = ctl[s].replay
      BY <1>e, <2>5 DEF SaveCursor, Pass
    <3>4. PassHonest(ctl[s])'
      BY <1>b, <1>e, <3>1, <3>3 DEF PassHonest, HonestAll, Honest
    <3> HIDE DEF TypeOK
    <3> QED
      BY <1>d, <1>f, <1>g, <3>1, <3>2, <3>4, HonestStep
  <2>6. CASE Ask(s)
    <3>1. /\ source' = source /\ received' = received /\ cursor' = cursor
          /\ queue' = queue /\ cache' = cache /\ Others
      BY <2>6 DEF Ask, catalogVars
    <3>2. ctl'[s].next = ctl[s].next /\ ctl'[s].replay = ctl[s].replay
      BY <1>e, <2>6 DEF Ask, Pass
    <3>3. PassHonest(ctl[s])'
      BY <1>e, <3>1, <3>2 DEF PassHonest, HonestAll, Honest
    <3>4. TaskHonest(task[s])'
      BY <1>e, <2>6, <3>1 DEF Ask, Resting, TaskHonest, HonestAll
    <3> HIDE DEF TypeOK
    <3> QED
      BY <1>d, <1>e, <1>f, <1>g, <3>1, <3>3, <3>4, HonestStep
  <2>7. CASE IngestLive(s)
    <3>1. PICK b \in Batch, q \in Seq(Batch) :
            /\ b = Found(s) /\ Honest(b)
            /\ q = ctl[s].replay /\ HonestAll(q)
      <4>1. Honest(Found(s))
        BY <1>e, <2>7 DEF IngestLive, TaskHonest, Honest, Found
      <4> QED
        BY <1>e, <4>1, FoundBatch DEF Pass, PassHonest
    <3>2. Ingest(b)
      BY <2>7, <3>1 DEF IngestLive
    <3>3. received <= received' /\ cursor' <= received' /\ cursor' = b.cursor
      BY <3>1, <3>2, IngestHonest DEF Ingest
    <3>4. ctl'[s].next = b.cursor /\ ctl'[s].replay = q /\ task'[s] = Resting
      BY <1>e, <2>7, <3>1 DEF IngestLive, Pass, Found
    <3>5. /\ source' = source /\ queue' = queue /\ cache' = cache /\ Others
      BY <2>7 DEF IngestLive
    <3>6. Now <= Now'
      BY <1>a, <3>5 DEF Now
    <3>7. PassHonest(ctl[s])' /\ TaskHonest(task[s])'
      <4>1. HonestAll(q)'
        BY <3>1, <3>3, <3>6, HonestStays
      <4> QED
        BY <1>b, <3>3, <3>4, <4>1 DEF PassHonest
    <3> HIDE DEF TypeOK
    <3> QED
      BY <1>f, <3>3, <3>5, <3>6, <3>7, HonestStep
  <2>8. CASE ReplayFails(s)
    <3>1. /\ source' = source /\ received' = received /\ cursor' = cursor
          /\ queue' = queue /\ cache' = cache /\ task' = task /\ Others
      BY <2>8 DEF ReplayFails, agentVars, catalogVars
    <3>2. ctl'[s].next = ctl[s].next /\ ctl'[s].replay = << >>
      BY <1>e, <2>8 DEF ReplayFails, Pass
    <3>3. PassHonest(ctl[s])'
      BY <1>c, <1>e, <3>1, <3>2 DEF PassHonest
    <3> HIDE DEF TypeOK
    <3> QED
      BY <1>d, <1>e, <1>f, <1>g, <3>1, <3>3, HonestStep
  <2>9. CASE CollectFails(s)
    <3>1. /\ source' = source /\ received' = received /\ cursor' = cursor
          /\ queue' = queue /\ cache' = cache /\ task' = task /\ Others /\ ctl'[s] = Waiting
      BY <2>9 DEF CollectFails, agentVars, catalogVars
    <3>2. PassHonest(ctl[s])'
      BY <1>b, <3>1
    <3> HIDE DEF TypeOK
    <3> QED
      BY <1>d, <1>e, <1>f, <1>g, <3>1, <3>2, HonestStep
  <2> QED
    BY <1>4, <2>1, <2>2, <2>3, <2>4, <2>5, <2>6, <2>7, <2>8, <2>9 DEF PassStep
<1>5. ASSUME NEW s \in Sessions, TaskStep(s) PROVE CursorsHonest'
  <2> DEFINE Others == \A r \in Sessions \ {s} : ctl'[r] = ctl[r] /\ task'[r] = task[r]
  <2> USE DEF TypeOK
  <2>1. /\ source' = source /\ received' = received /\ cursor' = cursor /\ ctl' = ctl /\ Others
        /\ Now' = Now
    BY <1>5 DEF TaskStep, Look, ServeCached, Discover, SaveCache, LoadQueue, StoreQueue,
               DropAnswer, catalogVars, Now
  <2>2. /\ received <= received' /\ Now <= Now' /\ cursor' <= received' /\ PassHonest(ctl[s])'
    BY <1>d, <1>e, <1>g, <2>1
  <2>3. ASSUME queue' = queue, cache' = cache, TaskHonest(task[s])' PROVE CursorsHonest'
    <3> HIDE DEF TypeOK
    <3> QED
      BY <1>f, <2>1, <2>2, <2>3, HonestStep
  <2>4. task[s] \in Task /\ TaskHonest(task[s]) /\ HonestAll(task[s].loaded)
        /\ task[s].asked <= received
    BY <1>e DEF TaskHonest
  <2>5. CASE Look(s)
    <3>1. /\ task'[s].asked = task[s].asked /\ task'[s].loaded = task[s].loaded
          /\ task'[s].step = "looked" /\ task'[s].cursor = Now
          /\ queue' = queue /\ cache' = cache
      BY <2>4, <2>5 DEF Look, Task
    <3>2. TaskHonest(task[s])'
      BY <1>a, <2>1, <2>4, <3>1 DEF TaskHonest, HonestAll, Honest
    <3> QED
      BY <2>3, <3>1, <3>2
  <2>6. CASE ServeCached(s)
    <3>1. /\ task'[s].asked = task[s].asked /\ task'[s].loaded = task[s].loaded
          /\ task'[s].step = "done" /\ task'[s].cursor = task[s].asked
          /\ queue' = queue /\ cache' = cache
      BY <2>4, <2>6 DEF ServeCached, Unchanged, Task
    <3>2. TaskHonest(task[s])'
      BY <2>1, <2>4, <3>1 DEF TaskHonest, HonestAll, Honest
    <3> QED
      BY <2>3, <3>1, <3>2
  <2>7. CASE Discover(s)
    <3>1. /\ task'[s].asked = task[s].asked /\ task'[s].loaded = task[s].loaded
          /\ task'[s].step = "discovered" /\ task'[s].cursor = task[s].cursor
          /\ task'[s].version = Now /\ task[s].step = "looked"
          /\ queue' = queue /\ cache' = cache
      BY <2>4, <2>7 DEF Discover, Task
    <3>2. TaskHonest(task[s])'
      BY <2>1, <2>4, <3>1 DEF TaskHonest, HonestAll, Honest
    <3> QED
      BY <2>3, <3>1, <3>2
  <2>8. CASE SaveCache(s)
    <3>1. /\ task'[s].asked = task[s].asked /\ task'[s].loaded = task[s].loaded
          /\ task'[s].step = "saved" /\ task'[s].cursor = task[s].cursor
          /\ task'[s].version = task[s].version /\ task[s].step = "discovered"
          /\ queue' = queue /\ cache' = Found(s)
      BY <2>4, <2>8 DEF SaveCache, Task
    <3>2. TaskHonest(task[s])'
      BY <2>1, <2>4, <3>1 DEF TaskHonest, HonestAll, Honest
    <3>3. Honest(cache)'
      BY <2>1, <2>4, <3>1 DEF TaskHonest, Honest, Found
    <3> HIDE DEF TypeOK
    <3> QED
      BY <1>f, <2>1, <2>2, <3>1, <3>2, <3>3, HonestStep
  <2>9. CASE LoadQueue(s)
    <3>1. /\ task'[s].asked = task[s].asked /\ task'[s].loaded = queue
          /\ task'[s].step = "loaded" /\ task'[s].cursor = task[s].cursor
          /\ task'[s].version = task[s].version /\ task[s].step = "saved"
          /\ queue' = queue /\ cache' = cache
      BY <2>4, <2>9 DEF LoadQueue, Task
    <3>2. TaskHonest(task[s])'
      BY <1>e, <2>1, <2>4, <3>1 DEF TaskHonest, HonestAll, Honest
    <3> QED
      BY <2>3, <3>1, <3>2
  <2>10. CASE StoreQueue(s)
    <3>1. /\ task'[s].asked = task[s].asked /\ task'[s].loaded = << >>
          /\ task'[s].step = "done" /\ task'[s].cursor = task[s].cursor
          /\ task'[s].version = task[s].version /\ task[s].step = "loaded"
          /\ cache' = cache
          /\ queue' = LastBatches(Append(task[s].loaded, Found(s)))
      BY <2>4, <2>10 DEF StoreQueue, Task
    <3>2. TaskHonest(task[s])'
      BY <2>1, <2>4, <3>1 DEF TaskHonest, HonestAll, Honest
    <3>3. Honest(Found(s)) /\ Found(s) \in Batch /\ task[s].loaded \in Seq(Batch)
      BY <2>4, <3>1, FoundBatch DEF TaskHonest, Honest, Found, Task
    <3>4. /\ Append(task[s].loaded, Found(s)) \in Seq(Batch)
          /\ HonestAll(Append(task[s].loaded, Found(s)))
      <4>1. HonestAll(task[s].loaded)
        BY <2>4 DEF TaskHonest
      <4> HIDE DEF TypeOK
      <4> QED
        BY <3>3, <4>1, OneMore DEF HonestAll
    <3>5. HonestAll(queue)'
      BY <2>1, <3>1, <3>4, LastBatchesPart DEF HonestAll, Honest
    <3> HIDE DEF TypeOK
    <3> QED
      BY <2>1, <2>2, <3>1, <3>2, <3>5, HonestStep
  <2>11. CASE DropAnswer(s)
    BY <1>b, <2>3, <2>11 DEF DropAnswer
  <2> QED
    BY <1>5, <2>5, <2>6, <2>7, <2>8, <2>9, <2>10, <2>11 DEF TaskStep
<1>6. ASSUME NEW s \in Sessions, FaultStep(s) PROVE CursorsHonest'
  <2> DEFINE Others == \A r \in Sessions \ {s} : ctl'[r] = ctl[r] /\ task'[r] = task[r]
  <2> USE DEF TypeOK
  <2>1. /\ source' = source /\ received' = received /\ cursor' = cursor /\ Others
        /\ queue' = queue /\ cache' = cache /\ Now' = Now
    BY <1>6 DEF FaultStep, DiscoverFails, SaveCacheFails, StoreQueueFails, AnswerFails,
               ControllerStops, agentVars, catalogVars, Now
  <2>2. /\ received <= received' /\ Now <= Now' /\ cursor' <= received' /\ HonestAll(queue)'
    BY <1>d, <1>e, <1>f, <2>1
  <2>3. ASSUME TaskHonest(task[s])', PassHonest(ctl[s])' PROVE CursorsHonest'
    <3> HIDE DEF TypeOK
    <3> QED
      BY <2>1, <2>2, <2>3, HonestStep
  <2>4. task[s] \in Task /\ TaskHonest(task[s])
    BY <1>e
  <2>5. CASE ControllerStops(s)
    <3>1. ctl'[s] = Waiting /\ task' = task
      BY <2>5 DEF ControllerStops, agentVars
    <3> QED
      BY <1>b, <1>g, <2>2, <2>3, <3>1
  <2>6. ASSUME ctl' = ctl, TaskHonest(task[s])' PROVE CursorsHonest'
    BY <1>g, <2>2, <2>3, <2>6
  <2>7. CASE DiscoverFails(s)
    <3>1. CASE cache = NoBatch
      BY <1>b, <2>6, <2>7, <3>1 DEF DiscoverFails
    <3>2. CASE cache # NoBatch
      <4>1. /\ task'[s].asked = task[s].asked /\ task'[s].loaded = task[s].loaded
            /\ task'[s].step = "done" /\ task'[s].cursor = cache.cursor
            /\ task'[s].version = cache.version /\ ctl' = ctl
        BY <2>4, <2>7, <3>2 DEF DiscoverFails, Task
      <4>2. Honest(cache)
        BY <3>2 DEF CursorsHonest
      <4>3. TaskHonest(task[s])'
        BY <2>1, <2>4, <4>1, <4>2 DEF TaskHonest, HonestAll, Honest
      <4> QED
        BY <2>6, <4>1, <4>3
    <3> QED
      BY <3>1, <3>2
  <2>8. CASE SaveCacheFails(s)
    <3>1. /\ task'[s].asked = task[s].asked /\ task'[s].loaded = task[s].loaded
          /\ task'[s].step = "saved" /\ task'[s].cursor = task[s].cursor
          /\ task'[s].version = task[s].version /\ task[s].step = "discovered" /\ ctl' = ctl
      BY <2>4, <2>8 DEF SaveCacheFails, Task
    <3>2. TaskHonest(task[s])'
      BY <2>1, <2>4, <3>1 DEF TaskHonest, HonestAll, Honest
    <3> QED
      BY <2>6, <3>1, <3>2
  <2>9. CASE StoreQueueFails(s)
    <3>1. /\ task'[s].asked = task[s].asked /\ task'[s].loaded = << >>
          /\ task'[s].step = "done" /\ task'[s].cursor = task[s].cursor
          /\ task'[s].version = task[s].version /\ task[s].step \in {"saved", "loaded"}
          /\ ctl' = ctl
      BY <2>4, <2>9 DEF StoreQueueFails, Task
    <3>2. TaskHonest(task[s])'
      BY <2>1, <2>4, <3>1 DEF TaskHonest, HonestAll, Honest
    <3> QED
      BY <2>6, <3>1, <3>2
  <2>10. CASE AnswerFails(s)
    BY <1>b, <2>6, <2>10 DEF AnswerFails
  <2> QED
    BY <1>6, <2>5, <2>7, <2>8, <2>9, <2>10 DEF FaultStep
<1>7. CASE UNCHANGED vars
  <2>1. /\ queue' = queue /\ cache' = cache /\ ctl' = ctl /\ task' = task /\ cursor' = cursor
        /\ received' = received /\ source' = source
    BY <1>7 DEF vars, agentVars, catalogVars
  <2> QED
    BY <1>d, <1>e, <1>f, <1>g, <2>1 DEF CursorsHonest, Honest
<1> QED
  BY <1>1, <1>2, <1>3, <1>4, <1>5, <1>6, <1>7 DEF Next

-----------------------------------------------------------------------------
(* No record and no artifact has a forgotten content.                      *)
LEMMA StepTombstones ==
  ASSUME TypeOK, TypeOK', VersionsKnown, TombstonesHold, [Next]_vars
  PROVE  TombstonesHold'
<1>1. row \in Nat /\ row <= Now /\ (row # 0 => row \in 1..Len(source))
  BY ConstantsAssumption DEF TypeOK, VersionsKnown, Cursor, Now
<1>2. ASSUME NEW c \in Contents \cup {Absent}, Change(c) PROVE TombstonesHold'
  <2>1. \A v \in 1..Len(source) : source'[v] = source[v]
    BY <1>2 DEF Change, TypeOK
  <2> QED
    BY <1>1, <1>2, <2>1 DEF Change, catalogVars, TombstonesHold
<1>3. CASE Forget
  BY <1>3 DEF Forget, TombstonesHold, TypeOK
<1>4. ASSUME NEW b, Ingest(b), source' = source PROVE TombstonesHold'
  <2>1. CASE Skipped(b.version)
    BY <1>4, <2>1 DEF Ingest, TombstonesHold
  <2>2. CASE ~Skipped(b.version)
    <3>1. /\ row' = b.version /\ tombs' = tombs /\ source[b.version] \notin tombs
          /\ artifact' = [artifact EXCEPT ![source[b.version]] = "Active"]
      BY <1>4, <2>2 DEF Ingest, Skipped
    <3> QED
      BY <1>4, <3>1 DEF TombstonesHold, TypeOK
  <2> QED
    BY <2>1, <2>2
<1>5. ASSUME NEW s \in Sessions, PersistNotices(s) PROVE TombstonesHold'
  <2>1. \A c \in tombs : c \in Contents /\ artifact[c] = "none"
    BY DEF TombstonesHold, TypeOK
  <2>2. \A c \in tombs : artifact'[c] = "none"
    BY <1>5, <2>1 DEF PersistNotices, Marked
  <2> QED
    BY <1>5, <2>2 DEF PersistNotices, TombstonesHold
<1>6. CASE source' = source /\ row' = row /\ tombs' = tombs /\ artifact' = artifact
  BY <1>6 DEF TombstonesHold
<1>7. ASSUME NEW s \in Sessions, PassStep(s) PROVE TombstonesHold'
  <2>1. CASE IngestReplayed(s) \/ IngestLive(s)
    BY <1>4, <2>1 DEF IngestReplayed, IngestLive
  <2>2. CASE ~(IngestReplayed(s) \/ IngestLive(s) \/ PersistNotices(s))
    BY <1>6, <1>7, <2>2 DEF PassStep, BeginPass, Replay, SaveCursor, Ask, ReplayFails,
                            CollectFails, agentVars, catalogVars
  <2> QED
    BY <1>5, <2>1, <2>2
<1>8. ASSUME NEW s \in Sessions, TaskStep(s) PROVE TombstonesHold'
  BY <1>6, <1>8 DEF TaskStep, Look, ServeCached, Discover, SaveCache, LoadQueue, StoreQueue,
                    DropAnswer, catalogVars
<1>9. ASSUME NEW s \in Sessions, FaultStep(s) PROVE TombstonesHold'
  BY <1>6, <1>9 DEF FaultStep, DiscoverFails, SaveCacheFails, StoreQueueFails, AnswerFails,
                    ControllerStops, agentVars, catalogVars
<1>10. CASE Notice \/ AgentCrash \/ UNCHANGED vars
  BY <1>6, <1>10 DEF Notice, AgentCrash, vars, agentVars, catalogVars
<1> QED
  BY <1>2, <1>3, <1>7, <1>8, <1>9, <1>10 DEF Next

-----------------------------------------------------------------------------
(* With one session and no ignored failure the cache is as new as any      *)
(* cursor that may be asked for.                                           *)
Cached(k) == k = 0 \/ (cache # NoBatch /\ k <= cache.version)

CachedAll(q) == \A i \in DOMAIN q : Cached(q[i].cursor)

PassCached(c) == Cached(c.next) /\ CachedAll(c.replay)

TaskCached(w) ==
  /\ Cached(w.asked)
  /\ CachedAll(w.loaded)
  /\ w.step = "discovered" => w.cursor <= w.version /\ (cache # NoBatch => cache.version <= w.version)
  /\ w.step \in {"saved", "loaded", "done"} => Cached(w.cursor)

Served(c, w) ==
  c.phase = "asked" =>
    /\ w.step = "looked" => c.start <= w.cursor
    /\ w.step \in {"discovered", "saved", "loaded"} => c.start <= w.version
    /\ w.step = "done" /\ w.health = "Healthy" => c.start <= w.version

CacheFresh ==
  /\ Cached(cursor)
  /\ cache # NoBatch => Cached(cache.cursor)
  /\ CachedAll(queue)
  /\ \A s \in Sessions : PassCached(ctl[s]) /\ TaskCached(task[s]) /\ Served(ctl[s], task[s])

(* What is cached stays cached while the cache only gets newer.            *)
LEMMA CachedStays ==
  ASSUME TypeOK, TypeOK',
         cache # NoBatch => cache' # NoBatch /\ cache.version <= cache'.version
  PROVE  /\ \A k \in Int : Cached(k) => Cached(k)'
         /\ \A q \in Seq(Batch) : CachedAll(q) => CachedAll(q)'
         /\ \A c \in Pass : PassCached(c) => PassCached(c)'
<1>1. Version \subseteq Int /\ Cursor \subseteq Int
  BY ConstantsAssumption DEF Version, Cursor
<1>2. /\ cache # NoBatch => cache.version \in Int
      /\ cache' # NoBatch => cache'.version \in Int
  BY <1>1 DEF TypeOK, Batch
<1>3. \A k \in Int : Cached(k) => Cached(k)'
  BY <1>2 DEF Cached
<1>4. ASSUME NEW q \in Seq(Batch), CachedAll(q) PROVE CachedAll(q)'
  <2>1. \A i \in DOMAIN q : q[i] \in Batch
    OBVIOUS
  <2>2. \A i \in DOMAIN q : q[i].cursor \in Int
    BY <1>1, <2>1 DEF Batch
  <2> QED
    BY <1>3, <1>4, <2>2 DEF CachedAll
<1>5. \A c \in Pass : PassCached(c) => PassCached(c)'
  BY <1>1, <1>3, <1>4 DEF PassCached, Pass
<1> QED
  BY <1>3, <1>4, <1>5

(* The head and the tail of batches whose cursors are cached.              *)
LEMMA HeadTailCached ==
  ASSUME NEW q \in Seq(Batch), q # << >>, CachedAll(q)
  PROVE  Cached(Head(q).cursor) /\ CachedAll(Tail(q))
<1>1. Len(q) \in Nat \ {0} /\ DOMAIN q = 1..Len(q)
  OBVIOUS
<1>2. /\ Tail(q) \in Seq(Batch) /\ Len(Tail(q)) = Len(q) - 1
      /\ \A i \in 1 .. Len(q) - 1 : Tail(q)[i] = q[i + 1]
  OBVIOUS
<1>3. ASSUME NEW i \in DOMAIN Tail(q) PROVE Cached(Tail(q)[i].cursor)
  <2>1. i + 1 \in DOMAIN q /\ Tail(q)[i] = q[i + 1]
    BY <1>1, <1>2
  <2> QED
    BY <2>1 DEF CachedAll
<1>4. Head(q) = q[1] /\ 1 \in DOMAIN q
  BY <1>1
<1> QED
  BY <1>3, <1>4 DEF CachedAll

LEMMA StepFresh ==
  ASSUME TypeOK, TypeOK', VersionsKnown, CursorsHonest, CacheFresh,
         SingleSession, ignored = 0, ignored' = 0, [Next]_vars
  PROVE  CacheFresh'
<1>a. /\ Version \subseteq Int /\ Cursor \subseteq Int /\ Now \in Int
      /\ cache # NoBatch => cache.version \in Int /\ cache.version <= Now
  BY ConstantsAssumption DEF Version, Cursor, TypeOK, Batch, VersionsKnown
<1>b. TaskCached(Resting)' /\ PassCached(Waiting)' /\ CachedAll(<< >>)'
      /\ \A c : Served(c, Resting)'
  BY DEF TaskCached, PassCached, Resting, Waiting, CachedAll, Cached, Served
<1>e. Cached(cursor) /\ CachedAll(queue)
      /\ \A r \in Sessions : /\ ctl[r] \in Pass /\ task[r] \in Task
                             /\ PassCached(ctl[r]) /\ TaskCached(task[r])
                             /\ Served(ctl[r], task[r]) /\ ctl[r].start <= Now
                             /\ task[r].cursor <= Now
  BY DEF CacheFresh, TypeOK, VersionsKnown, PassKnown, TaskKnown
<1>f. ASSUME cache' = cache, NEW k, Cached(k) PROVE Cached(k)'
  BY <1>f DEF Cached
<1>g. ASSUME cache' = cache, NEW q, CachedAll(q) PROVE CachedAll(q)'
  BY <1>g DEF CachedAll, Cached
<1>h. ASSUME cache' = cache, NEW c, PassCached(c) PROVE PassCached(c)'
  BY <1>h DEF PassCached, CachedAll, Cached
<1>i. ASSUME cache' = cache, NEW w, TaskCached(w) PROVE TaskCached(w)'
  BY <1>i DEF TaskCached, CachedAll, Cached
<1>j. ASSUME NEW s \in Sessions, Cached(cursor)', cache' = cache, CachedAll(queue)',
             PassCached(ctl[s])', TaskCached(task[s])', Served(ctl[s], task[s])'
      PROVE  CacheFresh'
  <2>1. (cache # NoBatch => Cached(cache.cursor))'
    BY <1>j DEF CacheFresh, Cached
  <2>2. \A r \in Sessions : r = s
    BY DEF SingleSession
  <2> QED
    BY <1>j, <2>1, <2>2 DEF CacheFresh
<1>1. CASE UNCHANGED <<cache, queue, task, ctl, cursor>>
  BY <1>1 DEF CacheFresh, Cached, CachedAll, PassCached, TaskCached, Served
<1>2. CASE (\E c \in Contents \cup {Absent} : Change(c)) \/ Notice \/ Forget \/ UNCHANGED vars
  BY <1>1, <1>2 DEF Change, Notice, Forget, vars, agentVars, catalogVars
<1>3. CASE AgentCrash
  <2>1. queue' = queue /\ cache' = cache /\ cursor' = cursor
    BY <1>3 DEF AgentCrash, catalogVars
  <2>2. ASSUME NEW s \in Sessions
        PROVE  (PassCached(ctl[s]) /\ TaskCached(task[s]) /\ Served(ctl[s], task[s]))'
    <3>1. ctl'[s] = [ctl[s] EXCEPT !.up = FALSE] /\ task'[s] = Resting
      BY <1>3 DEF AgentCrash
    <3>2. ctl'[s].next = ctl[s].next /\ ctl'[s].replay = ctl[s].replay
      BY <1>e, <3>1 DEF Pass
    <3> QED
      BY <1>b, <1>e, <2>1, <3>1, <3>2 DEF PassCached, CachedAll, Cached
  <2> QED
    BY <1>e, <2>1, <2>2 DEF CacheFresh, CachedAll, Cached
<1>4. ASSUME NEW s \in Sessions, PassStep(s) PROVE CacheFresh'
  <2> USE DEF TypeOK
  <2>0. cache' = cache /\ queue' = queue /\ CachedAll(queue)'
    BY <1>4, <1>e, <1>g DEF PassStep, BeginPass, PersistNotices, Replay, IngestReplayed,
       SaveCursor, Ask, IngestLive, ReplayFails, CollectFails, agentVars
  <2>1. ASSUME cursor' = cursor PROVE Cached(cursor)'
    BY <1>e, <1>f, <2>0, <2>1
  <2>2. ASSUME task' = task PROVE TaskCached(task[s])'
    BY <1>e, <1>i, <2>0, <2>2
  <2>3. ASSUME ctl'[s].phase # "asked" PROVE Served(ctl[s], task[s])'
    BY <2>3 DEF Served
  <2>4. CASE BeginPass(s)
    <3>1. cursor' = cursor /\ task' = task
      BY <2>4 DEF BeginPass, agentVars, catalogVars
    <3>2. PassCached(ctl[s])' /\ ctl'[s].phase # "asked"
      BY <2>4 DEF BeginPass, Waiting, PassCached, CachedAll, Cached
    <3> HIDE DEF TypeOK
    <3> QED
      BY <1>j, <2>0, <2>1, <2>2, <2>3, <3>1, <3>2
  <2>5. CASE PersistNotices(s)
    <3>1. cursor' = cursor /\ task' = task
      BY <2>5 DEF PersistNotices, agentVars
    <3>2. ctl'[s].next = ctl[s].next /\ ctl'[s].replay = ctl[s].replay /\ ctl'[s].phase # "asked"
      BY <1>e, <2>5 DEF PersistNotices, Pass
    <3>3. PassCached(ctl[s])'
      BY <1>e, <2>0, <3>2 DEF PassCached, CachedAll, Cached
    <3> HIDE DEF TypeOK
    <3> QED
      BY <1>j, <2>0, <2>1, <2>2, <2>3, <3>1, <3>2, <3>3
  <2>6. CASE Replay(s)
    <3>1. cursor' = cursor /\ task' = task
      BY <2>6 DEF Replay, agentVars, catalogVars
    <3>2. ctl'[s].next = ctl[s].next /\ ctl'[s].replay = Reverse(queue) /\ ctl'[s].phase # "asked"
      BY <1>e, <2>6 DEF Replay, Pass
    <3>3. CachedAll(Reverse(queue))
      BY <1>e, ReversePart DEF CachedAll
    <3>4. PassCached(ctl[s])'
      BY <1>e, <2>0, <3>2, <3>3 DEF PassCached, CachedAll, Cached
    <3> HIDE DEF TypeOK
    <3> QED
      BY <1>j, <2>0, <2>1, <2>2, <2>3, <3>1, <3>2, <3>4
  <2>7. CASE IngestReplayed(s)
    <3>1. /\ ctl[s].replay \in Seq(Batch) /\ ctl[s].replay # << >>
          /\ CachedAll(ctl[s].replay)
      BY <1>e, <2>7 DEF IngestReplayed, Pass, PassCached
    <3>2. Cached(Head(ctl[s].replay).cursor) /\ CachedAll(Tail(ctl[s].replay))
      BY <3>1, HeadTailCached
    <3>3. cursor' = Head(ctl[s].replay).cursor /\ task' = task
      BY <2>7 DEF IngestReplayed, Ingest, agentVars
    <3>4. /\ ctl'[s].next = Head(ctl[s].replay).cursor /\ ctl'[s].replay = Tail(ctl[s].replay)
          /\ ctl'[s].phase # "asked"
      BY <1>e, <2>7 DEF IngestReplayed, Pass
    <3>5. PassCached(ctl[s])' /\ Cached(cursor)'
      BY <2>0, <3>2, <3>3, <3>4 DEF PassCached, CachedAll, Cached
    <3> HIDE DEF TypeOK
    <3> QED
      BY <1>j, <2>0, <2>2, <2>3, <3>3, <3>4, <3>5
  <2>8. CASE SaveCursor(s)
    <3>1. cursor' = ctl[s].next /\ task' = task
      BY <2>8 DEF SaveCursor, agentVars
    <3>2. /\ ctl'[s].phase # "asked"
          /\ \/ ctl'[s] = Waiting
             \/ ctl'[s].next = ctl[s].next /\ ctl'[s].replay = ctl[s].replay
      BY <1>e, <2>8 DEF SaveCursor, Pass, Waiting
    <3>3. PassCached(ctl[s])' /\ Cached(cursor)'
      BY <1>b, <1>e, <2>0, <3>1, <3>2 DEF PassCached, CachedAll, Cached
    <3> HIDE DEF TypeOK
    <3> QED
      BY <1>j, <2>0, <2>2, <2>3, <3>1, <3>2, <3>3
  <2>9. CASE Ask(s)
    <3>1. cursor' = cursor
      BY <2>9 DEF Ask, catalogVars
    <3>2. ctl'[s].next = ctl[s].next /\ ctl'[s].replay = ctl[s].replay
      BY <1>e, <2>9 DEF Ask, Pass
    <3>3. PassCached(ctl[s])'
      BY <1>e, <2>0, <3>2 DEF PassCached, CachedAll, Cached
    <3>4. task'[s] = [Resting EXCEPT !.step = "asked", !.asked = cursor]
      BY <2>9 DEF Ask
    <3>5. TaskCached(task[s])' /\ Served(ctl[s], task[s])'
      BY <1>e, <2>0, <3>4 DEF Resting, TaskCached, CachedAll, Cached, Served
    <3> HIDE DEF TypeOK
    <3> QED
      BY <1>j, <2>0, <2>1, <3>1, <3>3, <3>5
  <2>10. CASE IngestLive(s)
    <3>1. cursor' = task[s].cursor /\ Cached(task[s].cursor)
      BY <1>e, <2>10 DEF IngestLive, Ingest, Found, TaskCached
    <3>2. ctl'[s].next = task[s].cursor /\ ctl'[s].replay = ctl[s].replay
          /\ ctl'[s].phase # "asked" /\ task'[s] = Resting
      BY <1>e, <2>10 DEF IngestLive, Pass
    <3>3. PassCached(ctl[s])' /\ Cached(cursor)'
      BY <1>e, <2>0, <3>1, <3>2 DEF PassCached, CachedAll, Cached
    <3>4. TaskCached(task[s])'
      BY <1>b, <3>2
    <3> HIDE DEF TypeOK
    <3> QED
      BY <1>j, <2>0, <2>3, <3>2, <3>3, <3>4
  <2>11. CASE ReplayFails(s)
    <3>1. cursor' = cursor /\ task' = task
      BY <2>11 DEF ReplayFails, agentVars, catalogVars
    <3>2. ctl'[s].next = ctl[s].next /\ ctl'[s].replay = << >> /\ ctl'[s].phase # "asked"
      BY <1>e, <2>11 DEF ReplayFails, Pass
    <3>3. PassCached(ctl[s])'
      BY <1>e, <2>0, <3>2 DEF PassCached, CachedAll, Cached
    <3> HIDE DEF TypeOK
    <3> QED
      BY <1>j, <2>0, <2>1, <2>2, <2>3, <3>1, <3>2, <3>3
  <2>12. CASE CollectFails(s)
    <3>1. cursor' = cursor /\ task' = task /\ ctl'[s] = Waiting
      BY <2>12 DEF CollectFails, agentVars, catalogVars
    <3>2. PassCached(ctl[s])' /\ ctl'[s].phase # "asked"
      BY <1>b, <3>1 DEF Waiting
    <3> HIDE DEF TypeOK
    <3> QED
      BY <1>j, <2>0, <2>1, <2>2, <2>3, <3>1, <3>2
  <2> QED
    BY <1>4, <2>4, <2>5, <2>6, <2>7, <2>8, <2>9, <2>10, <2>11, <2>12 DEF PassStep
<1>5. ASSUME NEW s \in Sessions, TaskStep(s) PROVE CacheFresh'
  <2> USE DEF TypeOK
  <2>1. cursor' = cursor /\ ctl' = ctl /\ Now' = Now
    BY <1>5 DEF TaskStep, Look, ServeCached, Discover, SaveCache, LoadQueue, StoreQueue,
               DropAnswer, catalogVars, Now
  <2>2. /\ ctl[s] \in Pass /\ task[s] \in Task /\ PassCached(ctl[s]) /\ TaskCached(task[s])
        /\ Served(ctl[s], task[s]) /\ ctl[s].start <= Now /\ task[s].cursor <= Now
    BY <1>e
  <2>3. ASSUME cache' = cache, CachedAll(queue)', TaskCached(task[s])', Served(ctl[s], task[s])'
        PROVE  CacheFresh'
    <3>1. Cached(cursor)' /\ PassCached(ctl[s])'
      BY <1>e, <1>f, <1>h, <2>1, <2>2, <2>3
    <3> HIDE DEF TypeOK
    <3> QED
      BY <1>j, <2>3, <3>1
  <2>4. CASE Look(s)
    <3>1. /\ task'[s].asked = task[s].asked /\ task'[s].loaded = task[s].loaded
          /\ task'[s].step = "looked" /\ task'[s].cursor = Now
          /\ queue' = queue /\ cache' = cache
      BY <2>2, <2>4 DEF Look, Task
    <3>2. TaskCached(task[s])' /\ Served(ctl[s], task[s])'
      BY <2>1, <2>2, <3>1 DEF TaskCached, CachedAll, Cached, Served
    <3> QED
      BY <1>e, <1>g, <2>3, <3>1, <3>2
  <2>5. CASE ServeCached(s)
    <3>1. /\ task'[s].asked = task[s].asked /\ task'[s].loaded = task[s].loaded
          /\ task'[s].step = "done" /\ task'[s].cursor = task[s].asked
          /\ task'[s].version = cache.version /\ task[s].cursor = task[s].asked
          /\ task[s].step = "looked" /\ cache # NoBatch
          /\ queue' = queue /\ cache' = cache
      BY <2>2, <2>5 DEF ServeCached, Unchanged, Task
    <3>2. TaskCached(task[s])'
      BY <2>2, <3>1 DEF TaskCached, CachedAll, Cached
    <3>3. ctl[s].start \in Int /\ ctl[s].start >= 1 /\ task[s].cursor \in Int
      BY <2>2, ConstantsAssumption DEF Pass, Task, Version, Cursor
    <3>4. Served(ctl[s], task[s])'
      BY <1>a, <2>1, <2>2, <3>1, <3>3 DEF TaskCached, Cached, Served
    <3> QED
      BY <1>e, <1>g, <2>3, <3>1, <3>2, <3>4
  <2>6. CASE Discover(s)
    <3>1. /\ task'[s].asked = task[s].asked /\ task'[s].loaded = task[s].loaded
          /\ task'[s].step = "discovered" /\ task'[s].cursor = task[s].cursor
          /\ task'[s].version = Now
          /\ queue' = queue /\ cache' = cache
      BY <2>2, <2>6 DEF Discover, Task
    <3>2. TaskCached(task[s])' /\ Served(ctl[s], task[s])'
      BY <1>a, <2>1, <2>2, <3>1 DEF TaskCached, CachedAll, Cached, Served
    <3> QED
      BY <1>e, <1>g, <2>3, <3>1, <3>2
  <2>7. CASE SaveCache(s)
    <3>1. /\ task'[s].asked = task[s].asked /\ task'[s].loaded = task[s].loaded
          /\ task'[s].step = "saved" /\ task'[s].cursor = task[s].cursor
          /\ task'[s].version = task[s].version /\ task[s].step = "discovered"
          /\ task'[s].health = task[s].health
          /\ queue' = queue /\ cache' = Found(s) /\ cache' # NoBatch
      <4>1. cache' = Found(s) /\ Found(s) \in Batch
        BY <2>7, FoundBatch DEF SaveCache
      <4> QED
        BY <2>2, <2>7, <4>1, NoBatchAssumption DEF SaveCache, Task
    <3>2. cache'.version = task[s].version /\ cache'.cursor = task[s].cursor
      BY <3>1 DEF Found
    <3>3. cache # NoBatch => cache.version <= cache'.version
      BY <2>2, <3>1, <3>2 DEF TaskCached
    <3>4. task[s].cursor <= task[s].version
      BY <2>2, <3>1 DEF TaskCached
    <3> HIDE DEF TypeOK
    <3>5. /\ \A k \in Int : Cached(k) => Cached(k)'
          /\ \A q \in Seq(Batch) : CachedAll(q) => CachedAll(q)'
          /\ \A c \in Pass : PassCached(c) => PassCached(c)'
      BY <3>1, <3>3, CachedStays
    <3>6. task[s].asked \in Int /\ task[s].loaded \in Seq(Batch) /\ queue \in Seq(Batch)
          /\ cursor \in Int
      BY <1>a, <2>2 DEF Task, TypeOK
    <3>7. Cached(cursor)' /\ CachedAll(queue)' /\ PassCached(ctl[s])'
      BY <1>e, <2>1, <2>2, <3>1, <3>5, <3>6
    <3>8. Cached(task[s].asked)' /\ CachedAll(task[s].loaded)'
      BY <2>2, <3>1, <3>5, <3>6 DEF TaskCached
    <3>9. Cached(task[s].cursor)' /\ Cached(cache.cursor)'
      BY <3>1, <3>2, <3>4 DEF Cached
    <3>10. TaskCached(task[s])'
      BY <3>1, <3>8, <3>9 DEF TaskCached
    <3>11. Served(ctl[s], task[s])'
      BY <2>1, <2>2, <3>1 DEF Served
    <3>12. \A r \in Sessions : r = s
      BY DEF SingleSession
    <3> QED
      BY <3>7, <3>9, <3>10, <3>11, <3>12 DEF CacheFresh
  <2>8. CASE LoadQueue(s)
    <3>1. /\ task'[s].asked = task[s].asked /\ task'[s].loaded = queue
          /\ task'[s].step = "loaded" /\ task'[s].cursor = task[s].cursor
          /\ task'[s].version = task[s].version /\ task[s].step = "saved"
          /\ task'[s].health = task[s].health
          /\ queue' = queue /\ cache' = cache
      BY <2>2, <2>8 DEF LoadQueue, Task
    <3>2. TaskCached(task[s])' /\ Served(ctl[s], task[s])'
      BY <1>e, <2>1, <2>2, <3>1 DEF TaskCached, CachedAll, Cached, Served
    <3> QED
      BY <1>e, <1>g, <2>3, <3>1, <3>2
  <2>9. CASE StoreQueue(s)
    <3>1. /\ task'[s].asked = task[s].asked /\ task'[s].loaded = << >>
          /\ task'[s].step = "done" /\ task'[s].cursor = task[s].cursor
          /\ task'[s].version = task[s].version /\ task[s].step = "loaded"
          /\ task'[s].health = task[s].health /\ cache' = cache
          /\ queue' = LastBatches(Append(task[s].loaded, Found(s)))
      BY <2>2, <2>9 DEF StoreQueue, Task
    <3>2. TaskCached(task[s])' /\ Served(ctl[s], task[s])'
      BY <2>1, <2>2, <3>1 DEF TaskCached, CachedAll, Cached, Served
    <3>3. /\ task[s].loaded \in Seq(Batch) /\ CachedAll(task[s].loaded)
          /\ Found(s) \in Batch /\ Cached(Found(s).cursor)
      BY <2>2, <3>1, FoundBatch DEF TaskCached, Found, Task
    <3>4. /\ Append(task[s].loaded, Found(s)) \in Seq(Batch)
          /\ CachedAll(Append(task[s].loaded, Found(s)))
      BY <3>3 DEF CachedAll
    <3>5. CachedAll(queue)'
      BY <3>1, <3>4, LastBatchesPart DEF CachedAll, Cached
    <3> QED
      BY <2>3, <3>1, <3>2, <3>5
  <2>10. CASE DropAnswer(s)
    <3>1. task'[s] = Resting /\ queue' = queue /\ cache' = cache
      BY <2>10 DEF DropAnswer
    <3> QED
      BY <1>b, <1>e, <1>g, <2>3, <3>1
  <2> QED
    BY <1>5, <2>4, <2>5, <2>6, <2>7, <2>8, <2>9, <2>10 DEF TaskStep
<1>6. ASSUME NEW s \in Sessions, FaultStep(s) PROVE CacheFresh'
  <2> USE DEF TypeOK
  <2>1. cursor' = cursor /\ queue' = queue /\ cache' = cache
    BY <1>6 DEF FaultStep, DiscoverFails, SaveCacheFails, StoreQueueFails, AnswerFails,
               ControllerStops, agentVars, catalogVars
  <2>2. task[s] \in Task /\ TaskCached(task[s])
    BY <1>e
  <2>3. ASSUME PassCached(ctl[s])', TaskCached(task[s])', Served(ctl[s], task[s])'
        PROVE  CacheFresh'
    <3>1. Cached(cursor)' /\ CachedAll(queue)'
      BY <1>e, <1>f, <1>g, <2>1
    <3> HIDE DEF TypeOK
    <3> QED
      BY <1>j, <2>1, <2>3, <3>1
  <2>4. ASSUME ctl' = ctl PROVE PassCached(ctl[s])'
    BY <1>e, <1>h, <2>1, <2>4
  <2>5. CASE DiscoverFails(s)
    <3>1. CASE cache = NoBatch
      BY <1>b, <2>3, <2>4, <2>5, <3>1 DEF DiscoverFails
    <3>2. CASE cache # NoBatch
      <4>1. /\ task'[s].asked = task[s].asked /\ task'[s].loaded = task[s].loaded
            /\ task'[s].step = "done" /\ task'[s].cursor = cache.cursor
            /\ task'[s].health = "Degraded" /\ ctl' = ctl
        BY <2>2, <2>5, <3>2 DEF DiscoverFails, Task
      <4>2. Cached(cache.cursor)
        BY <3>2 DEF CacheFresh
      <4>3. TaskCached(task[s])' /\ Served(ctl[s], task[s])'
        BY <2>1, <2>2, <4>1, <4>2 DEF TaskCached, CachedAll, Cached, Served
      <4> QED
        BY <2>3, <2>4, <4>1, <4>3
    <3> QED
      BY <3>1, <3>2
  <2>6. CASE AnswerFails(s)
    BY <1>b, <2>3, <2>4, <2>6 DEF AnswerFails
  <2>7. CASE ControllerStops(s)
    <3>1. ctl'[s] = Waiting /\ task' = task
      BY <2>7 DEF ControllerStops, agentVars
    <3>2. TaskCached(task[s])' /\ Served(ctl[s], task[s])'
      BY <1>i, <2>1, <2>2, <3>1 DEF Served, Waiting
    <3> QED
      BY <1>b, <2>3, <3>1, <3>2
  <2>8. CASE SaveCacheFails(s) \/ StoreQueueFails(s)
    BY <2>8 DEF SaveCacheFails, StoreQueueFails, Ignored
  <2> QED
    BY <1>6, <2>5, <2>6, <2>7, <2>8 DEF FaultStep
<1> QED
  BY <1>2, <1>3, <1>4, <1>5, <1>6 DEF Next

-----------------------------------------------------------------------------
(* The theorems.                                                           *)
BaseInv == TypeOK /\ VersionsKnown /\ CursorsHonest /\ TombstonesHold

LEMMA BaseInvariant == Spec => []BaseInv
<1>1. Init => BaseInv
  <2> SUFFICES ASSUME Init PROVE BaseInv
    OBVIOUS
  <2>1. TypeOK
    BY InitTypes
  <2>2. Now = 1
    BY DEF Init, Now
  <2>3. VersionsKnown
    BY <2>2 DEF Init, VersionsKnown, TaskKnown, PassKnown, Known, Resting, Waiting
  <2>4. CursorsHonest
    BY <2>2 DEF Init, CursorsHonest, TaskHonest, PassHonest, HonestAll, Resting, Waiting
  <2>5. TombstonesHold
    BY DEF Init, TombstonesHold
  <2> QED
    BY <2>1, <2>3, <2>4, <2>5 DEF BaseInv
<1>2. BaseInv /\ [Next]_vars => BaseInv'
  BY StepTypes, StepKnown, StepHonest, StepTombstones DEF BaseInv
<1> QED
  BY <1>1, <1>2, PTL DEF Spec

(* The state keeps its types, and the outbox its bound, for any number of  *)
(* sessions, contents, versions and failures.                              *)
THEOREM TypeCorrect == Spec => []TypeOK
<1>1. BaseInv => TypeOK
  BY DEF BaseInv
<1> QED
  BY <1>1, BaseInvariant, PTL

(* The catalog's cursor never says more than was ingested, with any number *)
(* of sessions, crashes and ignored failures: computing the cursor before  *)
(* reading the files is what makes skipping a discovery safe.              *)
THEOREM CursorIsBacked == Spec => []CursorBacked
<1>1. BaseInv => CursorBacked
  BY DEF BaseInv, CursorsHonest, CursorBacked
<1> QED
  BY <1>1, BaseInvariant, PTL

(* A forgotten content never returns to a record or an artifact, however   *)
(* often it is replayed or served from the cache.                          *)
THEOREM TombstonesAreKept == Spec => []TombstonesHold
<1>1. BaseInv => TombstonesHold
  BY DEF BaseInv
<1> QED
  BY <1>1, BaseInvariant, PTL

(* Ignored failures are never taken back.                                  *)
LEMMA IgnoredGrows ==
  ASSUME TypeOK, [Next]_vars
  PROVE  ignored' >= ignored
<1>1. ignored \in Int
  BY ConstantsAssumption DEF TypeOK
<1>2. CASE UNCHANGED ignored
  BY <1>1, <1>2
<1>3. CASE Ignored
  BY <1>1, <1>3 DEF Ignored
<1>4. \/ UNCHANGED ignored
      \/ Ignored
  BY DEF Next, vars, PassStep, TaskStep, FaultStep, Change, Notice, Forget, AgentCrash,
         BeginPass, PersistNotices, Replay, IngestReplayed, SaveCursor, Ask, IngestLive,
         ReplayFails, CollectFails, Look, ServeCached, Discover, SaveCache, LoadQueue,
         StoreQueue, DropAnswer, DiscoverFails, SaveCacheFails, StoreQueueFails,
         AnswerFails, ControllerStops
<1> QED
  BY <1>2, <1>3, <1>4

(* A single Controller process gets collections that are as new as its     *)
(* question while the Agent can write its cache.                           *)
THEOREM CollectionIsFresh ==
  ASSUME SingleSession
  PROVE  Spec => []LiveIsFresh
<1> DEFINE Fresh == ignored = 0 => CacheFresh
<1>1. Init => Fresh
  BY DEF Init, CacheFresh, TaskCached, PassCached, CachedAll, Cached, Served, Resting,
         Waiting
<1>2. BaseInv /\ BaseInv' /\ Fresh /\ [Next]_vars => Fresh'
  <2> SUFFICES ASSUME BaseInv, BaseInv', Fresh, [Next]_vars, ignored' = 0
               PROVE  CacheFresh'
    OBVIOUS
  <2>1. ignored \in Nat
    BY ConstantsAssumption DEF BaseInv, TypeOK
  <2>2. ignored' >= ignored
    BY IgnoredGrows DEF BaseInv
  <2>3. ignored = 0
    BY <2>1, <2>2
  <2> QED
    BY <2>3, StepFresh DEF BaseInv
<1>3. Fresh => LiveIsFresh
  <2> SUFFICES ASSUME CacheFresh, NEW s \in Sessions,
                      ctl[s].phase = "asked", task[s].step = "done", task[s].health = "Healthy"
               PROVE  task[s].version >= ctl[s].start
    BY DEF LiveIsFresh
  <2>1. ctl[s].start <= task[s].version
    BY DEF CacheFresh, Served
  <2> QED
    BY <2>1
<1> HIDE DEF Fresh
<1> QED
  BY <1>1, <1>2, <1>3, BaseInvariant, PTL DEF Spec

-----------------------------------------------------------------------------
(***************************************************************************)
(* Proofs about Discovery, how a provider makes the batches that are       *)
(* collected: for every set of files and listings, and any number of       *)
(* writes, moves and failed reads.  The batch that is kept is NoBatch at   *)
(* first, as in Collection; everything else of Discovery is its own.       *)
(***************************************************************************)
(* The elements of one sequence after another.                             *)
LEMMA After ==
  ASSUME NEW S, NEW s \in Seq(S), NEW t \in Seq(S)
  PROVE  /\ s \o t \in Seq(S) /\ Len(s \o t) = Len(s) + Len(t)
         /\ \A i \in 1..Len(s) : (s \o t)[i] = s[i]
         /\ \A i \in 1..Len(t) : (s \o t)[Len(s) + i] = t[i]
<1> DEFINE k == Len(s)
           m == Len(t)
<1>0. k \in Nat /\ m \in Nat
  OBVIOUS
<1>1. s \o t \in Seq(S)
  BY ConcatProperties
<1>2. Len(s \o t) = k + m
  BY ConcatProperties
<1>3. \A i \in 1..(k + m) : (s \o t)[i] = IF i <= k THEN s[i] ELSE t[i - k]
  BY ConcatProperties
<1> HIDE DEF k, m
<1>5. \A i \in 1..m : k + i \in 1..(k + m) /\ ~(k + i <= k) /\ (k + i) - k = i
  BY <1>0
<1>6. \A i \in 1..k : i \in 1..(k + m) /\ i <= k
  BY <1>0
<1>7. \A i \in 1..m : (s \o t)[k + i] = t[i]
  BY <1>3, <1>5
<1>8. \A i \in 1..k : (s \o t)[i] = s[i]
  BY <1>3, <1>6
<1> QED
  BY <1>1, <1>2, <1>7, <1>8 DEF k, m

LEMMA Joined ==
  ASSUME NEW S, NEW s \in Seq(S), NEW t \in Seq(S), NEW u \in Seq(S),
         NEW j, j = (s \o t) \o u
  PROVE  /\ j \in Seq(S) /\ Len(j) = Len(s) + Len(t) + Len(u)
         /\ \A i \in 1..Len(s) : j[i] = s[i]
         /\ \A i \in 1..Len(t) : j[Len(s) + i] = t[i]
         /\ \A i \in 1..Len(u) : j[Len(s) + Len(t) + i] = u[i]
<1> DEFINE st == s \o t
           k == Len(s)
           m == Len(t)
<1>0. k \in Nat /\ m \in Nat
  OBVIOUS
<1>1. st \in Seq(S)
  BY After
<1>2. Len(st) = k + m
  BY After
<1>3. \A i \in 1..k : st[i] = s[i]
  BY After
<1>4. \A i \in 1..m : st[k + i] = t[i]
  BY After
<1>13. j = st \o u
  OBVIOUS
<1> HIDE DEF st
<1>5. j \in Seq(S)
  BY <1>1, <1>13, After
<1>6. Len(j) = Len(st) + Len(u)
  BY <1>1, <1>13, After
<1>7. \A i \in 1..Len(st) : j[i] = st[i]
  BY <1>1, <1>13, After
<1>8. \A i \in 1..Len(u) : j[Len(st) + i] = u[i]
  BY <1>1, <1>13, After
<1> HIDE DEF k, m
<1>9. /\ \A i \in 1..k : i \in 1..(k + m)
      /\ \A i \in 1..m : k + i \in 1..(k + m)
  BY <1>0
<1>10. \A i \in 1..k : j[i] = s[i]
  BY <1>2, <1>3, <1>7, <1>9
<1>11. \A i \in 1..m : j[k + i] = t[i]
  BY <1>2, <1>4, <1>7, <1>9
<1>12. j \in Seq(S) /\ Len(j) = k + m + Len(u)
       /\ \A i \in 1..Len(u) : j[k + m + i] = u[i]
  BY <1>2, <1>5, <1>6, <1>8
<1> QED
  BY <1>10, <1>11, <1>12 DEF k, m

(* The positions of a listing.                                             *)
LEMMA CodexListing ==
  /\ CodexListings \in Seq(SUBSET Of("codex"))
  /\ Len(Explicit) \in Nat /\ DOMAIN Explicit = 1..Len(Explicit)
  /\ Len(CodexListings) = Len(Explicit) + 6
  /\ CodexListings[1] = At("project", Guidance)
  /\ \A i \in 1..Len(Explicit) : CodexListings[i + 1] = At("home", {Explicit[i]})
  /\ CodexListings[Len(Explicit) + 2] = {Index}
  /\ CodexListings[Len(Explicit) + 3] = At("home", Profiles)
  /\ CodexListings[Len(Explicit) + 4] = At("sessions", SessionIds)
  /\ CodexListings[Len(Explicit) + 5] = At("archived_sessions", SessionIds)
  /\ CodexListings[Len(Explicit) + 6] = At("memories", Memories)
<1> DEFINE n == Len(Explicit)
           first == <<At("project", Guidance)>>
           last == <<{Index}, At("home", Profiles), At("sessions", SessionIds),
                     At("archived_sessions", SessionIds), At("memories", Memories)>>
           S == {first[1]} \cup {Homes[i] : i \in 1..n} \cup {last[i] : i \in 1..5}
<1>1. n \in Nat /\ DOMAIN Explicit = 1..n
  BY DiscoveryAssumption
<1>2. /\ Homes \in Seq(S) /\ Len(Homes) = n
      /\ \A i \in 1..n : Homes[i] = At("home", {Explicit[i]})
  <2>1. Homes \in [1..n -> S]
    BY DEF Homes
  <2>2. \A i \in 1..n : Homes[i] = At("home", {Explicit[i]})
    BY DEF Homes
  <2> HIDE DEF S, n
  <2>3. Homes \in Seq(S)
    BY <1>1, <2>1, IsASeq
  <2>4. Len(Homes) = n
    BY <1>1, <2>1, <2>3, LenProperties
  <2> QED
    BY <2>2, <2>3, <2>4
<1>3. first \in Seq(S) /\ Len(first) = 1 /\ last \in Seq(S) /\ Len(last) = 5
  OBVIOUS
<1>4. CodexListings = (first \o Homes) \o last
  BY DEF CodexListings
<1>5. /\ CodexListings \in Seq(S) /\ Len(CodexListings) = n + 6
      /\ CodexListings[1] = first[1]
      /\ \A i \in 1..n : CodexListings[i + 1] = Homes[i]
      /\ \A i \in 1..5 : CodexListings[n + 1 + i] = last[i]
  <2> HIDE DEF first, S, last
  <2>1. /\ CodexListings \in Seq(S)
        /\ Len(CodexListings) = Len(first) + Len(Homes) + Len(last)
        /\ \A i \in 1..Len(first) : CodexListings[i] = first[i]
        /\ \A i \in 1..Len(Homes) : CodexListings[Len(first) + i] = Homes[i]
        /\ \A i \in 1..Len(last) : CodexListings[Len(first) + Len(Homes) + i] = last[i]
    <3> HIDE DEF n
    <3>1. first \in Seq(S) /\ Homes \in Seq(S) /\ last \in Seq(S)
      BY <1>2, <1>3
    <3> QED
      BY <3>1, <1>4, Joined
  <2> HIDE DEF n
  <2>2. Len(CodexListings) = n + 6
    BY <1>1, <1>2, <1>3, <2>1
  <2>3. CodexListings[1] = first[1]
    BY <1>3, <2>1
  <2>4. ASSUME NEW i \in 1..n
        PROVE  CodexListings[i + 1] = Homes[i]
    <3>1. i + 1 = 1 + i
      BY <1>1
    <3>2. CodexListings[1 + i] = Homes[i]
      BY <1>2, <1>3, <2>1
    <3> QED
      BY <3>1, <3>2
  <2>5. ASSUME NEW i \in 1..5
        PROVE  CodexListings[n + 1 + i] = last[i]
    <3>1. n + 1 + i = (1 + n) + i
      BY <1>1
    <3>2. CodexListings[(1 + n) + i] = last[i]
      BY <1>2, <1>3, <2>1
    <3> QED
      BY <3>1, <3>2
  <2> QED
    BY <2>1, <2>2, <2>3, <2>4, <2>5
<1>6. CodexListings \in Seq(SUBSET Of("codex"))
  <2> HIDE DEF S, n
  <2>1. \A i \in 1..(n + 6) : CodexListings[i] \in SUBSET Of("codex")
    BY <1>1, <1>5 DEF Of, Listings, Range
  <2>2. CodexListings \in [1..(n + 6) -> S]
    BY <1>1, <1>5
  <2>3. CodexListings \in [1..(n + 6) -> SUBSET Of("codex")]
    BY <2>1, <2>2
  <2> QED
    BY <1>1, <2>3, IsASeq
<1>7. /\ CodexListings[n + 2] = last[1] /\ CodexListings[n + 3] = last[2]
      /\ CodexListings[n + 4] = last[3] /\ CodexListings[n + 5] = last[4]
      /\ CodexListings[n + 6] = last[5]
  <2>1. \A i \in 1..5 : CodexListings[n + 1 + i] = last[i]
    BY <1>5
  <2> HIDE DEF last, n
  <2> QED
    BY <1>1, <2>1
<1>8. \A i \in 1..n : CodexListings[i + 1] = At("home", {Explicit[i]})
  <2> HIDE DEF n
  <2> QED
    BY <1>2, <1>5
<1> QED
  BY <1>1, <1>5, <1>6, <1>7, <1>8

(* The places of the listings.                                             *)
LEMMA OfListings ==
  /\ \A v \in Providers : Listings(v) \in Seq(SUBSET Of(v)) /\ Of(v) \subseteq Places
  /\ \A v \in Providers : \A p \in Of(v) :
       \E i \in 1..Len(Listings(v)) : p \in Listings(v)[i]
  /\ CursorListings \in Seq(SUBSET Of("codex")) /\ Counted \subseteq Of("codex")
  /\ Index \in Of("codex")
  /\ \A s \in SessionIds : Live(s) \in Of("codex") /\ Archived(s) \in Of("codex")
  /\ \A s \in SessionIds : Tellers(s) \subseteq Of("codex")
<1>1. \A v \in Providers : Of(v) \subseteq Places
  BY DEF Providers, Places
<1>2. \A v \in Providers : Listings(v) \in Seq(SUBSET Of(v))
  <2>1. FileListings \in Seq(SUBSET Of("files"))
    <3>1. FileListings \in Seq(SUBSET At("user", Candidates))
      BY DEF FileListings
    <3>2. Of("files") = At("user", Candidates)
      <4>1. Range(FileListings) = {At("user", Candidates)}
        BY DEF FileListings, Range
      <4> QED
        BY <4>1 DEF Of, Listings
    <3> QED
      BY <3>1, <3>2
  <2> QED
    BY <2>1, CodexListing DEF Listings, Providers
<1>3. ASSUME NEW v \in Providers, NEW p \in Of(v)
      PROVE  \E i \in 1..Len(Listings(v)) : p \in Listings(v)[i]
  <2>1. PICK l \in Range(Listings(v)) : p \in l
    BY DEF Of
  <2>2. PICK i \in DOMAIN Listings(v) : l = Listings(v)[i]
    BY <2>1 DEF Range
  <2>3. DOMAIN Listings(v) = 1..Len(Listings(v))
    BY <1>2
  <2> QED
    BY <2>1, <2>2, <2>3
<1> DEFINE n == Len(Explicit)
<1>4. n \in Nat /\ DOMAIN Explicit = 1..n /\ Len(CodexListings) = n + 6
  BY CodexListing
<1>5. \A i \in 1..(n + 6) : CodexListings[i] \subseteq Of("codex")
  BY <1>4, CodexListing
<1>6. /\ At("project", Guidance) \subseteq Of("codex") /\ Index \in Of("codex")
      /\ At("sessions", SessionIds) \subseteq Of("codex")
      /\ At("archived_sessions", SessionIds) \subseteq Of("codex")
      /\ At("memories", Memories) \subseteq Of("codex")
  <2> HIDE DEF n
  <2>1. 1 \in 1..(n + 6) /\ n + 2 \in 1..(n + 6) /\ n + 4 \in 1..(n + 6)
        /\ n + 5 \in 1..(n + 6) /\ n + 6 \in 1..(n + 6)
    BY <1>4
  <2>2. /\ CodexListings[1] = At("project", Guidance) /\ CodexListings[n + 2] = {Index}
        /\ CodexListings[n + 4] = At("sessions", SessionIds)
        /\ CodexListings[n + 5] = At("archived_sessions", SessionIds)
        /\ CodexListings[n + 6] = At("memories", Memories)
    BY CodexListing DEF n
  <2> QED
    BY <1>5, <2>1, <2>2
<1>7. At("home", Range(Explicit) \cup {SessionIndex}) \subseteq Of("codex")
  <2>1. ASSUME NEW x \in Range(Explicit)
        PROVE  [dir |-> "home", name |-> x] \in Of("codex")
    <3>1. PICK i \in 1..n : x = Explicit[i]
      BY <1>4 DEF Range
    <3>2. [dir |-> "home", name |-> x] \in At("home", {Explicit[i]})
      BY <3>1 DEF At
    <3>3. CodexListings[i + 1] = At("home", {Explicit[i]}) /\ i + 1 \in 1..(n + 6)
      BY <1>4, CodexListing
    <3> QED
      BY <1>5, <3>2, <3>3
  <2>2. ASSUME NEW q \in At("home", Range(Explicit) \cup {SessionIndex})
        PROVE  q \in Of("codex")
    <3>1. PICK x \in Range(Explicit) \cup {SessionIndex} : q = [dir |-> "home", name |-> x]
      BY DEF At
    <3> QED
      BY <1>6, <2>1, <3>1 DEF Index
  <2> QED
    BY <2>2
<1>8. CursorListings \in Seq(SUBSET Of("codex"))
  BY <1>6, <1>7 DEF CursorListings
<1>9. Counted \subseteq At("project", Guidance)
        \cup At("home", Range(Explicit) \cup {SessionIndex})
        \cup At("sessions", SessionIds) \cup At("archived_sessions", SessionIds)
        \cup At("memories", Memories)
  <2>1. Range(CursorListings) = {At("project", Guidance),
          At("home", Range(Explicit) \cup {SessionIndex}), At("sessions", SessionIds),
          At("archived_sessions", SessionIds), At("memories", Memories)}
    <3>1. DOMAIN CursorListings = {1, 2, 3, 4, 5}
      BY DEF CursorListings
    <3>2. Range(CursorListings) = {CursorListings[1], CursorListings[2], CursorListings[3],
            CursorListings[4], CursorListings[5]}
      BY <3>1 DEF Range
    <3> QED
      BY <3>2 DEF CursorListings
  <2> QED
    BY <2>1 DEF Counted
<1>10. \A s \in SessionIds : Live(s) \in At("sessions", SessionIds)
         /\ Archived(s) \in At("archived_sessions", SessionIds)
  BY DEF Live, Archived, At
<1> QED
  BY <1>1, <1>2, <1>3, <1>6, <1>7, <1>8, <1>9, <1>10 DEF Tellers
-----------------------------------------------------------------------------
(* DiscoveryTypeOK.                                                                  *)

(* A place of the Codex home is one of a session, or no session's.         *)
LEMMA PlaceOfSession ==
  ASSUME NEW p \in Of("codex"), p.dir \in {"sessions", "archived_sessions"}
  PROVE  p.name \in SessionIds /\ p \in {Live(p.name), Archived(p.name)} /\ p # Index
<1> DEFINE n == Len(Explicit)
<1>1. n \in Nat
  BY CodexListing
<1>2. PICK i \in 1..(n + 6) : p \in CodexListings[i]
  BY OfListings, CodexListing DEF Providers, Listings
<1>3. i \in 1..n + 6 /\ (i = 1 \/ i \in 2..(n + 1) \/ i = n + 2 \/ i = n + 3 \/ i = n + 4
        \/ i = n + 5 \/ i = n + 6)
  <2> HIDE DEF n
  <2> QED
    BY <1>1
<1>4. \A d, names : \A q \in At(d, names) :
        q.dir = d /\ q.name \in names /\ q = [dir |-> d, name |-> q.name]
  BY DEF At
<1>5. CASE i = 1
  <2>1. p \in At("project", Guidance)
    BY <1>2, <1>5, CodexListing
  <2> QED
    BY <1>4, <2>1
<1>6. CASE i \in 2..(n + 1)
  <2>1. i - 1 \in 1..n /\ (i - 1) + 1 = i
    BY <1>1, <1>6
  <2>2. p \in At("home", {Explicit[i - 1]})
    BY <1>2, <2>1, CodexListing
  <2> QED
    BY <1>4, <2>2
<1>7. CASE i = n + 2
  <2>1. p = Index
    BY <1>2, <1>7, CodexListing
  <2> QED
    BY <2>1 DEF Index
<1>8. CASE i = n + 3
  <2>1. p \in At("home", Profiles)
    BY <1>2, <1>8, CodexListing
  <2> QED
    BY <1>4, <2>1
<1>9. CASE i = n + 4
  <2>1. p \in At("sessions", SessionIds)
    BY <1>2, <1>9, CodexListing
  <2>2. p.name \in SessionIds /\ p = Live(p.name)
    BY <1>4, <2>1 DEF Live
  <2>3. p # Index
    BY <1>4, <2>1 DEF Index
  <2> QED
    BY <2>2, <2>3
<1>10. CASE i = n + 5
  <2>1. p \in At("archived_sessions", SessionIds)
    BY <1>2, <1>10, CodexListing
  <2>2. p.name \in SessionIds /\ p = Archived(p.name)
    BY <1>4, <2>1 DEF Archived
  <2>3. p # Index
    BY <1>4, <2>1 DEF Index
  <2> QED
    BY <2>2, <2>3
<1>11. CASE i = n + 6
  <2>1. p \in At("memories", Memories)
    BY <1>2, <1>11, CodexListing
  <2> QED
    BY <1>4, <2>1
<1> QED
  BY <1>3, <1>5, <1>6, <1>7, <1>8, <1>9, <1>10, <1>11

(* The files of other products have no rows.                               *)
LEMMA NoRowsThere ==
  ASSUME NEW p \in Of("files")
  PROVE  ~HoldsRows(p) /\ p.dir = "user"
<1>1. Range(FileListings) = {At("user", Candidates)}
  BY DEF FileListings, Range
<1>2. p \in At("user", Candidates)
  BY <1>1 DEF Of, Listings
<1> QED
  BY <1>2 DEF At, HoldsRows, Index

(* What is found of places are reads of them.                              *)
LEMMA FoundFacts ==
  ASSUME DiscoveryTypeOK, NEW ps \in SUBSET Places
  PROVE  /\ Entries(file, ps) \subseteq Read
         /\ \A e \in Entries(file, ps) : e.place \in ps /\ e.stamp = file[e.place] /\ e.stamp # 0
         /\ \A p \in ps : file[p] # 0 => [place |-> p, stamp |-> file[p]] \in Entries(file, ps)
<1>1. \A p \in ps : file[p] \in Stamp \cup {0}
  BY DEF DiscoveryTypeOK
<1> QED
  BY <1>1 DEF Entries, Read

LEMMA RowsInFacts ==
  ASSUME DiscoveryTypeOK, NEW p \in Of("codex"), HoldsRows(p), file[p] # 0
  PROVE  RowsIn(p) \subseteq Row
<1>1. file[p] \in Stamp /\ p \in Places
  BY OfListings DEF DiscoveryTypeOK, Providers
<1>2. p # Index => p.name \in SessionIds
  BY PlaceOfSession DEF HoldsRows
<1>3. Indexed \subseteq SessionIds
  BY DiscoveryAssumption
<1> QED
  BY <1>1, <1>2, <1>3 DEF RowsIn, Row

LEMMA OneOfEachPart ==
  ASSUME NEW rows \in Seq(SUBSET Row)
  PROVE  OneOfEach(rows) \subseteq Row
<1>1. \A i \in DOMAIN rows : rows[i] \subseteq Row
  OBVIOUS
<1> QED
  BY <1>1 DEF OneOfEach, Range

LEMMA DiscoveryTypesInit == DiscoveryInit => DiscoveryTypeOK
<1> SUFFICES ASSUME DiscoveryInit PROVE DiscoveryTypeOK
  OBVIOUS
<1>1. file \in [Places -> Stamp \cup {0}]
  BY DiscoveryAssumption DEF DiscoveryInit, Stamp
<1>2. Idle \in PassState
  <2>1. Index \in Of("codex") /\ << >> \in Seq(SUBSET Row)
    BY OfListings
  <2> QED
    BY <2>1 DEF Idle, PassState, Providers
<1>3. Len(CodexListings) \in Nat /\ Len(FileListings) \in Nat /\ Len(CursorListings) \in Nat
  BY OfListings DEF Listings, Providers
<1> QED
  BY <1>1, <1>2, <1>3, DiscoveryAssumption DEF DiscoveryInit, DiscoveryTypeOK, Idle, Ahead, Listings

(* The files change; the pass does not see it.                             *)
LEMMA DisturbedType ==
  ASSUME DiscoveryTypeOK, NEW ps \in SUBSET Places, NEW ss \in SUBSET SessionIds, pass' = Disturbed(ps, ss)
  PROVE  /\ pass' \in PassState /\ Ahead' = Ahead
         /\ pass'.phase = pass.phase /\ pass'.provider = pass.provider
         /\ pass'.listed = pass.listed /\ pass'.todo = pass.todo
         /\ pass'.at = pass.at /\ pass'.cursor = pass.cursor
         /\ pass'.artifacts = pass.artifacts /\ pass'.records = pass.records
         /\ pass'.rows = pass.rows /\ pass'.unread = pass.unread
         /\ pass.phase # "idle" =>
              pass'.touched = pass.touched \cup ps /\ pass'.moved = pass.moved \cup ss
<1>0. pass \in PassState
  BY DEF DiscoveryTypeOK
<1>1. CASE pass.phase = "idle"
  <2>1. pass' = pass
    BY <1>1 DEF Disturbed
  <2> QED
    BY <1>0, <1>1, <2>1 DEF Ahead
<1>2. CASE pass.phase # "idle"
  <2>1. pass' = [pass EXCEPT !.touched = @ \cup ps, !.moved = @ \cup ss]
    BY <1>2 DEF Disturbed
  <2>2. pass' \in PassState
    BY <1>0, <2>1 DEF PassState
  <2> QED
    BY <1>0, <2>1, <2>2 DEF Ahead, PassState
<1> QED
  BY <1>1, <1>2

LEMMA FilesKeepTypes ==
  ASSUME DiscoveryTypeOK, UNCHANGED kept, changes < MaxChanges, changes' = changes + 1,
         UNCHANGED failures, NEW ps \in SUBSET Places, NEW ss \in SUBSET SessionIds,
         pass' = Disturbed(ps, ss), file' \in [Places -> Stamp \cup {0}]
  PROVE  DiscoveryTypeOK'
<1>1. changes' \in 0..MaxChanges
  BY DiscoveryAssumption DEF DiscoveryTypeOK
<1> QED
  BY <1>1, DisturbedType DEF DiscoveryTypeOK

LEMMA WritesKeepTypes ==
  ASSUME DiscoveryTypeOK, NEW p \in Places, Write(p) \/ Delete(p)
  PROVE  DiscoveryTypeOK'
<1>1. PICK n \in {0, changes + 2} : Put(p, n)
  BY DEF Write, Delete
<1>2. changes < MaxChanges /\ changes \in 0..MaxChanges /\ MaxChanges \in Nat
  BY <1>1, DiscoveryAssumption DEF Put, Touch, DiscoveryTypeOK
<1>3. n \in Stamp \cup {0}
  BY <1>2 DEF Stamp
<1>4. file' \in [Places -> Stamp \cup {0}]
  BY <1>1, <1>3 DEF Put, DiscoveryTypeOK
<1> QED
  BY <1>1, <1>4, FilesKeepTypes DEF Put, Touch

(* Where a session is moved from and to.                                   *)
LEMMA MoveFacts ==
  ASSUME DiscoveryTypeOK, NEW s \in SessionIds, NEW p \in {Live(s), Archived(s)},
         NEW q \in {Live(s), Archived(s)}
  PROVE  p \in Places /\ q \in Places
BY OfListings DEF Providers

LEMMA MovesKeepTypes ==
  ASSUME DiscoveryTypeOK, NEW s \in SessionIds, Move(s)
  PROVE  DiscoveryTypeOK'
<1>1. PICK p, q \in {Live(s), Archived(s)} :
        /\ Touch
        /\ file[p] # 0 /\ p # q
        /\ file' = [file EXCEPT ![p] = 0, ![q] = file[p]]
        /\ pass' = Disturbed({p, q}, {s})
        /\ UNCHANGED <<kept, failures>>
  BY DEF Move
<1>2. p \in Places /\ q \in Places
  BY MoveFacts
<1>3. file' \in [Places -> Stamp \cup {0}]
  BY <1>1, <1>2 DEF DiscoveryTypeOK
<1> QED
  BY <1>1, <1>2, <1>3, FilesKeepTypes DEF Touch

(* A step of a pass keeps the types if it makes a pass of the old one.     *)
LEMMA PassKeepsTypes ==
  ASSUME DiscoveryTypeOK, UNCHANGED <<file, kept, changes>>, failures' \in 0..MaxFailures,
         pass' \in PassState, pass'.listed \in 0..Len(Ahead'),
         pass'.todo \subseteq Of(pass'.provider),
         pass'.phase \in {"look", "again"} => pass'.provider = "codex"
  PROVE  DiscoveryTypeOK'
BY DEF DiscoveryTypeOK

LEMMA IdleKeepsTypes ==
  ASSUME DiscoveryTypeOK, pass' = Idle
  PROVE  /\ pass' \in PassState /\ pass'.listed \in 0..Len(Ahead')
         /\ pass'.todo \subseteq Of(pass'.provider)
         /\ pass'.phase \in {"look", "again"} => pass'.provider = "codex"
<1>1. Idle \in PassState
  <2>1. Index \in Of("codex") /\ << >> \in Seq(SUBSET Row)
    BY OfListings
  <2> QED
    BY <2>1 DEF Idle, PassState, Providers
<1>2. Len(CodexListings) \in Nat
  BY OfListings DEF Listings, Providers
<1> QED
  BY <1>1, <1>2 DEF Idle, Ahead, Listings

(* The listings, one after the other.                                      *)
LEMMA NextListing ==
  ASSUME DiscoveryTypeOK, pass.listed < Len(Ahead)
  PROVE  /\ pass.listed + 1 \in 1..Len(Ahead) /\ pass.listed + 1 \in 0..Len(Ahead)
         /\ Len(Ahead) \in Nat /\ pass.listed + 1 \in Nat
         /\ Ahead[pass.listed + 1] \subseteq Of(pass.provider)
<1>1. Ahead \in Seq(SUBSET Of(pass.provider))
  BY OfListings DEF DiscoveryTypeOK, Ahead, PassState
<1>2. pass.listed \in 0..Len(Ahead)
  BY DEF DiscoveryTypeOK
<1>3. pass.listed + 1 \in 1..Len(Ahead)
  BY <1>1, <1>2
<1> QED
  BY <1>1, <1>3

LEMMA LooksKeepTypes ==
  ASSUME DiscoveryTypeOK, \/ \E v \in Providers : Begin(v)
                \/ LookOn \/ LookAt \/ LookMisses \/ AnswerKept \/ GoOn
  PROVE  DiscoveryTypeOK'
<1>0. /\ pass \in PassState /\ failures \in 0..MaxFailures
      /\ pass.listed \in 0..Len(Ahead)
      /\ pass.todo \subseteq Of(pass.provider)
      /\ pass.phase \in {"look", "again"} => pass.provider = "codex"
  BY DEF DiscoveryTypeOK
<1>1. \A v \in Providers : 0 \in 0..Len(Listings(v)) /\ 0 \in 0..Len(CursorListings)
  BY OfListings
<1>2. ASSUME NEW v \in Providers, Begin(v)
      PROVE  DiscoveryTypeOK'
  <2>1. pass' = [Idle EXCEPT !.phase = IF v = "codex" THEN "look" ELSE "read", !.provider = v]
    BY <1>2 DEF Begin
  <2>2. Idle \in PassState
    <3>1. Index \in Of("codex") /\ << >> \in Seq(SUBSET Row)
      BY OfListings
    <3> QED
      BY <3>1 DEF Idle, PassState, Providers
  <2>3. pass' \in PassState /\ pass'.provider = v /\ pass'.listed = 0 /\ pass'.todo = {}
    BY <2>1, <2>2 DEF PassState, Idle
  <2>4. pass'.phase = IF v = "codex" THEN "look" ELSE "read"
    BY <2>1, <2>2 DEF PassState
  <2>5. pass'.listed \in 0..Len(Ahead')
    BY <1>1, <2>3 DEF Ahead
  <2>6. UNCHANGED <<file, kept, changes>> /\ failures' \in 0..MaxFailures
    BY <1>0, <1>2 DEF Begin
  <2>7. pass'.phase \in {"look", "again"} => pass'.provider = "codex"
    BY <2>3, <2>4
  <2>8. pass'.todo \subseteq Of(pass'.provider)
    BY <2>3
  <2> QED
    BY <2>3, <2>5, <2>6, <2>7, <2>8, PassKeepsTypes
<1>3. CASE LookOn
  <2>1. pass' = [pass EXCEPT !.listed = @ + 1, !.todo = CursorListings[pass.listed + 1]]
    BY <1>3 DEF LookOn
  <2>2. Ahead = CursorListings /\ pass.phase = "look" /\ pass.listed < Len(Ahead)
    BY <1>3 DEF LookOn, Ahead
  <2>3. CursorListings[pass.listed + 1] \subseteq Of("codex") /\ Of("codex") \subseteq Places
    BY <1>0, <2>2, NextListing, OfListings DEF Providers
  <2>4. pass' \in PassState
    BY <1>0, <2>1, <2>2, <2>3, NextListing DEF PassState
  <2>5. /\ pass'.listed = pass.listed + 1 /\ pass'.todo = CursorListings[pass.listed + 1]
        /\ pass'.phase = "look" /\ pass'.provider = "codex" /\ Ahead' = Ahead
    BY <1>0, <2>1, <2>2 DEF PassState, Ahead
  <2> QED
    BY <1>0, <1>3, <2>2, <2>3, <2>4, <2>5, NextListing, PassKeepsTypes DEF LookOn
<1>4. CASE LookAt
  <2>1. PICK p \in pass.todo :
          pass' = [pass EXCEPT !.cursor = @ \cup Entries(file, {p} \ Linked),
                               !.todo = @ \ {p}]
    BY <1>4 DEF LookAt
  <2>2. Entries(file, {p} \ Linked) \subseteq Read
    BY <1>0, FoundFacts DEF PassState
  <2>3. pass' \in PassState
    BY <1>0, <2>1, <2>2 DEF PassState
  <2>4. /\ pass'.listed = pass.listed /\ pass'.todo \subseteq pass.todo
        /\ pass'.phase = pass.phase /\ pass'.provider = pass.provider /\ Ahead' = Ahead
    BY <1>0, <2>1 DEF PassState, Ahead
  <2> QED
    BY <1>0, <1>4, <2>3, <2>4, PassKeepsTypes DEF LookAt
<1>5. CASE LookMisses
  <2>1. PICK ps \in SUBSET pass.todo : pass' = [pass EXCEPT !.todo = @ \ ps]
    BY <1>5 DEF LookMisses
  <2>2. failures' \in 0..MaxFailures
    BY <1>0, <1>5, DiscoveryAssumption DEF LookMisses, ReadFault
  <2>3. pass' \in PassState
    BY <1>0, <2>1 DEF PassState
  <2>4. /\ pass'.listed = pass.listed /\ pass'.todo \subseteq pass.todo
        /\ pass'.phase = pass.phase /\ pass'.provider = pass.provider /\ Ahead' = Ahead
    BY <1>0, <2>1 DEF PassState, Ahead
  <2> QED
    BY <1>0, <1>5, <2>2, <2>3, <2>4, PassKeepsTypes DEF LookMisses
<1>6. CASE AnswerKept
  BY <1>0, <1>6, IdleKeepsTypes, PassKeepsTypes DEF AnswerKept
<1>7. CASE GoOn
  <2>1. pass' = [pass EXCEPT !.phase = "read", !.listed = 0] /\ pass.phase = "look"
    BY <1>7 DEF GoOn, Looked
  <2>2. pass' \in PassState
    BY <1>0, <2>1 DEF PassState
  <2>3. /\ pass'.listed = 0 /\ pass'.todo = pass.todo
        /\ pass'.phase = "read" /\ pass'.provider = pass.provider
    BY <1>0, <2>1 DEF PassState
  <2>4. pass'.listed \in 0..Len(Ahead')
    BY <1>0, <1>1, <2>1, <2>3 DEF Ahead, Providers
  <2> QED
    BY <1>0, <1>7, <2>2, <2>3, <2>4, PassKeepsTypes DEF GoOn
<1> QED
  BY <1>2, <1>3, <1>4, <1>5, <1>6, <1>7

(* A step that reads leaves the listings as they are.                      *)
LEMMA ReadsKeepTypes ==
  ASSUME DiscoveryTypeOK, pass.phase \in {"read", "again"},
         \/ List \/ SkipProfile \/ ReadArtifact \/ ReadCandidate
         \/ ReadRecord \/ ReadSessions \/ RecordUnread
  PROVE  DiscoveryTypeOK'
<1>0. /\ pass \in PassState /\ failures \in 0..MaxFailures
      /\ pass.listed \in 0..Len(Ahead)
      /\ pass.todo \subseteq Of(pass.provider)
      /\ pass.phase \in {"look", "again"} => pass.provider = "codex"
      /\ Ahead = Listings(pass.provider)
  BY DEF DiscoveryTypeOK, Ahead
<1>1. ASSUME UNCHANGED <<file, kept, changes>>, failures' \in 0..MaxFailures,
             pass' \in PassState, pass'.phase \in {"read", "again"},
             pass'.phase = "again" => pass.provider = "codex",
             pass'.provider = pass.provider, pass'.listed = pass.listed,
             pass'.todo \subseteq pass.todo
      PROVE  DiscoveryTypeOK'
  <2>1. Ahead' = Ahead
    BY <1>0, <1>1 DEF Ahead
  <2> QED
    BY <1>0, <1>1, <2>1, PassKeepsTypes
<1>2. CASE List
  <2>1. pass' = [pass EXCEPT !.listed = @ + 1,
                             !.todo = Present(Listings(pass.provider)[pass.listed + 1])]
    BY <1>2 DEF List
  <2>2. pass.listed < Len(Ahead) /\ pass.phase = "read"
    BY <1>0, <1>2 DEF List
  <2>3. /\ Present(Listings(pass.provider)[pass.listed + 1]) \subseteq Of(pass.provider)
        /\ Of(pass.provider) \subseteq Places
    BY <1>0, <2>2, NextListing, OfListings DEF PassState, Present
  <2>4. pass' \in PassState
    BY <1>0, <2>1, <2>2, <2>3, NextListing DEF PassState
  <2>5. /\ pass'.listed = pass.listed + 1 /\ pass'.phase = "read"
        /\ pass'.todo = Present(Listings(pass.provider)[pass.listed + 1])
        /\ pass'.provider = pass.provider
    BY <1>0, <2>1, <2>2 DEF PassState
  <2>6. Ahead' = Ahead
    BY <1>0, <2>5 DEF Ahead
  <2> QED
    BY <1>0, <1>2, <2>2, <2>3, <2>4, <2>5, <2>6, NextListing, PassKeepsTypes DEF List
<1>3. CASE SkipProfile
  <2>1. PICK p \in pass.todo : pass' = [pass EXCEPT !.todo = @ \ {p}]
    BY <1>3 DEF SkipProfile
  <2>2. /\ pass' \in PassState /\ pass'.phase = pass.phase /\ pass'.provider = pass.provider
        /\ pass'.listed = pass.listed /\ pass'.todo \subseteq pass.todo
    BY <1>0, <2>1 DEF PassState
  <2>3. pass.phase = "read"
    BY <1>3 DEF SkipProfile
  <2> QED
    BY <1>0, <1>1, <1>3, <2>2, <2>3 DEF SkipProfile
<1>4. CASE ReadArtifact
  <2>1. PICK p \in Present(pass.todo) :
          pass' = [pass EXCEPT !.phase = "again", !.at = p, !.todo = @ \ {p},
                               !.artifacts = @ \cup Entries(file, {p})]
    BY <1>4 DEF ReadArtifact
  <2>2. pass.provider = "codex" /\ p \in Of("codex") /\ p \in Places
    BY <1>0, <1>4, <2>1, OfListings DEF ReadArtifact, Present,
       Providers
  <2>3. Entries(file, {p}) \subseteq Read
    BY <2>2, FoundFacts
  <2>4. pass' \in PassState
    BY <1>0, <2>1, <2>2, <2>3 DEF PassState
  <2>5. /\ pass'.phase = "again" /\ pass'.provider = pass.provider
        /\ pass'.listed = pass.listed /\ pass'.todo \subseteq pass.todo
    BY <1>0, <2>1 DEF PassState
  <2> QED
    BY <1>0, <1>1, <1>4, <2>2, <2>4, <2>5 DEF ReadArtifact
<1>5. CASE ReadCandidate
  <2>1. PICK p \in Present(pass.todo) :
          pass' = [pass EXCEPT !.todo = @ \ {p}, !.artifacts = @ \cup Entries(file, {p}),
                               !.records = @ \cup Entries(file, {p})]
    BY <1>5 DEF ReadCandidate
  <2>2. p \in Of("files") /\ p \in Places /\ ~HoldsRows(p)
    BY <1>0, <1>5, <2>1, OfListings, NoRowsThere DEF ReadCandidate, Present, Providers
  <2>3. Entries(file, {p}) \subseteq Read /\ Entries(file, {p}) \subseteq Record
    BY <2>2, FoundFacts DEF Record
  <2>4. pass' \in PassState
    BY <1>0, <2>1, <2>3 DEF PassState
  <2>5. /\ pass'.phase = pass.phase /\ pass'.provider = pass.provider
        /\ pass'.listed = pass.listed /\ pass'.todo \subseteq pass.todo
    BY <1>0, <2>1 DEF PassState
  <2>6. pass.phase = "read"
    BY <1>5 DEF ReadCandidate
  <2> QED
    BY <1>0, <1>1, <1>5, <2>4, <2>5, <2>6 DEF ReadCandidate
<1>6. CASE ReadRecord
  <2>1. /\ pass' = [pass EXCEPT !.phase = "read", !.records = @ \cup Entries(file, {pass.at})]
        /\ ~HoldsRows(pass.at)
    BY <1>6 DEF ReadRecord
  <2>2. pass.at \in Places
    BY <1>0, OfListings DEF PassState, Providers
  <2>3. Entries(file, {pass.at}) \subseteq Record
    BY <2>1, <2>2, FoundFacts DEF Record
  <2>4. /\ pass' \in PassState /\ pass'.phase = "read" /\ pass'.provider = pass.provider
        /\ pass'.listed = pass.listed /\ pass'.todo \subseteq pass.todo
    BY <1>0, <2>1, <2>3 DEF PassState
  <2> QED
    BY <1>0, <1>1, <1>6, <2>4 DEF ReadRecord
<1>7. CASE ReadSessions
  <2>1. /\ pass' = [pass EXCEPT !.phase = "read", !.rows = Append(@, RowsIn(pass.at))]
        /\ HoldsRows(pass.at) /\ file[pass.at] # 0
    BY <1>7 DEF ReadSessions
  <2>2. pass.at \in Of("codex") /\ pass.rows \in Seq(SUBSET Row)
    BY <1>0 DEF PassState
  <2>3. RowsIn(pass.at) \in SUBSET Row
    BY <2>1, <2>2, RowsInFacts
  <2>4. Append(pass.rows, RowsIn(pass.at)) \in Seq(SUBSET Row)
    BY <2>2, <2>3
  <2>5. /\ pass' \in PassState /\ pass'.phase = "read" /\ pass'.provider = pass.provider
        /\ pass'.listed = pass.listed /\ pass'.todo \subseteq pass.todo
    BY <1>0, <2>1, <2>4 DEF PassState
  <2> QED
    BY <1>0, <1>1, <1>7, <2>5 DEF ReadSessions
<1>8. CASE RecordUnread
  <2>1. pass' = [pass EXCEPT !.phase = "read", !.unread = @ \cup {pass.at}]
    BY <1>8 DEF RecordUnread
  <2>2. pass.at \in Places
    BY <1>0, OfListings DEF PassState, Providers
  <2>3. /\ pass' \in PassState /\ pass'.phase = "read" /\ pass'.provider = pass.provider
        /\ pass'.listed = pass.listed /\ pass'.todo \subseteq pass.todo
    BY <1>0, <2>1, <2>2 DEF PassState
  <2>4. failures' \in 0..MaxFailures
    BY <1>0, <1>8, DiscoveryAssumption DEF RecordUnread, ReadFault
  <2> QED
    BY <1>1, <1>8, <2>3, <2>4 DEF RecordUnread
<1> QED
  BY <1>2, <1>3, <1>4, <1>5, <1>6, <1>7, <1>8

LEMMA EndsKeepTypes ==
  ASSUME DiscoveryTypeOK, Finish \/ Gone \/ ReadFails
  PROVE  DiscoveryTypeOK'
<1>0. failures \in 0..MaxFailures /\ pass \in PassState
  BY DEF DiscoveryTypeOK
<1>1. CASE Finish
  <2>1. /\ kept' = [kept EXCEPT ![pass.provider] = [cursor |-> pass.cursor, batch |-> Collected]]
        /\ pass' = Idle /\ UNCHANGED <<file, changes, failures>>
    BY <1>1 DEF Finish
  <2>2. Collected \in Collections
    BY <1>0, OneOfEachPart DEF Collected, Collections, PassState
  <2>3. [cursor |-> pass.cursor, batch |-> Collected] \in Kept
    BY <1>0, <2>2 DEF Kept, PassState
  <2>4. kept' \in [Providers -> Kept \cup {NoCollection}]
    BY <2>1, <2>3 DEF DiscoveryTypeOK
  <2> QED
    BY <2>1, <2>4, IdleKeepsTypes DEF DiscoveryTypeOK
<1>2. CASE Gone
  BY <1>0, <1>2, IdleKeepsTypes, PassKeepsTypes DEF Gone, GiveUp
<1>3. CASE ReadFails
  <2>1. failures' \in 0..MaxFailures
    BY <1>0, <1>3, DiscoveryAssumption DEF ReadFails, ReadFault
  <2> QED
    BY <1>3, <2>1, IdleKeepsTypes, PassKeepsTypes DEF ReadFails, GiveUp
<1> QED
  BY <1>1, <1>2, <1>3

LEMMA DiscoveryTypesKept == DiscoveryTypeOK /\ [DiscoveryNext]_discoveryVars => DiscoveryTypeOK'
<1> SUFFICES ASSUME DiscoveryTypeOK, [DiscoveryNext]_discoveryVars
             PROVE  DiscoveryTypeOK'
  OBVIOUS
<1>1. CASE UNCHANGED discoveryVars
  BY <1>1 DEF discoveryVars, DiscoveryTypeOK, Ahead
<1>2. CASE \E p \in Places : Write(p) \/ Delete(p)
  BY <1>2, WritesKeepTypes
<1>3. CASE \E s \in SessionIds : Move(s)
  BY <1>3, MovesKeepTypes
<1>4. CASE \/ \E v \in Providers : Begin(v)
           \/ LookOn \/ LookAt \/ LookMisses \/ AnswerKept \/ GoOn
  BY <1>4, LooksKeepTypes
<1>5. CASE \/ List \/ SkipProfile \/ ReadArtifact \/ ReadCandidate
           \/ ReadRecord \/ ReadSessions \/ RecordUnread
  <2>1. pass.phase \in {"read", "again"}
    BY <1>5 DEF List, SkipProfile, ReadArtifact, ReadCandidate, ReadRecord,
       ReadSessions,
                RecordUnread
  <2> QED
    BY <1>5, <2>1, ReadsKeepTypes
<1>6. CASE Finish \/ Gone \/ ReadFails
  BY <1>6, EndsKeepTypes
<1> QED
  BY <1>1, <1>2, <1>3, <1>4, <1>5, <1>6 DEF DiscoveryNext, CollectStep

(* A pass goes through the listings of its provider and through no others, *)
(* only of what is there; what it collects, and the kept collections, are  *)
(* reads, records and rows of the places a provider lists.                 *)
THEOREM DiscoveryTypeCorrect == DiscoverySpec => []DiscoveryTypeOK
BY DiscoveryTypesInit, DiscoveryTypesKept, PTL DEF DiscoverySpec

-----------------------------------------------------------------------------
(* The inductive invariant.  A file in the cursor is followed by its       *)
(* stamp: while the file is there, what the collection has of it is of     *)
(* that stamp, and all there is once the pass is done with it; a stamp     *)
(* that is gone does not come back.                                        *)

SessionDirs == {"sessions", "archived_sessions"}

(* Where the file of a place may be moved.                                 *)
Kin(p) == IF p.dir \in SessionDirs THEN {Live(p.name), Archived(p.name)} ELSE {p}

Lost(f, p, n) == \A q \in Kin(p) : f[q] # n

Still(p, ss) == p.dir \in SessionDirs => p.name \notin ss

OneFile(f) == \A s \in SessionIds : f[Live(s)] = 0 \/ f[Archived(s)] = 0

Told(rows) == UNION Range(rows)

RowsOf(p, n) == [session : IF p = Index THEN Indexed ELSE {p.name},
                 place : {p}, stamp : {n}]

Entry(p, n) == [place |-> p, stamp |-> n]

(* What is collected of a place is of that stamp.                          *)
Faithful(b, rows, p, n) ==
  /\ \A e \in b.artifacts \cup b.records : e.place = p => e.stamp = n
  /\ \A r \in Told(rows) : r.place = p => r.stamp = n

(* All that there is of a file is collected.                               *)
Complete(b, rows, p, n) ==
  n # 0 => /\ Entry(p, n) \in b.artifacts
           /\ ~HoldsRows(p) => p \in b.unread \/ Entry(p, n) \in b.records
           /\ HoldsRows(p) => RowsOf(p, n) \subseteq Told(rows)

(* What was read again was read before, and rows tell of their sessions.   *)
Tidy(b, rows) ==
  /\ \A e \in b.records : e.place \notin b.unread /\ \E a \in b.artifacts : a.place = e.place
  /\ \A r \in Told(rows) :
       /\ \E a \in b.artifacts : a.place = r.place
       /\ r.place \in Tellers(r.session)
       /\ r.place = Index => r.session \in Indexed

Listed(w, p) == \E i \in 1..w.listed : p \in Listings(w.provider)[i]

(* The pass w is done with a place, and what it has of it is good.         *)
Been(w, p) ==
  /\ w.phase \in {"read", "again"} /\ Listed(w, p)
  /\ p \notin w.todo
  /\ ~(w.phase = "again" /\ w.at = p)

Good(w, p, n) ==
  /\ Faithful(w, w.rows, p, n)
  /\ Been(w, p) => Complete(w, w.rows, p, n)
  /\ w.phase = "again" /\ w.at = p /\ n # 0 => Entry(p, n) \in w.artifacts

Empty(w) == w.artifacts = {} /\ w.records = {} /\ w.rows = << >> /\ w.unread = {}

Visits(w) ==
  /\ w.phase \in {"idle", "look"} => Empty(w)
  /\ w.phase = "idle" \/ w.provider # "codex" => w.cursor = {}
  /\ w.phase \in {"read", "again"} => \A p \in w.todo : Listed(w, p)
  /\ w.phase = "again" =>
       /\ Listed(w, w.at) /\ w.at \notin w.todo
       /\ \E a \in w.artifacts : a.place = w.at
  /\ \A p \in w.unread : Been(w, p)
  /\ \A e \in w.records : Been(w, e.place)
  /\ Tidy(w, w.rows)

UntouchedGood(w, f) == \A p \in Of(w.provider) \ w.touched : Good(w, p, f[p])

CursorGood(w, f) ==
  \A c \in w.cursor : Still(c.place, w.moved) =>
    Lost(f, c.place, c.stamp) \/ (f[c.place] = c.stamp /\ Good(w, c.place, c.stamp))

KeptGood(k, rows, f) ==
  /\ k.batch.rows = OneOfEach(rows)
  /\ Tidy(k.batch, rows)
  /\ \A c \in k.cursor : Still(c.place, k.batch.moved) =>
       \/ Lost(f, c.place, c.stamp)
       \/ Faithful(k.batch, rows, c.place, c.stamp) /\ Complete(k.batch, rows, c.place, c.stamp)

(* Every stamp was given, the next one is new.                             *)
Issued(f, marks, n) ==
  /\ \A p \in Places : f[p] <= n + 1
  /\ \A c \in marks : c.stamp <= n + 1 /\ c.place \in Of("codex")

PassHolds ==
  /\ OneFile(file) /\ Issued(file, pass.cursor, changes)
  /\ Visits(pass) /\ UntouchedGood(pass, file) /\ CursorGood(pass, file)

KeptHolds ==
  kept["codex"] # NoCollection =>
    /\ Issued(file, kept["codex"].cursor, changes)
    /\ \E rows \in Seq(SUBSET Row) : KeptGood(kept["codex"], rows, file)

DiscoveryInv == DiscoveryTypeOK /\ PassHolds /\ KeptHolds

-----------------------------------------------------------------------------
(* Files change.                                                           *)

LEMMA KinFacts ==
  ASSUME NEW p \in Of("codex")
  PROVE  /\ Kin(p) \subseteq Places /\ p \in Kin(p) /\ p \in Places
         /\ p.dir \in SessionDirs =>
              p.name \in SessionIds /\ Kin(p) = {Live(p.name), Archived(p.name)}
<1>1. p \in Places
  BY OfListings DEF Providers
<1>2. CASE p.dir \in SessionDirs
  BY <1>1, <1>2, PlaceOfSession, OfListings DEF Kin, SessionDirs, Providers
<1>3. CASE p.dir \notin SessionDirs
  BY <1>1, <1>3 DEF Kin
<1> QED
  BY <1>2, <1>3

(* A pass that has collected nothing is good.                              *)
LEMMA EmptyGood ==
  ASSUME NEW w \in PassState, Empty(w), w.phase # "again", NEW p, NEW n, ~Been(w, p)
  PROVE  Good(w, p, n)
<1>1. Told(w.rows) = {}
  BY DEF Empty, Told, Range
<1> QED
  BY <1>1 DEF Good, Faithful, Empty

LEMMA EmptyTidy ==
  ASSUME NEW w \in PassState, Empty(w)
  PROVE  Tidy(w, w.rows)
<1>1. Told(w.rows) = {}
  BY DEF Empty, Told, Range
<1> QED
  BY <1>1 DEF Tidy, Empty

(* Nothing the pass has collected changes.                                 *)
LEMMA SamePass ==
  ASSUME NEW w \in PassState, NEW u \in PassState,
         u.phase = w.phase, u.provider = w.provider, u.listed = w.listed, u.todo = w.todo,
         u.at = w.at, u.cursor = w.cursor, u.artifacts = w.artifacts, u.records = w.records,
         u.rows = w.rows, u.unread = w.unread
  PROVE  /\ \A p, n : Good(w, p, n) <=> Good(u, p, n)
         /\ Visits(w) => Visits(u)
<1>1. \A p : (Listed(w, p) <=> Listed(u, p)) /\ (Been(w, p) <=> Been(u, p))
  BY DEF Been, Listed
<1>2. \A p, n : Faithful(w, w.rows, p, n) <=> Faithful(u, u.rows, p, n)
  BY DEF Faithful
<1>3. \A p, n : Complete(w, w.rows, p, n) <=> Complete(u, u.rows, p, n)
  BY DEF Complete
<1>4. Tidy(w, w.rows) <=> Tidy(u, u.rows)
  BY DEF Tidy
<1>5. Empty(w) <=> Empty(u)
  BY DEF Empty
<1>6. \A p, n : Good(w, p, n) <=> Good(u, p, n)
  BY <1>1, <1>2, <1>3 DEF Good
<1>7. Visits(w) => Visits(u)
  BY <1>1, <1>4, <1>5 DEF Visits
<1> QED
  BY <1>6, <1>7

(* A stamp that is gone does not come back.                                *)
LEMMA PutLost ==
  ASSUME DiscoveryTypeOK, NEW q \in Places, NEW m \in {0, changes + 2},
         file' = [file EXCEPT ![q] = m], OneFile(file),
         NEW p \in Of("codex"), NEW n \in Stamp, n <= changes + 1
  PROVE  /\ Lost(file, p, n) => Lost(file', p, n)
         /\ p = q /\ file[p] = n => Lost(file', p, n)
         /\ p # q => file'[p] = file[p]
<1>1. m # n
  BY DiscoveryAssumption DEF Stamp, DiscoveryTypeOK
<1>2. \A x \in Places : file'[x] = IF x = q THEN m ELSE file[x]
  BY DEF DiscoveryTypeOK
<1>3. Kin(p) \subseteq Places /\ p \in Kin(p) /\ p \in Places
  BY KinFacts
<1>4. Lost(file, p, n) => Lost(file', p, n)
  BY <1>1, <1>2, <1>3 DEF Lost
<1>5. ASSUME p = q, file[p] = n, NEW x \in Kin(p)
      PROVE  file'[x] # n
  <2>1. CASE x = q
    BY <1>1, <1>2, <1>3, <2>1
  <2>2. CASE x # q
    <3>1. p.dir \in SessionDirs
      BY <1>5, <2>2 DEF Kin
    <3>2. p.name \in SessionIds /\ Kin(p) = {Live(p.name), Archived(p.name)}
      BY <3>1, KinFacts
    <3>3. file[x] = 0 \/ file[p] = 0
      BY <1>3, <1>5, <2>2, <3>2 DEF OneFile
    <3>4. n # 0 /\ n \in Nat
      BY DEF Stamp
    <3> QED
      BY <1>2, <1>3, <1>5, <2>2, <3>3, <3>4
  <2> QED
    BY <2>1, <2>2
<1> QED
  BY <1>2, <1>3, <1>4, <1>5 DEF Lost

LEMMA IssuedStamps ==
  ASSUME DiscoveryTypeOK, NEW marks \in SUBSET Read, Issued(file, marks, changes), NEW c \in marks
  PROVE  c.place \in Of("codex") /\ c.stamp \in Stamp /\ c.stamp <= changes + 1
BY DEF Issued, Read

(* The cursor of the kept collection.                                      *)
LEMMA KeptCursor ==
  ASSUME DiscoveryTypeOK, kept["codex"] # NoCollection
  PROVE  kept["codex"] \in Kept /\ kept["codex"].cursor \in SUBSET Read
BY DEF DiscoveryTypeOK, Kept, Providers

(* What writes, removals and moves have in common.                         *)
LEMMA FilesKeep ==
  ASSUME DiscoveryInv, DiscoveryTypeOK', NEW ps \in SUBSET Places, NEW ss \in SUBSET SessionIds,
         pass' = Disturbed(ps, ss), changes' = changes + 1, kept' = kept,
         OneFile(file'),
         \A x \in Places : file'[x] <= changes' + 1,
         \A x \in Places \ ps : file'[x] = file[x],
         \A p \in Of("codex") : \A n \in Stamp : n <= changes + 1 =>
           /\ Lost(file, p, n) => Lost(file', p, n)
           /\ Still(p, ss) /\ file[p] = n => Lost(file', p, n) \/ file'[p] = n
  PROVE  DiscoveryInv'
<1>0. /\ DiscoveryTypeOK /\ Issued(file, pass.cursor, changes)
      /\ Visits(pass) /\ UntouchedGood(pass, file) /\ CursorGood(pass, file)
      /\ pass \in PassState /\ pass' \in PassState
  BY DEF DiscoveryInv, PassHolds, DiscoveryTypeOK
<1>1. /\ pass'.phase = pass.phase /\ pass'.provider = pass.provider
      /\ pass'.listed = pass.listed /\ pass'.todo = pass.todo
      /\ pass'.at = pass.at /\ pass'.cursor = pass.cursor
      /\ pass'.artifacts = pass.artifacts /\ pass'.records = pass.records
      /\ pass'.rows = pass.rows /\ pass'.unread = pass.unread
      /\ pass.phase # "idle" =>
           pass'.touched = pass.touched \cup ps /\ pass'.moved = pass.moved \cup ss
  BY <1>0, DisturbedType
<1>2. /\ \A p, n : Good(pass, p, n) <=> Good(pass', p, n)
      /\ Visits(pass')
  BY <1>0, <1>1, SamePass
<1>3. ASSUME NEW marks \in SUBSET Read, Issued(file, marks, changes)
      PROVE  Issued(file', marks, changes')
  <2>1. changes \in Nat /\ \A c \in marks : c.stamp \in Nat
    BY <1>0, DiscoveryAssumption DEF DiscoveryTypeOK, Read, Stamp
  <2> QED
    BY <1>3, <2>1 DEF Issued
<1>4. ASSUME NEW marks \in SUBSET Read, Issued(file, marks, changes), NEW c \in marks
      PROVE  /\ Lost(file, c.place, c.stamp) => Lost(file', c.place, c.stamp)
             /\ Still(c.place, ss) /\ file[c.place] = c.stamp =>
                  Lost(file', c.place, c.stamp) \/ file'[c.place] = c.stamp
  BY <1>0, <1>4, IssuedStamps
<1>5. UntouchedGood(pass', file')
  <2> SUFFICES ASSUME NEW p \in Of(pass.provider) \ pass'.touched
               PROVE  Good(pass', p, file'[p])
    BY <1>1 DEF UntouchedGood
  <2>1. CASE pass.phase = "idle"
    <3>1. Empty(pass') /\ ~Been(pass', p)
      BY <1>1, <1>2, <2>1 DEF Visits, Been
    <3> QED
      BY <1>0, <1>1, <2>1, <3>1, EmptyGood
  <2>2. CASE pass.phase # "idle"
    <3>1. p \notin ps /\ p \notin pass.touched
      BY <1>1, <2>2
    <3>2. p \in Places
      BY <1>0, OfListings DEF PassState
    <3>3. file'[p] = file[p]
      BY <3>1, <3>2
    <3>4. Good(pass, p, file[p])
      BY <1>0, <3>1 DEF UntouchedGood
    <3> QED
      BY <1>2, <3>3, <3>4
  <2> QED
    BY <2>1, <2>2
<1>6. CursorGood(pass', file')
  <2> SUFFICES ASSUME NEW c \in pass.cursor, Still(c.place, pass'.moved)
               PROVE  \/ Lost(file', c.place, c.stamp)
                      \/ file'[c.place] = c.stamp /\ Good(pass', c.place, c.stamp)
    BY <1>1 DEF CursorGood
  <2>1. pass.phase # "idle"
    BY <1>0 DEF Visits
  <2>2. Still(c.place, pass.moved) /\ Still(c.place, ss)
    BY <1>1, <2>1 DEF Still
  <2>3. Lost(file, c.place, c.stamp) \/ (file[c.place] = c.stamp /\ Good(pass, c.place, c.stamp))
    BY <1>0, <2>2 DEF CursorGood
  <2>4. pass.cursor \in SUBSET Read
    BY <1>0 DEF PassState
  <2> QED
    BY <1>0, <1>2, <1>4, <2>2, <2>3, <2>4
<1>7. KeptHolds'
  <2> SUFFICES ASSUME kept["codex"] # NoCollection
               PROVE  /\ Issued(file', kept["codex"].cursor, changes')
                      /\ \E rows \in Seq(SUBSET Row) : KeptGood(kept["codex"], rows, file')
    BY DEF KeptHolds
  <2>1. PICK rows \in Seq(SUBSET Row) : KeptGood(kept["codex"], rows, file)
    BY DEF DiscoveryInv, KeptHolds
  <2>2. kept["codex"].cursor \in SUBSET Read /\ Issued(file, kept["codex"].cursor, changes)
    BY <1>0, KeptCursor DEF DiscoveryInv, KeptHolds
  <2>3. KeptGood(kept["codex"], rows, file')
    BY <1>4, <2>1, <2>2 DEF KeptGood
  <2> QED
    BY <1>3, <2>2, <2>3
<1>8. Issued(file', pass'.cursor, changes')
  BY <1>0, <1>1, <1>3 DEF PassState
<1>9. PassHolds'
  BY <1>2, <1>5, <1>6, <1>8 DEF PassHolds
<1> QED
  BY <1>7, <1>9 DEF DiscoveryInv

LEMMA PutKeeps ==
  ASSUME DiscoveryInv, DiscoveryTypeOK', NEW q \in Places, NEW m \in {0, changes + 2}, Put(q, m),
         m # 0 => \A s \in SessionIds : q \in {Live(s), Archived(s)} =>
                    \A x \in {Live(s), Archived(s)} \ {q} : file[x] = 0
  PROVE  DiscoveryInv'
<1>0. DiscoveryTypeOK /\ OneFile(file) /\ Issued(file, pass.cursor, changes)
  BY DEF DiscoveryInv, PassHolds
<1>1. /\ file' = [file EXCEPT ![q] = m] /\ pass' = Disturbed({q}, {})
      /\ changes' = changes + 1 /\ kept' = kept
  BY DEF Put, Touch
<1>2. \A x \in Places : file'[x] = IF x = q THEN m ELSE file[x]
  BY <1>0, <1>1 DEF DiscoveryTypeOK
<1>3. OneFile(file')
  <2> SUFFICES ASSUME NEW s \in SessionIds
               PROVE  file'[Live(s)] = 0 \/ file'[Archived(s)] = 0
    BY DEF OneFile
  <2>1. Live(s) \in Places /\ Archived(s) \in Places
    BY <1>0, MoveFacts
  <2>2. CASE q \in {Live(s), Archived(s)} /\ m # 0
    <3>1. Live(s) # Archived(s)
      BY DEF Live, Archived
    <3> QED
      BY <1>2, <2>1, <2>2, <3>1
  <2>3. CASE ~(q \in {Live(s), Archived(s)} /\ m # 0)
    BY <1>0, <1>2, <2>1, <2>3 DEF OneFile
  <2> QED
    BY <2>2, <2>3
<1>4. \A x \in Places : file'[x] <= changes' + 1
  <2>1. changes \in Nat /\ \A x \in Places : file[x] \in Nat
    BY <1>0, DiscoveryAssumption DEF DiscoveryTypeOK, Stamp
  <2> QED
    BY <1>0, <1>1, <1>2, <2>1 DEF Issued
<1>5. ASSUME NEW p \in Of("codex"), NEW n \in Stamp, n <= changes + 1
      PROVE  /\ Lost(file, p, n) => Lost(file', p, n)
             /\ file[p] = n => Lost(file', p, n) \/ file'[p] = n
  BY <1>0, <1>1, <1>5, PutLost
<1> DEFINE ps == {q}
           ss == {}
<1>6. ps \in SUBSET Places /\ ss \in SUBSET SessionIds /\ pass' = Disturbed(ps, ss)
  BY <1>1
<1>7. \A x \in Places \ ps : file'[x] = file[x]
  BY <1>2
<1> HIDE DEF ps, ss
<1> QED
  BY <1>1, <1>3, <1>4, <1>5, <1>6, <1>7, FilesKeep

LEMMA MoveKeeps ==
  ASSUME DiscoveryInv, DiscoveryTypeOK', NEW s \in SessionIds, Move(s)
  PROVE  DiscoveryInv'
<1>0. DiscoveryTypeOK /\ OneFile(file) /\ Issued(file, pass.cursor, changes)
  BY DEF DiscoveryInv, PassHolds
<1>1. PICK a, b \in {Live(s), Archived(s)} :
        /\ changes' = changes + 1
        /\ file[a] # 0 /\ a # b
        /\ file' = [file EXCEPT ![a] = 0, ![b] = file[a]]
        /\ pass' = Disturbed({a, b}, {s})
        /\ kept' = kept
  BY DEF Move, Touch
<1>2. a \in Places /\ b \in Places /\ {a, b} = {Live(s), Archived(s)}
  BY <1>0, <1>1, MoveFacts
<1>3. \A x \in Places : file'[x] = IF x = a THEN 0 ELSE IF x = b THEN file[a] ELSE file[x]
  BY <1>0, <1>1, <1>2 DEF DiscoveryTypeOK
<1>4. \A t \in SessionIds \ {s} : {Live(t), Archived(t)} \cap {a, b} = {}
  BY <1>2 DEF Live, Archived
<1>5. OneFile(file')
  <2> SUFFICES ASSUME NEW t \in SessionIds
               PROVE  file'[Live(t)] = 0 \/ file'[Archived(t)] = 0
    BY DEF OneFile
  <2>1. Live(t) \in Places /\ Archived(t) \in Places
    BY <1>0, MoveFacts
  <2>2. CASE t = s
    BY <1>2, <1>3, <2>2
  <2>3. CASE t # s
    BY <1>0, <1>3, <1>4, <2>1, <2>3 DEF OneFile
  <2> QED
    BY <2>2, <2>3
<1>6. \A x \in Places : file'[x] <= changes' + 1
  <2>1. changes \in Nat /\ \A x \in Places : file[x] \in Nat
    BY <1>0, DiscoveryAssumption DEF DiscoveryTypeOK, Stamp
  <2>2. \A x \in Places : file[x] <= changes + 1
    BY <1>0 DEF Issued
  <2>3. \A x \in Places : file'[x] \in {0, file[a], file[x]}
    BY <1>3
  <2>4. changes' = changes + 1
    BY <1>1
  <2> SUFFICES ASSUME NEW x \in Places
               PROVE  file'[x] <= changes' + 1
    OBVIOUS
  <2>5. file'[x] \in Nat /\ file'[x] <= changes + 1
    BY <1>2, <2>1, <2>2, <2>3
  <2> QED
    BY <2>1, <2>4, <2>5
<1>7. ASSUME NEW p \in Of("codex"), NEW n \in Stamp, n <= changes + 1
      PROVE  /\ Lost(file, p, n) => Lost(file', p, n)
             /\ Still(p, {s}) /\ file[p] = n => Lost(file', p, n) \/ file'[p] = n
  <2>1. Kin(p) \subseteq Places /\ p \in Kin(p) /\ p \in Places
    BY <1>0, KinFacts
  <2>2. n # 0
    BY DEF Stamp
  <2>3. p.dir \in SessionDirs =>
          p.name \in SessionIds /\ Kin(p) = {Live(p.name), Archived(p.name)}
    BY <1>0, KinFacts
  <2>4. p.dir \notin SessionDirs => Kin(p) = {p} /\ p \notin {a, b}
    BY <1>2 DEF Kin, SessionDirs, Live, Archived
  <2>5. CASE p.dir \in SessionDirs /\ p.name = s
    <3>1. Kin(p) = {a, b}
      BY <1>2, <2>3, <2>5
    <3> QED
      BY <1>2, <1>3, <2>2, <2>5, <3>1 DEF Lost, Still
  <2>6. CASE ~(p.dir \in SessionDirs /\ p.name = s)
    <3>1. Kin(p) \cap {a, b} = {}
      BY <1>4, <2>3, <2>4, <2>6
    <3>2. \A x \in Kin(p) : file'[x] = file[x]
      BY <1>3, <2>1, <3>1
    <3> QED
      BY <2>1, <3>2 DEF Lost
  <2> QED
    BY <2>5, <2>6
<1> DEFINE ps == {a, b}
           ss == {s}
<1>8. ps \in SUBSET Places /\ ss \in SUBSET SessionIds /\ pass' = Disturbed(ps, ss)
  BY <1>1, <1>2
<1>9. \A x \in Places \ ps : file'[x] = file[x]
  BY <1>3
<1>10. \A p \in Of("codex") : \A n \in Stamp : n <= changes + 1 =>
         /\ Lost(file, p, n) => Lost(file', p, n)
         /\ Still(p, ss) /\ file[p] = n => Lost(file', p, n) \/ file'[p] = n
  BY <1>7
<1> HIDE DEF ps, ss
<1> QED
  BY <1>1, <1>5, <1>6, <1>8, <1>9, <1>10, FilesKeep

-----------------------------------------------------------------------------
(* The pass goes on.                                                       *)

(* A pass that begins, ends or fails has nothing.                          *)
LEMMA FreshKeeps ==
  ASSUME DiscoveryInv, DiscoveryTypeOK', UNCHANGED <<file, changes>>, KeptHolds',
         Empty(pass'), pass'.cursor = {}, pass'.todo = {}, pass'.listed = 0,
         pass'.phase # "again"
  PROVE  DiscoveryInv'
<1>0. pass' \in PassState /\ PassHolds
  BY DEF DiscoveryInv, DiscoveryTypeOK
<1>1. \A p : ~Listed(pass', p) /\ ~Been(pass', p)
  BY DEF Listed, Been
<1>2. \A p, n : Good(pass', p, n)
  BY <1>0, <1>1, EmptyGood
<1>3. Visits(pass')
  BY <1>0, EmptyTidy DEF Visits, Empty
<1>4. UntouchedGood(pass', file') /\ CursorGood(pass', file')
  BY <1>2 DEF UntouchedGood, CursorGood
<1>5. OneFile(file') /\ Issued(file', pass'.cursor, changes')
  BY <1>0 DEF PassHolds, Issued
<1> QED
  BY <1>3, <1>4, <1>5 DEF DiscoveryInv, PassHolds

(* A step that keeps what is good of the files as they are keeps all.      *)
LEMMA ReadKeeps ==
  ASSUME DiscoveryInv, DiscoveryTypeOK', UNCHANGED <<file, kept, changes>>,
         pass'.cursor = pass.cursor, pass'.touched = pass.touched, pass'.moved = pass.moved,
         pass'.provider = pass.provider, Visits(pass'),
         \A p \in Of(pass.provider) : Good(pass, p, file[p]) => Good(pass', p, file[p])
  PROVE  DiscoveryInv'
<1>0. /\ OneFile(file) /\ Issued(file, pass.cursor, changes)
      /\ Visits(pass) /\ UntouchedGood(pass, file) /\ CursorGood(pass, file) /\ KeptHolds
  BY DEF DiscoveryInv, PassHolds
<1>1. UntouchedGood(pass', file')
  BY <1>0 DEF UntouchedGood
<1>2. ASSUME NEW c \in pass.cursor, Still(c.place, pass.moved)
      PROVE  Lost(file, c.place, c.stamp) \/
               (file[c.place] = c.stamp /\ Good(pass', c.place, c.stamp))
  <2>1. c.place \in Of(pass.provider)
    BY <1>0 DEF Issued, Visits
  <2>2. Lost(file, c.place, c.stamp) \/
          (file[c.place] = c.stamp /\ Good(pass, c.place, c.stamp))
    BY <1>0, <1>2 DEF CursorGood
  <2> QED
    BY <2>1, <2>2
<1>3. CursorGood(pass', file')
  BY <1>2 DEF CursorGood
<1>4. OneFile(file') /\ Issued(file', pass'.cursor, changes') /\ KeptHolds'
  BY <1>0 DEF KeptHolds
<1>5. PassHolds'
  BY <1>1, <1>3, <1>4 DEF PassHolds
<1> QED
  BY <1>4, <1>5 DEF DiscoveryInv

(* One place is read, as it is.                                            *)
LEMMA OneRead ==
  ASSUME NEW w \in PassState, NEW u \in PassState, NEW f, NEW a,
         w.artifacts \subseteq u.artifacts, w.records \subseteq u.records,
         w.unread \subseteq u.unread, Told(w.rows) \subseteq Told(u.rows),
         \A e \in u.artifacts \cup u.records :
           e \in w.artifacts \cup w.records \/ (e.place = a /\ e.stamp = f[a]),
         \A r \in Told(u.rows) : r \in Told(w.rows) \/ (r.place = a /\ r.stamp = f[a]),
         \A p : Been(u, p) => \/ Been(w, p) \/ f[p] = 0
                              \/ p = a /\ (Good(w, a, f[a]) => Complete(u, u.rows, a, f[a])),
         u.phase = "again" => u.at = a /\ (f[a] # 0 => Entry(a, f[a]) \in u.artifacts),
         NEW p, Good(w, p, f[p])
  PROVE  Good(u, p, f[p])
<1>1. Faithful(u, u.rows, p, f[p])
  BY DEF Good, Faithful
<1>2. ASSUME Been(u, p)
      PROVE  Complete(u, u.rows, p, f[p])
  <2>1. CASE Been(w, p)
    <3>1. Complete(w, w.rows, p, f[p])
      BY <2>1 DEF Good
    <3> QED
      BY <3>1 DEF Complete
  <2>2. CASE f[p] = 0
    BY <2>2 DEF Complete
  <2>3. CASE p = a /\ (Good(w, a, f[a]) => Complete(u, u.rows, a, f[a]))
    BY <2>3
  <2> QED
    BY <1>2, <2>1, <2>2, <2>3
<1> QED
  BY <1>1, <1>2 DEF Good

LEMMA LooksKeep ==
  ASSUME DiscoveryInv, DiscoveryTypeOK',
         \/ \E v \in Providers : Begin(v)
         \/ LookOn \/ LookAt \/ LookMisses \/ AnswerKept \/ GoOn
  PROVE  DiscoveryInv'
<1>0. /\ DiscoveryTypeOK /\ pass \in PassState /\ pass' \in PassState /\ Visits(pass) /\ PassHolds /\ KeptHolds
  BY DEF DiscoveryInv, PassHolds, DiscoveryTypeOK
<1>1. ASSUME NEW v \in Providers, Begin(v)
      PROVE  DiscoveryInv'
  <2>1. pass' = [Idle EXCEPT !.phase = IF v = "codex" THEN "look" ELSE "read", !.provider = v]
    BY <1>1 DEF Begin
  <2>2. /\ Empty(pass') /\ pass'.cursor = {} /\ pass'.todo = {} /\ pass'.listed = 0
        /\ pass'.phase # "again"
    BY <2>1 DEF Idle, Empty
  <2>3. UNCHANGED <<file, changes>> /\ KeptHolds'
    BY <1>0, <1>1 DEF Begin, KeptHolds
  <2> QED
    BY <2>2, <2>3, FreshKeeps
<1>2. CASE AnswerKept
  <2>1. /\ Empty(pass') /\ pass'.cursor = {} /\ pass'.todo = {} /\ pass'.listed = 0
        /\ pass'.phase # "again"
    BY <1>2 DEF AnswerKept, Idle, Empty
  <2>2. UNCHANGED <<file, changes>> /\ KeptHolds'
    BY <1>0, <1>2 DEF AnswerKept, KeptHolds
  <2> QED
    BY <2>1, <2>2, FreshKeeps
<1>3. CASE LookOn \/ GoOn
  <2>1. pass.phase = "look" /\ Empty(pass) /\ pass.provider = "codex"
    BY <1>0, <1>3 DEF LookOn, GoOn, Looked, Visits, DiscoveryTypeOK
  <2>2. /\ pass'.cursor = pass.cursor /\ pass'.touched = pass.touched
        /\ pass'.moved = pass.moved /\ pass'.provider = pass.provider
        /\ pass'.phase \in {"look", "read"} /\ Empty(pass')
        /\ pass'.phase = "read" => pass'.listed = 0 /\ pass'.todo = {}
        /\ UNCHANGED <<file, kept, changes>>
    <3>1. CASE LookOn
      <4>1. pass' = [pass EXCEPT !.listed = @ + 1, !.todo = CursorListings[pass.listed + 1]]
        BY <3>1 DEF LookOn
      <4> QED
        BY <1>0, <2>1, <3>1, <4>1 DEF LookOn, Empty, PassState
    <3>2. CASE GoOn
      <4>1. pass' = [pass EXCEPT !.phase = "read", !.listed = 0] /\ pass.todo = {}
        BY <3>2 DEF GoOn, Looked
      <4> QED
        BY <1>0, <2>1, <3>2, <4>1 DEF GoOn, Empty, PassState
    <3> QED
      BY <1>3, <3>1, <3>2
  <2>3. \A p : ~Been(pass', p)
    BY <2>2 DEF Been, Listed
  <2>4. \A p, n : Good(pass', p, n)
    BY <1>0, <2>2, <2>3, EmptyGood
  <2>5. Visits(pass')
    BY <1>0, <2>1, <2>2, EmptyTidy DEF Visits, Empty
  <2> QED
    BY <2>2, <2>4, <2>5, ReadKeeps
<1>4. CASE LookMisses
  <2>1. PICK ps \in SUBSET pass.todo : pass' = [pass EXCEPT !.todo = @ \ ps]
    BY <1>4 DEF LookMisses
  <2>2. pass.phase = "look" /\ Empty(pass) /\ pass.provider = "codex"
    BY <1>0, <1>4 DEF LookMisses, Visits, DiscoveryTypeOK
  <2>3. /\ pass'.cursor = pass.cursor /\ pass'.touched = pass.touched
        /\ pass'.moved = pass.moved /\ pass'.provider = pass.provider
        /\ pass'.phase = "look" /\ Empty(pass')
        /\ UNCHANGED <<file, kept, changes>>
    BY <1>0, <1>4, <2>1, <2>2 DEF LookMisses, Empty, PassState
  <2>4. \A p : ~Been(pass', p)
    BY <2>3 DEF Been
  <2>5. \A p, n : Good(pass', p, n)
    BY <1>0, <2>3, <2>4, EmptyGood
  <2>6. Visits(pass')
    BY <1>0, <2>2, <2>3, EmptyTidy DEF Visits, Empty
  <2> QED
    BY <2>3, <2>5, <2>6, ReadKeeps
<1>5. CASE LookAt
  <2>1. PICK a \in pass.todo :
          pass' = [pass EXCEPT !.cursor = @ \cup Entries(file, {a} \ Linked),
                               !.todo = @ \ {a}]
    BY <1>5 DEF LookAt
  <2>2. pass.phase = "look" /\ Empty(pass) /\ pass.provider = "codex"
    BY <1>0, <1>5 DEF LookAt, Visits, DiscoveryTypeOK
  <2>3. /\ pass'.cursor = pass.cursor \cup Entries(file, {a} \ Linked)
        /\ pass'.moved = pass.moved /\ pass'.provider = pass.provider
        /\ pass'.phase = "look" /\ Empty(pass')
    BY <1>0, <2>1, <2>2 DEF PassState, Empty
  <2>4. \A p : ~Been(pass', p)
    BY <2>3 DEF Been
  <2>5. \A p, n : Good(pass', p, n)
    BY <1>0, <2>3, <2>4, EmptyGood
  <2>6. Visits(pass')
    BY <1>0, <2>2, <2>3, EmptyTidy DEF Visits, Empty
  <2>7. UNCHANGED <<file, kept, changes>> /\ KeptHolds'
    BY <1>0, <1>5 DEF LookAt, KeptHolds
  <2>8. a \in Of("codex") /\ a \in Places
    BY <1>0, <2>2, OfListings DEF DiscoveryTypeOK, Providers
  <2>9. \A e \in Entries(file, {a} \ Linked) : e.place = a /\ e.stamp = file[a]
    BY <1>0, <2>8, FoundFacts
  <2>10. CursorGood(pass', file')
    BY <1>0, <2>3, <2>5, <2>7, <2>9 DEF PassHolds, CursorGood
  <2>11. Issued(file', pass'.cursor, changes') /\ OneFile(file')
    BY <1>0, <2>3, <2>7, <2>8, <2>9 DEF PassHolds, Issued
  <2>12. UntouchedGood(pass', file')
    BY <2>5 DEF UntouchedGood
  <2>13. PassHolds'
    BY <2>6, <2>10, <2>11, <2>12 DEF PassHolds
  <2> QED
    BY <2>7, <2>13 DEF DiscoveryInv
<1> QED
  BY <1>1, <1>2, <1>3, <1>4, <1>5

LEMMA FailuresKeep ==
  ASSUME DiscoveryInv, DiscoveryTypeOK', Gone \/ ReadFails
  PROVE  DiscoveryInv'
<1>1. pass' = Idle /\ UNCHANGED <<file, kept, changes>>
  BY DEF Gone, ReadFails, GiveUp
<1>2. /\ Empty(pass') /\ pass'.cursor = {} /\ pass'.todo = {} /\ pass'.listed = 0
      /\ pass'.phase # "again"
  BY <1>1 DEF Idle, Empty
<1>3. KeptHolds'
  BY <1>1 DEF DiscoveryInv, KeptHolds
<1> QED
  BY <1>1, <1>2, <1>3, FreshKeeps

-----------------------------------------------------------------------------
(* The pass reads.                                                         *)

LEMMA ListingsApart ==
  ASSUME NEW v \in Providers,
         NEW i \in 1..Len(Listings(v)), NEW k \in 1..Len(Listings(v)), i # k,
         NEW p \in Listings(v)[i]
  PROVE  p \notin Listings(v)[k]
<1>1. CASE v = "files"
  <2>1. Len(FileListings) = 1 /\ Listings(v) = FileListings
    BY <1>1 DEF FileListings, Listings
  <2>2. 1..Len(Listings(v)) = {1}
    <3>1. Len(Listings(v)) = 1
      BY <2>1
    <3> QED
      BY <3>1
  <2> QED
    BY <2>2
<1>2. CASE v = "codex"
  <2> DEFINE n == Len(Explicit)
  <2>1. n \in Nat /\ DOMAIN Explicit = 1..n /\ Len(CodexListings) = n + 6
    BY CodexListing
  <2>2. /\ CodexListings[1] = At("project", Guidance)
        /\ \A m \in 1..n : CodexListings[m + 1] = At("home", {Explicit[m]})
        /\ CodexListings[n + 2] = {Index}
        /\ CodexListings[n + 3] = At("home", Profiles)
        /\ CodexListings[n + 4] = At("sessions", SessionIds)
        /\ CodexListings[n + 5] = At("archived_sessions", SessionIds)
        /\ CodexListings[n + 6] = At("memories", Memories)
    BY CodexListing
  <2>3. Listings(v) = CodexListings /\ i \in 1..(n + 6) /\ k \in 1..(n + 6)
    BY <1>2, <2>1 DEF Listings
  <2>4. Index.dir = "home" /\ Index.name = SessionIndex
    BY DEF Index
  <2>5. \A d, names : \A q \in At(d, names) : q.dir = d /\ q.name \in names
    BY DEF At
  <2>6. /\ \A x, y \in 1..n : Explicit[x] = Explicit[y] => x = y
        /\ \A x \in 1..n : Explicit[x] # SessionIndex /\ Explicit[x] \notin Profiles
        /\ SessionIndex \notin Profiles
    BY <2>1, DiscoveryAssumption DEF IsInjective, Range
  <2> HIDE DEF n
  <2>7. ASSUME NEW m \in 1..(n + 6), p \in CodexListings[m]
        PROVE  \/ m = 1 /\ p.dir = "project"
               \/ m - 1 \in 1..n /\ p.dir = "home" /\ p.name = Explicit[m - 1]
               \/ m = n + 2 /\ p.dir = "home" /\ p.name = SessionIndex
               \/ m = n + 3 /\ p.dir = "home" /\ p.name \in Profiles
               \/ m = n + 4 /\ p.dir = "sessions"
               \/ m = n + 5 /\ p.dir = "archived_sessions"
               \/ m = n + 6 /\ p.dir = "memories"
    <3>1. CASE m - 1 \in 1..n
      <4>1. (m - 1) + 1 = m
        OBVIOUS
      <4>2. CodexListings[m] = At("home", {Explicit[m - 1]})
        BY <2>2, <3>1, <4>1
      <4> QED
        BY <2>5, <2>7, <3>1, <4>2
    <3>2. CASE m \in {1, n + 2, n + 3, n + 4, n + 5, n + 6}
      BY <2>2, <2>4, <2>5, <2>7, <3>2
    <3>3. m - 1 \in 1..n \/ m \in {1, n + 2, n + 3, n + 4, n + 5, n + 6}
      BY <2>1
    <3> QED
      BY <3>1, <3>2, <3>3
  <2>8. ASSUME p \in CodexListings[i], p \in CodexListings[k]
        PROVE  FALSE
    <3>1. i - 1 = k - 1 => i = k
      BY <2>3
    <3>2. i - 1 \in 1..n /\ k - 1 \in 1..n /\ p.name = Explicit[i - 1] /\ p.name = Explicit[k - 1] => FALSE
      BY <2>6, <3>1
    <3>3. \A m \in {i, k} : p.dir = "home" =>
            (m - 1 \in 1..n /\ p.name = Explicit[m - 1]) \/ (m = n + 2 /\ p.name = SessionIndex)
              \/ (m = n + 3 /\ p.name \in Profiles)
      BY <2>3, <2>7, <2>8
    <3>4. p.dir # "home"
      BY <2>6, <3>2, <3>3
    <3>5. /\ (i = 1 /\ p.dir = "project") \/ (i = n + 4 /\ p.dir = "sessions")
             \/ (i = n + 5 /\ p.dir = "archived_sessions") \/ (i = n + 6 /\ p.dir = "memories")
          /\ (k = 1 /\ p.dir = "project") \/ (k = n + 4 /\ p.dir = "sessions")
             \/ (k = n + 5 /\ p.dir = "archived_sessions") \/ (k = n + 6 /\ p.dir = "memories")
      BY <2>3, <2>7, <2>8, <3>4
    <3> QED
      BY <3>5
  <2> QED
    BY <2>3, <2>8
<1> QED
  BY <1>1, <1>2 DEF Providers

LEMMA ToldAppend ==
  ASSUME NEW rows \in Seq(SUBSET Row), NEW x \in SUBSET Row
  PROVE  Told(Append(rows, x)) = Told(rows) \cup x
<1> DEFINE n == Len(rows)
           t == Append(rows, x)
<1>1. n \in Nat /\ DOMAIN rows = 1..n
  OBVIOUS
<1>2. /\ DOMAIN t = 1..(n + 1)
      /\ \A i \in 1..n : t[i] = rows[i]
      /\ t[n + 1] = x
  OBVIOUS
<1> HIDE DEF n, t
<1>3. ASSUME NEW r \in Told(t)
      PROVE  r \in Told(rows) \cup x
  <2>1. PICK i \in 1..(n + 1) : r \in t[i]
    BY <1>2 DEF Told, Range
  <2>2. i \in 1..n \/ i = n + 1
    BY <1>1
  <2> QED
    BY <1>1, <1>2, <2>1, <2>2 DEF Told, Range
<1>4. ASSUME NEW r \in Told(rows)
      PROVE  r \in Told(t)
  <2>1. PICK i \in 1..n : r \in rows[i]
    BY <1>1 DEF Told, Range
  <2>2. i \in 1..(n + 1)
    BY <1>1
  <2> QED
    BY <1>2, <2>1, <2>2 DEF Told, Range
<1>5. ASSUME NEW r \in x
      PROVE  r \in Told(t)
  <2>1. n + 1 \in 1..(n + 1)
    BY <1>1
  <2> QED
    BY <1>2, <2>1 DEF Told, Range
<1> QED
  BY <1>3, <1>4, <1>5 DEF t

(* What a step that reads finds.                                           *)
LEMMA Reading ==
  ASSUME DiscoveryInv, DiscoveryTypeOK'
  PROVE  /\ DiscoveryTypeOK /\ pass \in PassState /\ pass' \in PassState /\ Visits(pass)
         /\ pass.todo \subseteq Of(pass.provider) /\ Of(pass.provider) \subseteq Places
         /\ pass.phase = "again" => pass.provider = "codex"
        
BY OfListings DEF DiscoveryInv, PassHolds, DiscoveryTypeOK, PassState

LEMMA ListKeeps ==
  ASSUME DiscoveryInv, DiscoveryTypeOK', List
  PROVE  DiscoveryInv'
<1> DEFINE next == Listings(pass.provider)[pass.listed + 1]
<1>0. /\ DiscoveryTypeOK /\ pass \in PassState /\ pass' \in PassState /\ Visits(pass)
  BY Reading
<1>1. /\ pass.phase = "read" /\ pass.todo = {} /\ UNCHANGED <<file, kept, changes>>
      /\ pass' = [pass EXCEPT !.listed = @ + 1, !.todo = Present(next)]
      /\ pass.listed < Len(Listings(pass.provider))
  BY DEF List
<1>2. /\ pass'.cursor = pass.cursor /\ pass'.touched = pass.touched
      /\ pass'.moved = pass.moved /\ pass'.provider = pass.provider
      /\ pass'.phase = "read" /\ pass'.listed = pass.listed + 1 /\ pass'.todo = Present(next)
      /\ pass'.artifacts = pass.artifacts /\ pass'.records = pass.records
      /\ pass'.rows = pass.rows /\ pass'.unread = pass.unread
  BY <1>0, <1>1 DEF PassState
<1>3. /\ pass.listed \in Nat /\ pass.provider \in Providers
      /\ Len(Listings(pass.provider)) \in Nat
  BY <1>0, OfListings DEF PassState
<1>4. ASSUME NEW p, Been(pass, p)
      PROVE  Been(pass', p)
  <2>1. PICK i \in 1..pass.listed : p \in Listings(pass.provider)[i]
    BY <1>4 DEF Been, Listed
  <2>2. /\ i \in 1..(pass.listed + 1) /\ i # pass.listed + 1
        /\ i \in 1..Len(Listings(pass.provider))
        /\ pass.listed + 1 \in 1..Len(Listings(pass.provider))
    BY <1>1, <1>3
  <2>3. p \notin next
    BY <1>0, <1>3, <2>1, <2>2, ListingsApart
  <2> QED
    BY <1>2, <2>1, <2>2, <2>3 DEF Been, Listed, Present
<1>5. ASSUME NEW p, Been(pass', p)
      PROVE  Been(pass, p) \/ file[p] = 0
  <2>1. PICK i \in 1..(pass.listed + 1) : p \in Listings(pass.provider)[i]
    BY <1>2, <1>5 DEF Been, Listed
  <2>2. CASE i = pass.listed + 1
    BY <1>2, <1>5, <2>1, <2>2 DEF Been, Present
  <2>3. CASE i # pass.listed + 1
    <3>1. i \in 1..pass.listed
      BY <1>3, <2>3
    <3> QED
      BY <1>1, <2>1, <3>1 DEF Been, Listed
  <2> QED
    BY <2>2, <2>3
<1>6. Visits(pass')
  <2>1. ASSUME NEW p \in pass'.todo
        PROVE  Listed(pass', p)
    <3>1. p \in next /\ pass.listed + 1 \in 1..(pass.listed + 1)
      BY <1>2, <1>3, <2>1 DEF Present
    <3> QED
      BY <1>2, <3>1 DEF Listed
  <2>2. Tidy(pass', pass'.rows)
    BY <1>0, <1>2 DEF Visits, Tidy
  <2> QED
    BY <1>0, <1>1, <1>2, <1>4, <2>1, <2>2 DEF Visits
<1>7. \A p : Good(pass, p, file[p]) => Good(pass', p, file[p])
  <2>1. \A e \in pass'.artifacts \cup pass'.records : e \in pass.artifacts \cup pass.records
    BY <1>2
  <2> HIDE DEF next
  <2> QED
    BY <1>0, <1>2, <1>5, <2>1, OneRead
<1> QED
  BY <1>1, <1>2, <1>6, <1>7, ReadKeeps

LEMMA SkipKeeps ==
  ASSUME DiscoveryInv, DiscoveryTypeOK', SkipProfile
  PROVE  DiscoveryInv'
<1>0. /\ DiscoveryTypeOK /\ pass \in PassState /\ pass' \in PassState /\ Visits(pass)
  BY Reading
<1>1. PICK a \in pass.todo : file[a] = 0 /\ pass' = [pass EXCEPT !.todo = @ \ {a}]
  BY DEF SkipProfile
<1>2. /\ pass.phase = "read" /\ UNCHANGED <<file, kept, changes>>
      /\ pass'.cursor = pass.cursor /\ pass'.touched = pass.touched
      /\ pass'.moved = pass.moved /\ pass'.provider = pass.provider
      /\ pass'.phase = "read" /\ pass'.listed = pass.listed /\ pass'.todo = pass.todo \ {a}
      /\ pass'.artifacts = pass.artifacts /\ pass'.records = pass.records
      /\ pass'.rows = pass.rows /\ pass'.unread = pass.unread
  BY <1>0, <1>1 DEF PassState, SkipProfile
<1>3. \A p : Listed(pass', p) <=> Listed(pass, p)
  BY <1>2 DEF Listed
<1>4. \A p : Been(pass, p) => Been(pass', p)
  BY <1>2, <1>3 DEF Been
<1>5. \A p : Been(pass', p) => Been(pass, p) \/ file[p] = 0
  BY <1>1, <1>2, <1>3 DEF Been
<1>6. Visits(pass')
  <2>1. Tidy(pass', pass'.rows)
    BY <1>0, <1>2 DEF Visits, Tidy
  <2> QED
    BY <1>0, <1>2, <1>3, <1>4, <2>1 DEF Visits
<1>7. \A p : Good(pass, p, file[p]) => Good(pass', p, file[p])
  <2>1. \A e \in pass'.artifacts \cup pass'.records : e \in pass.artifacts \cup pass.records
    BY <1>2
  <2> QED
    BY <1>0, <1>2, <1>5, <2>1, OneRead
<1> QED
  BY <1>2, <1>6, <1>7, ReadKeeps

LEMMA ArtifactKeeps ==
  ASSUME DiscoveryInv, DiscoveryTypeOK', ReadArtifact
  PROVE  DiscoveryInv'
<1>0. /\ DiscoveryTypeOK /\ pass \in PassState /\ pass' \in PassState /\ Visits(pass)
      /\ pass.todo \subseteq Places
  BY Reading
<1>1. PICK a \in pass.todo :
        /\ file[a] # 0
        /\ pass' = [pass EXCEPT !.phase = "again", !.at = a, !.todo = @ \ {a},
                                !.artifacts = @ \cup Entries(file, {a})]
  BY DEF ReadArtifact, Present
<1>2. /\ pass.phase = "read" /\ UNCHANGED <<file, kept, changes>>
      /\ pass'.cursor = pass.cursor /\ pass'.touched = pass.touched
      /\ pass'.moved = pass.moved /\ pass'.provider = pass.provider
      /\ pass'.phase = "again" /\ pass'.at = a
      /\ pass'.listed = pass.listed /\ pass'.todo = pass.todo \ {a}
      /\ pass'.artifacts = pass.artifacts \cup Entries(file, {a})
      /\ pass'.records = pass.records
      /\ pass'.rows = pass.rows /\ pass'.unread = pass.unread
  BY <1>0, <1>1 DEF PassState, ReadArtifact
<1>3. \A p : Listed(pass', p) <=> Listed(pass, p)
  BY <1>2 DEF Listed
<1>4. \A p : Been(pass, p) <=> Been(pass', p)
  BY <1>1, <1>2, <1>3 DEF Been
<1>5. /\ Entry(a, file[a]) \in Entries(file, {a})
      /\ \A e \in Entries(file, {a}) : e.place = a /\ e.stamp = file[a]
  BY <1>0, <1>1, FoundFacts DEF Entry
<1>6. Visits(pass')
  <2>1. Tidy(pass', pass'.rows)
    BY <1>0, <1>2 DEF Visits, Tidy
  <2>2. Listed(pass', pass'.at) /\ pass'.at \notin pass'.todo
    BY <1>0, <1>2, <1>3 DEF Visits
  <2>3. \E e \in pass'.artifacts : e.place = pass'.at
    BY <1>2, <1>5
  <2> QED
    BY <1>0, <1>2, <1>3, <1>4, <2>1, <2>2, <2>3 DEF Visits
<1>7. \A p : Good(pass, p, file[p]) => Good(pass', p, file[p])
  <2>1. \A e \in pass'.artifacts \cup pass'.records :
          e \in pass.artifacts \cup pass.records \/ (e.place = a /\ e.stamp = file[a])
    BY <1>2, <1>5
  <2>2. Entry(a, file[a]) \in pass'.artifacts /\ pass'.at = a
    BY <1>2, <1>5
  <2>3. /\ pass.artifacts \subseteq pass'.artifacts /\ pass.records \subseteq pass'.records
        /\ pass.unread \subseteq pass'.unread /\ Told(pass.rows) = Told(pass'.rows)
    BY <1>2
  <2> QED
    BY <1>0, <1>4, <2>1, <2>2, <2>3, OneRead
<1> QED
  BY <1>2, <1>6, <1>7, ReadKeeps

LEMMA CandidateKeeps ==
  ASSUME DiscoveryInv, DiscoveryTypeOK', ReadCandidate
  PROVE  DiscoveryInv'
<1>0. /\ DiscoveryTypeOK /\ pass \in PassState /\ pass' \in PassState /\ Visits(pass)
      /\ pass.todo \subseteq Of(pass.provider) /\ Of(pass.provider) \subseteq Places
  BY Reading
<1>1. PICK a \in pass.todo :
        /\ file[a] # 0
        /\ pass' = [pass EXCEPT !.todo = @ \ {a}, !.artifacts = @ \cup Entries(file, {a}),
                                !.records = @ \cup Entries(file, {a})]
  BY DEF ReadCandidate, Present
<1>2. /\ pass.phase = "read" /\ UNCHANGED <<file, kept, changes>>
      /\ pass'.cursor = pass.cursor /\ pass'.touched = pass.touched
      /\ pass'.moved = pass.moved /\ pass'.provider = pass.provider
      /\ pass'.phase = "read"
      /\ pass'.listed = pass.listed /\ pass'.todo = pass.todo \ {a}
      /\ pass'.artifacts = pass.artifacts \cup Entries(file, {a})
      /\ pass'.records = pass.records \cup Entries(file, {a})
      /\ pass'.rows = pass.rows /\ pass'.unread = pass.unread
  BY <1>0, <1>1 DEF PassState, ReadCandidate
<1>3. \A p : Listed(pass', p) <=> Listed(pass, p)
  BY <1>2 DEF Listed
<1>4. /\ \A p : Been(pass, p) => Been(pass', p) /\ p # a
      /\ \A p : Been(pass', p) => Been(pass, p) \/ p = a
      /\ Been(pass', a)
  BY <1>0, <1>1, <1>2, <1>3 DEF Been, Visits
<1>5. /\ Entry(a, file[a]) \in Entries(file, {a})
      /\ \A e \in Entries(file, {a}) : e.place = a /\ e.stamp = file[a]
  BY <1>0, <1>1, FoundFacts DEF Entry
<1>6. ~HoldsRows(a)
  BY <1>0, NoRowsThere DEF ReadCandidate
<1>7. Visits(pass')
  <2>1. ASSUME NEW e \in pass'.records
        PROVE  /\ e.place \notin pass'.unread /\ Been(pass', e.place)
               /\ \E x \in pass'.artifacts : x.place = e.place
    <3>1. CASE e \in pass.records
      BY <1>0, <1>2, <1>4, <3>1 DEF Visits, Tidy
    <3>2. CASE e \in Entries(file, {a})
      BY <1>0, <1>2, <1>4, <1>5, <3>2 DEF Visits
    <3> QED
      BY <1>2, <3>1, <3>2
  <2>2. Tidy(pass', pass'.rows)
    BY <1>0, <1>2, <2>1 DEF Visits, Tidy
  <2> QED
    BY <1>0, <1>2, <1>3, <1>4, <2>1, <2>2 DEF Visits
<1>8. \A p : Good(pass, p, file[p]) => Good(pass', p, file[p])
  <2>1. \A e \in pass'.artifacts \cup pass'.records :
          e \in pass.artifacts \cup pass.records \/ (e.place = a /\ e.stamp = file[a])
    BY <1>2, <1>5
  <2>2. Complete(pass', pass'.rows, a, file[a])
    BY <1>2, <1>5, <1>6 DEF Complete
  <2> QED
    BY <1>0, <1>2, <1>4, <2>1, <2>2, OneRead
<1> QED
  BY <1>2, <1>7, <1>8, ReadKeeps

(* What the second reads of a file have in common.                         *)
LEMMA ReadAgain ==
  ASSUME DiscoveryInv, DiscoveryTypeOK', pass.phase = "again", pass'.phase = "read",
         pass'.provider = pass.provider, pass'.listed = pass.listed, pass'.todo = pass.todo
  PROVE  /\ \A p : Listed(pass', p) <=> Listed(pass, p)
         /\ \A p : Been(pass, p) => Been(pass', p) /\ p # pass.at
         /\ \A p : Been(pass', p) => Been(pass, p) \/ p = pass.at
         /\ Been(pass', pass.at)
         /\ pass.at \notin pass.unread /\ \A e \in pass.records : e.place # pass.at
         /\ \E x \in pass.artifacts : x.place = pass.at
         /\ pass.at \in Of("codex") /\ pass.at \in Places
         /\ Good(pass, pass.at, file[pass.at]) /\ file[pass.at] # 0 =>
              Entry(pass.at, file[pass.at]) \in pass.artifacts
<1>0. pass \in PassState /\ Visits(pass)
  BY Reading
<1>1. \A p : Listed(pass', p) <=> Listed(pass, p)
  BY DEF Listed
<1>2. /\ \A p : Been(pass, p) => Been(pass', p) /\ p # pass.at
      /\ \A p : Been(pass', p) => Been(pass, p) \/ p = pass.at
      /\ Been(pass', pass.at)
  BY <1>0, <1>1 DEF Been, Visits
<1>3. pass.at \notin pass.unread /\ \A e \in pass.records : e.place # pass.at
  BY <1>0, <1>2 DEF Visits
<1>4. pass.at \in Of("codex") /\ pass.at \in Places
  BY <1>0, OfListings DEF PassState, Providers
<1> QED
  BY <1>0, <1>1, <1>2, <1>3, <1>4 DEF Visits, Good

LEMMA RecordKeeps ==
  ASSUME DiscoveryInv, DiscoveryTypeOK', ReadRecord
  PROVE  DiscoveryInv'
<1> DEFINE a == pass.at
<1>0. /\ DiscoveryTypeOK /\ pass \in PassState /\ pass' \in PassState /\ Visits(pass)
  BY Reading
<1>1. /\ pass.phase = "again" /\ ~HoldsRows(a) /\ UNCHANGED <<file, kept, changes>>
      /\ pass' = [pass EXCEPT !.phase = "read", !.records = @ \cup Entries(file, {a})]
  BY DEF ReadRecord
<1>2. /\ pass'.cursor = pass.cursor /\ pass'.touched = pass.touched
      /\ pass'.moved = pass.moved /\ pass'.provider = pass.provider
      /\ pass'.phase = "read"
      /\ pass'.listed = pass.listed /\ pass'.todo = pass.todo
      /\ pass'.artifacts = pass.artifacts
      /\ pass'.records = pass.records \cup Entries(file, {a})
      /\ pass'.rows = pass.rows /\ pass'.unread = pass.unread
  BY <1>0, <1>1 DEF PassState
<1>3. /\ \A p : Listed(pass', p) <=> Listed(pass, p)
      /\ \A p : Been(pass, p) => Been(pass', p) /\ p # a
      /\ \A p : Been(pass', p) => Been(pass, p) \/ p = a
      /\ Been(pass', a)
      /\ a \notin pass.unread /\ \E x \in pass.artifacts : x.place = a
      /\ a \in Places
      /\ Good(pass, a, file[a]) /\ file[a] # 0 => Entry(a, file[a]) \in pass.artifacts
  BY <1>1, <1>2, ReadAgain
<1>4. /\ file[a] # 0 => Entry(a, file[a]) \in Entries(file, {a})
      /\ \A e \in Entries(file, {a}) : e.place = a /\ e.stamp = file[a]
  BY <1>0, <1>3, FoundFacts DEF Entry
<1> HIDE DEF a
<1>5. Visits(pass')
  <2>1. ASSUME NEW e \in pass'.records
        PROVE  /\ e.place \notin pass'.unread /\ Been(pass', e.place)
               /\ \E x \in pass'.artifacts : x.place = e.place
    <3>1. CASE e \in pass.records
      BY <1>0, <1>2, <1>3, <3>1 DEF Visits, Tidy
    <3>2. CASE e \in Entries(file, {a})
      BY <1>2, <1>3, <1>4, <3>2
    <3> QED
      BY <1>2, <3>1, <3>2
  <2>2. Tidy(pass', pass'.rows)
    BY <1>0, <1>2, <2>1 DEF Visits, Tidy
  <2> QED
    BY <1>0, <1>1, <1>2, <1>3, <2>1, <2>2 DEF Visits
<1>6. \A p : Good(pass, p, file[p]) => Good(pass', p, file[p])
  <2>1. \A e \in pass'.artifacts \cup pass'.records :
          e \in pass.artifacts \cup pass.records \/ (e.place = a /\ e.stamp = file[a])
    BY <1>2, <1>4
  <2>2. Good(pass, a, file[a]) => Complete(pass', pass'.rows, a, file[a])
    BY <1>1, <1>2, <1>3, <1>4 DEF Complete
  <2>3. /\ pass.artifacts \subseteq pass'.artifacts /\ pass.records \subseteq pass'.records
        /\ pass.unread \subseteq pass'.unread /\ Told(pass.rows) = Told(pass'.rows)
        /\ pass'.phase # "again"
    BY <1>2
  <2> QED
    BY <1>0, <1>3, <2>1, <2>2, <2>3, OneRead
<1> QED
  BY <1>1, <1>2, <1>5, <1>6, ReadKeeps

LEMMA UnreadKeeps ==
  ASSUME DiscoveryInv, DiscoveryTypeOK', RecordUnread
  PROVE  DiscoveryInv'
<1> DEFINE a == pass.at
<1>0. /\ DiscoveryTypeOK /\ pass \in PassState /\ pass' \in PassState /\ Visits(pass)
  BY Reading
<1>1. /\ pass.phase = "again" /\ ~HoldsRows(a) /\ UNCHANGED <<file, kept, changes>>
      /\ pass' = [pass EXCEPT !.phase = "read", !.unread = @ \cup {a}]
  BY DEF RecordUnread
<1>2. /\ pass'.cursor = pass.cursor /\ pass'.touched = pass.touched
      /\ pass'.moved = pass.moved /\ pass'.provider = pass.provider
      /\ pass'.phase = "read"
      /\ pass'.listed = pass.listed /\ pass'.todo = pass.todo
      /\ pass'.artifacts = pass.artifacts /\ pass'.records = pass.records
      /\ pass'.rows = pass.rows /\ pass'.unread = pass.unread \cup {a}
  BY <1>0, <1>1 DEF PassState
<1>3. /\ \A p : Listed(pass', p) <=> Listed(pass, p)
      /\ \A p : Been(pass, p) => Been(pass', p) /\ p # a
      /\ \A p : Been(pass', p) => Been(pass, p) \/ p = a
      /\ Been(pass', a)
      /\ \A e \in pass.records : e.place # a
      /\ Good(pass, a, file[a]) /\ file[a] # 0 => Entry(a, file[a]) \in pass.artifacts
  BY <1>1, <1>2, ReadAgain
<1> HIDE DEF a
<1>4. Visits(pass')
  <2>1. Tidy(pass', pass'.rows)
    BY <1>0, <1>2, <1>3 DEF Visits, Tidy
  <2>2. /\ \A p \in pass'.unread : Been(pass', p)
        /\ \A e \in pass'.records : Been(pass', e.place)
    BY <1>0, <1>2, <1>3 DEF Visits
  <2> QED
    BY <1>0, <1>1, <1>2, <1>3, <2>1, <2>2 DEF Visits
<1>5. \A p : Good(pass, p, file[p]) => Good(pass', p, file[p])
  <2>1. Good(pass, a, file[a]) => Complete(pass', pass'.rows, a, file[a])
    BY <1>1, <1>2, <1>3 DEF Complete
  <2>2. /\ pass.artifacts = pass'.artifacts /\ pass.records = pass'.records
        /\ pass.unread \subseteq pass'.unread /\ Told(pass.rows) = Told(pass'.rows)
        /\ pass'.phase # "again"
    BY <1>2
  <2> QED
    BY <1>0, <1>3, <2>1, <2>2, OneRead
<1> QED
  BY <1>1, <1>2, <1>4, <1>5, ReadKeeps

LEMMA SessionsKeep ==
  ASSUME DiscoveryInv, DiscoveryTypeOK', ReadSessions
  PROVE  DiscoveryInv'
<1> DEFINE a == pass.at
<1>0. /\ DiscoveryTypeOK /\ pass \in PassState /\ pass' \in PassState /\ Visits(pass)
  BY Reading
<1>1. /\ pass.phase = "again" /\ HoldsRows(a) /\ UNCHANGED <<file, kept, changes>>
      /\ file[a] # 0
      /\ pass' = [pass EXCEPT !.phase = "read", !.rows = Append(@, RowsIn(a))]
  BY DEF ReadSessions
<1>2. /\ pass'.cursor = pass.cursor /\ pass'.touched = pass.touched
      /\ pass'.moved = pass.moved /\ pass'.provider = pass.provider
      /\ pass'.phase = "read"
      /\ pass'.listed = pass.listed /\ pass'.todo = pass.todo
      /\ pass'.artifacts = pass.artifacts /\ pass'.records = pass.records
      /\ pass'.rows = Append(pass.rows, RowsIn(a)) /\ pass'.unread = pass.unread
  BY <1>0, <1>1 DEF PassState
<1>3. /\ \A p : Listed(pass', p) <=> Listed(pass, p)
      /\ \A p : Been(pass, p) => Been(pass', p) /\ p # a
      /\ \A p : Been(pass', p) => Been(pass, p) \/ p = a
      /\ \E x \in pass.artifacts : x.place = a
      /\ a \in Of("codex")
      /\ Good(pass, a, file[a]) /\ file[a] # 0 => Entry(a, file[a]) \in pass.artifacts
  BY <1>1, <1>2, ReadAgain
<1>4. Told(pass'.rows) = Told(pass.rows) \cup RowsIn(a)
  <2>1. RowsIn(a) \in SUBSET Row /\ pass.rows \in Seq(SUBSET Row)
    BY <1>0, <1>1, <1>3, RowsInFacts DEF PassState
  <2> QED
    BY <1>2, <2>1, ToldAppend
<1>5. RowsIn(a) = RowsOf(a, file[a])
  BY DEF RowsIn, RowsOf
<1>6. \A r \in RowsIn(a) :
        /\ r.place = a /\ r.stamp = file[a]
        /\ r.place \in Tellers(r.session)
        /\ r.place = Index => r.session \in Indexed
  <2>1. a # Index => a \in {Live(a.name), Archived(a.name)}
    BY <1>0, <1>1, <1>3, PlaceOfSession DEF HoldsRows
  <2> QED
    BY <2>1 DEF RowsIn, Tellers
<1> HIDE DEF a
<1>7. Visits(pass')
  <2>1. ASSUME NEW r \in Told(pass'.rows)
        PROVE  /\ \E x \in pass'.artifacts : x.place = r.place
               /\ r.place \in Tellers(r.session)
               /\ r.place = Index => r.session \in Indexed
    <3>1. CASE r \in Told(pass.rows)
      BY <1>0, <1>2, <3>1 DEF Visits, Tidy
    <3>2. CASE r \in RowsIn(a)
      BY <1>2, <1>3, <1>6, <3>2
    <3> QED
      BY <1>4, <2>1, <3>1, <3>2
  <2>2. Tidy(pass', pass'.rows)
    BY <1>0, <1>2, <2>1 DEF Visits, Tidy
  <2> QED
    BY <1>0, <1>1, <1>2, <1>3, <2>2 DEF Visits
<1>8. \A p : Good(pass, p, file[p]) => Good(pass', p, file[p])
  <2>1. Good(pass, a, file[a]) => Complete(pass', pass'.rows, a, file[a])
    BY <1>1, <1>2, <1>3, <1>4, <1>5 DEF Complete
  <2>2. /\ pass.artifacts = pass'.artifacts /\ pass.records = pass'.records
        /\ pass.unread = pass'.unread /\ Told(pass.rows) \subseteq Told(pass'.rows)
        /\ pass'.phase # "again"
    BY <1>2, <1>4
  <2>3. \A r \in Told(pass'.rows) :
          r \in Told(pass.rows) \/ (r.place = a /\ r.stamp = file[a])
    BY <1>4, <1>6
  <2> QED
    BY <1>0, <1>3, <2>1, <2>2, <2>3, OneRead
<1> QED
  BY <1>1, <1>2, <1>7, <1>8, ReadKeeps

-----------------------------------------------------------------------------
(* The pass ends.                                                          *)

LEMMA LeastPosition ==
  ASSUME NEW T \in SUBSET Nat, T # {}
  PROVE  \E i \in T : \A j \in T : i <= j
<1>1. PICK i \in T : \A j \in T : <<j, i>> \notin OpToRel(<, Nat)
  BY NatLessThanWellFounded, WFMin
<1>2. \A j \in T : ~(j < i)
  BY <1>1 DEF OpToRel
<1> QED
  BY <1>2

(* Of rows that say what the files of a session say, the best one is kept. *)
LEMMA BestRow ==
  ASSUME DiscoveryTypeOK, OneFile(file), NEW rows \in Seq(SUBSET Row), NEW s \in SessionIds,
         \A r \in Told(rows) : r.session = s =>
           /\ r.place \in Tellers(s) /\ r.stamp = file[r.place]
           /\ r.place = Index => s \in Indexed,
         \A p \in Tellers(s) : file[p] # 0 => RowsOf(p, file[p]) \subseteq Told(rows)
  PROVE  {r \in OneOfEach(rows) : r.session = s} =
           {[session |-> s, place |-> e.place, stamp |-> e.stamp] : e \in Entries(file, TellerOf(s))}
<1> DEFINE own == {p \in {Live(s), Archived(s)} : file[p] # 0}
           RowAt(p) == [session |-> s, place |-> p, stamp |-> file[p]]
<1>1. DOMAIN rows = 1..Len(rows) /\ Len(rows) \in Nat
      /\ \A i \in DOMAIN rows : rows[i] \subseteq Told(rows) /\ rows[i] \subseteq Row
  BY DEF Told, Range
<1>2. Tellers(s) \subseteq Places
  BY OfListings DEF Providers
<1>3. Live(s) # Index /\ Archived(s) # Index /\ Live(s).name = s /\ Archived(s).name = s
  BY DEF Live, Archived, Index
<1>4. Priority(Index) = 1 /\ Priority(Live(s)) = 0 /\ Priority(Archived(s)) = 0
  BY <1>3 DEF Priority
<1>5. \A r \in Told(rows) : r.session = s => r = RowAt(r.place) /\ r.place \in Tellers(s) /\ file[r.place] # 0
  <2> SUFFICES ASSUME NEW r \in Told(rows), r.session = s
               PROVE  r = RowAt(r.place) /\ r.place \in Tellers(s) /\ file[r.place] # 0
    OBVIOUS
  <2>1. r \in Row
    BY <1>1 DEF Told, Range
  <2> QED
    BY <2>1 DEF Row, Stamp
<1>6. \A p \in own : RowAt(p) \in Told(rows)
  <2> SUFFICES ASSUME NEW p \in own
               PROVE  RowAt(p) \in Told(rows)
    OBVIOUS
  <2>1. RowAt(p) \in RowsOf(p, file[p])
    BY <1>3 DEF RowsOf
  <2> QED
    BY <2>1 DEF Tellers
<1>7. \A p, q \in own : p = q
  BY DEF OneFile
<1>8. file[Index] # 0 /\ s \in Indexed => RowAt(Index) \in Told(rows)
  <2> SUFFICES ASSUME file[Index] # 0, s \in Indexed
               PROVE  RowAt(Index) \in Told(rows)
    OBVIOUS
  <2>1. RowAt(Index) \in RowsOf(Index, file[Index])
    BY DEF RowsOf
  <2> QED
    BY <2>1 DEF Tellers
<1> HIDE DEF RowAt
<1>9. \A p : RowAt(p).session = s /\ RowAt(p).place = p /\ RowAt(p).stamp = file[p]
  BY DEF RowAt
<1>10. ASSUME NEW r \in OneOfEach(rows), r.session = s
       PROVE  r.place \in TellerOf(s) /\ file[r.place] # 0 /\ r = RowAt(r.place)
  <2>1. PICK i \in DOMAIN rows :
          /\ r \in rows[i]
          /\ \A k \in DOMAIN rows : \A q \in rows[k] : q.session = r.session =>
               \/ Priority(r.place) < Priority(q.place)
               \/ Priority(r.place) = Priority(q.place) /\ i <= k
    BY DEF OneOfEach
  <2>2. r \in Told(rows) /\ r = RowAt(r.place) /\ r.place \in Tellers(s) /\ file[r.place] # 0
    BY <1>1, <1>5, <1>10, <2>1
  <2>3. CASE r.place # Index
    <3>1. r.place \in own
      BY <2>2, <2>3 DEF Tellers
    <3> QED
      BY <2>2, <3>1 DEF TellerOf
  <2>4. CASE r.place = Index
    <3>1. s \in Indexed
      BY <1>10, <2>2, <2>4
    <3>2. ASSUME NEW p \in own
          PROVE  FALSE
      <4>1. PICK k \in DOMAIN rows : RowAt(p) \in rows[k]
        BY <1>6 DEF Told, Range
      <4>2. ~(Priority(r.place) < Priority(p)) /\ Priority(r.place) # Priority(p)
        BY <1>4, <2>4
      <4> QED
        BY <1>9, <1>10, <2>1, <4>1, <4>2
    <3> QED
      BY <2>2, <2>4, <3>1, <3>2 DEF TellerOf
  <2> QED
    BY <2>3, <2>4
<1>11. ASSUME NEW p \in TellerOf(s), file[p] # 0
       PROVE  RowAt(p) \in OneOfEach(rows)
  <2>1. p \in own \/ (p = Index /\ own = {} /\ s \in Indexed)
    BY DEF TellerOf
  <2>2. RowAt(p) \in Told(rows)
    BY <1>6, <1>8, <1>11, <2>1
  <2> DEFINE T == {i \in DOMAIN rows : RowAt(p) \in rows[i]}
  <2>3. T \in SUBSET Nat /\ T # {}
    BY <1>1, <2>2 DEF Told, Range
  <2>4. PICK i \in T : \A j \in T : i <= j
    BY <2>3, LeastPosition
  <2>5. ASSUME NEW k \in DOMAIN rows, NEW q \in rows[k], q.session = s
        PROVE  \/ Priority(p) < Priority(q.place)
               \/ Priority(p) = Priority(q.place) /\ i <= k
    <3>1. q = RowAt(q.place) /\ q.place \in Tellers(s) /\ file[q.place] # 0
      BY <1>1, <1>5, <2>5
    <3>2. CASE q.place = p
      <4>1. k \in T
        BY <2>5, <3>1, <3>2
      <4> QED
        BY <2>4, <3>2, <4>1
    <3>3. CASE q.place # p
      <4>1. q.place # Index => q.place \in own
        BY <3>1 DEF Tellers
      <4>2. q.place = Index /\ p \in own
        BY <1>7, <2>1, <3>3, <4>1
      <4> QED
        BY <1>4, <4>2
    <3> QED
      BY <3>2, <3>3
  <2>6. i \in DOMAIN rows /\ RowAt(p) \in rows[i]
    BY <2>4
  <2> HIDE DEF T
  <2>7. \A k \in DOMAIN rows : \A q \in rows[k] : q.session = RowAt(p).session =>
          \/ Priority(RowAt(p).place) < Priority(q.place)
          \/ Priority(RowAt(p).place) = Priority(q.place) /\ i <= k
    BY <1>9, <2>5
  <2> QED
    BY <2>2, <2>6, <2>7 DEF OneOfEach, Told
<1>12. TellerOf(s) \subseteq Tellers(s) /\ TellerOf(s) \subseteq Places
  BY <1>2 DEF TellerOf, Tellers
<1>13. \A e \in Entries(file, TellerOf(s)) : e.place \in TellerOf(s) /\ e.stamp = file[e.place] /\ e.stamp # 0
  BY <1>12, FoundFacts
<1>14. \A p \in TellerOf(s) : file[p] # 0 => Entry(p, file[p]) \in Entries(file, TellerOf(s))
  BY <1>12, FoundFacts DEF Entry
<1>15. ASSUME NEW r \in OneOfEach(rows), r.session = s
       PROVE  \E e \in Entries(file, TellerOf(s)) :
                r = [session |-> s, place |-> e.place, stamp |-> e.stamp]
  <2>1. Entry(r.place, file[r.place]) \in Entries(file, TellerOf(s))
    BY <1>10, <1>14, <1>15
  <2>2. r = [session |-> s, place |-> r.place, stamp |-> file[r.place]]
    BY <1>10, <1>15 DEF RowAt
  <2> QED
    BY <2>1, <2>2 DEF Entry
<1>16. ASSUME NEW e \in Entries(file, TellerOf(s))
       PROVE  /\ [session |-> s, place |-> e.place, stamp |-> e.stamp] \in OneOfEach(rows)
  <2>1. RowAt(e.place) \in OneOfEach(rows)
    BY <1>11, <1>13
  <2> QED
    BY <1>13, <2>1 DEF RowAt
<1> QED
  BY <1>15, <1>16

(* A pass that is done has been everywhere.                                *)
LEMMA DoneBeen ==
  ASSUME DiscoveryTypeOK, Done, NEW p \in Of(pass.provider)
  PROVE  Been(pass, p)
<1>1. pass.provider \in Providers
  BY DEF DiscoveryTypeOK, PassState
<1>2. \E i \in 1..Len(Listings(pass.provider)) : p \in Listings(pass.provider)[i]
  BY <1>1, OfListings
<1>3. pass.phase = "read" /\ pass.todo = {} /\ pass.listed = Len(Listings(pass.provider))
  BY DEF Done
<1> QED
  BY <1>2, <1>3 DEF Been, Listed

(* What is collected is what the pass has.                                 *)
LEMMA CollectedFacts ==
  ASSUME DiscoveryTypeOK
  PROVE  /\ Collected \in Collections /\ Collected.moved = pass.moved
         /\ Collected.rows = OneOfEach(pass.rows)
         /\ Tidy(pass, pass.rows) => Tidy(Collected, pass.rows)
         /\ \A p, n : Faithful(pass, pass.rows, p, n) => Faithful(Collected, pass.rows, p, n)
         /\ \A p, n : Complete(pass, pass.rows, p, n) => Complete(Collected, pass.rows, p, n)
<1>1. pass \in PassState
  BY DEF DiscoveryTypeOK
<1>2. /\ Collected.artifacts = pass.artifacts /\ Collected.records = pass.records
      /\ Collected.unread = pass.unread /\ Collected.moved = pass.moved
      /\ Collected.rows = OneOfEach(pass.rows)
  BY DEF Collected
<1>3. Collected \in Collections
  BY <1>1, OneOfEachPart DEF Collected, Collections, PassState
<1>4. Tidy(pass, pass.rows) => Tidy(Collected, pass.rows)
  BY <1>2 DEF Tidy
<1>5. \A p, n : Faithful(pass, pass.rows, p, n) => Faithful(Collected, pass.rows, p, n)
  BY <1>2 DEF Faithful
<1>6. \A p, n : Complete(pass, pass.rows, p, n) => Complete(Collected, pass.rows, p, n)
  BY <1>2 DEF Complete
<1> QED
  BY <1>2, <1>3, <1>4, <1>5, <1>6

LEMMA FinishKeeps ==
  ASSUME DiscoveryInv, DiscoveryTypeOK', Finish
  PROVE  DiscoveryInv'
<1>0. /\ DiscoveryTypeOK /\ pass \in PassState /\ PassHolds /\ KeptHolds
  BY DEF DiscoveryInv, DiscoveryTypeOK
<1>1. /\ kept' = [kept EXCEPT ![pass.provider] = [cursor |-> pass.cursor, batch |-> Collected]]
      /\ Done /\ pass' = Idle /\ UNCHANGED <<file, changes>>
  BY DEF Finish
<1>2. "codex" \in Providers /\ DOMAIN kept = Providers
  BY <1>0 DEF DiscoveryTypeOK, Providers
<1>3. KeptHolds'
  <2>1. CASE pass.provider # "codex"
    <3>1. kept'["codex"] = kept["codex"]
      BY <1>1, <1>2, <2>1
    <3> QED
      BY <1>0, <1>1, <3>1 DEF KeptHolds
  <2>2. CASE pass.provider = "codex"
    <3>1. kept'["codex"] = [cursor |-> pass.cursor, batch |-> Collected]
      BY <1>1, <1>2, <2>2
    <3>2. kept'["codex"].cursor = pass.cursor /\ kept'["codex"].batch = Collected
      BY <3>1
    <3>3. Issued(file, pass.cursor, changes) /\ Tidy(pass, pass.rows) /\ CursorGood(pass, file)
      BY <1>0 DEF PassHolds, Visits
    <3>4. ASSUME NEW c \in pass.cursor, Still(c.place, pass.moved)
          PROVE  \/ Lost(file, c.place, c.stamp)
                 \/ /\ Faithful(Collected, pass.rows, c.place, c.stamp)
                    /\ Complete(Collected, pass.rows, c.place, c.stamp)
      <4>1. Lost(file, c.place, c.stamp) \/ Good(pass, c.place, c.stamp)
        BY <3>3, <3>4 DEF CursorGood
      <4>2. Been(pass, c.place)
        BY <1>0, <1>1, <2>2, <3>3, DoneBeen DEF Issued
      <4> QED
        BY <1>0, <4>1, <4>2, CollectedFacts DEF Good
    <3>5. KeptGood(kept'["codex"], pass.rows, file)
      BY <1>0, <3>2, <3>3, <3>4, CollectedFacts DEF KeptGood
    <3>6. pass.rows \in Seq(SUBSET Row)
      BY <1>0 DEF PassState
    <3> QED
      BY <1>1, <3>2, <3>3, <3>5, <3>6 DEF KeptHolds
  <2> QED
    BY <2>1, <2>2
<1>4. /\ Empty(pass') /\ pass'.cursor = {} /\ pass'.todo = {} /\ pass'.listed = 0
      /\ pass'.phase # "again"
  BY <1>1 DEF Idle, Empty
<1> QED
  BY <1>1, <1>3, <1>4, FreshKeeps

LEMMA DiscoveryInvInit == DiscoveryInit => DiscoveryInv
<1> SUFFICES ASSUME DiscoveryInit PROVE PassHolds /\ KeptHolds
  BY DiscoveryTypesInit DEF DiscoveryInv
<1>1. DiscoveryTypeOK /\ pass = Idle /\ pass \in PassState
  BY DiscoveryTypesInit DEF DiscoveryInit, DiscoveryTypeOK
<1>2. /\ Empty(pass) /\ pass.cursor = {} /\ pass.phase = "idle"
  BY <1>1 DEF Idle, Empty
<1>3. \A p : ~Been(pass, p)
  BY <1>2 DEF Been
<1>4. \A p, n : Good(pass, p, n)
  BY <1>1, <1>2, <1>3, EmptyGood
<1>5. Visits(pass)
  BY <1>1, <1>2, EmptyTidy DEF Visits, Empty
<1>6. UntouchedGood(pass, file) /\ CursorGood(pass, file)
  BY <1>2, <1>4 DEF UntouchedGood, CursorGood
<1>7. OneFile(file)
  <2> SUFFICES ASSUME NEW s \in SessionIds
               PROVE  file[Live(s)] = 0 \/ file[Archived(s)] = 0
    BY DEF OneFile
  <2>1. Live(s) \in Places /\ Archived(s) \in Places
    BY <1>1, MoveFacts
  <2>2. Live(s) \notin First \/ Archived(s) \notin First
    BY DiscoveryAssumption
  <2> QED
    BY <2>1, <2>2 DEF DiscoveryInit
<1>8. Issued(file, pass.cursor, changes)
  BY <1>2 DEF Issued, DiscoveryInit
<1>9. KeptHolds
  BY DEF KeptHolds, DiscoveryInit, Providers
<1> QED
  BY <1>5, <1>6, <1>7, <1>8, <1>9 DEF PassHolds

LEMMA DiscoveryInvKept == DiscoveryInv /\ [DiscoveryNext]_discoveryVars => DiscoveryInv'
<1> SUFFICES ASSUME DiscoveryInv, [DiscoveryNext]_discoveryVars
             PROVE  DiscoveryInv'
  OBVIOUS
<1>0. DiscoveryTypeOK /\ DiscoveryTypeOK'
  BY DiscoveryTypesKept DEF DiscoveryInv
<1>1. CASE UNCHANGED discoveryVars
  BY <1>0, <1>1 DEF discoveryVars, DiscoveryInv, PassHolds, KeptHolds
<1>2. ASSUME NEW q \in Places, Write(q)
      PROVE  DiscoveryInv'
  <2>1. changes \in Nat
    BY <1>0, DiscoveryAssumption DEF DiscoveryTypeOK
  <2>2. Put(q, changes + 2)
    BY <1>2 DEF Write
  <2>3. \A s \in SessionIds : q \in {Live(s), Archived(s)} =>
          \A x \in {Live(s), Archived(s)} \ {q} : file[x] = 0
    BY <1>2 DEF Write
  <2> QED
    BY <1>0, <2>2, <2>3, PutKeeps
<1>3. ASSUME NEW q \in Places, Delete(q)
      PROVE  DiscoveryInv'
  <2>1. Put(q, 0)
    BY <1>3 DEF Delete
  <2> QED
    BY <1>0, <2>1, PutKeeps
<1>4. CASE \E s \in SessionIds : Move(s)
  BY <1>0, <1>4, MoveKeeps
<1>5. CASE \/ \E v \in Providers : Begin(v)
           \/ LookOn \/ LookAt \/ LookMisses \/ AnswerKept \/ GoOn
  BY <1>0, <1>5, LooksKeep
<1>6. CASE List
  BY <1>0, <1>6, ListKeeps
<1>7. CASE SkipProfile
  BY <1>0, <1>7, SkipKeeps
<1>8. CASE ReadArtifact
  BY <1>0, <1>8, ArtifactKeeps
<1>9. CASE ReadCandidate
  BY <1>0, <1>9, CandidateKeeps
<1>10. CASE ReadRecord
  BY <1>0, <1>10, RecordKeeps
<1>11. CASE ReadSessions
  BY <1>0, <1>11, SessionsKeep
<1>12. CASE RecordUnread
  BY <1>0, <1>12, UnreadKeeps
<1>13. CASE Gone \/ ReadFails
  BY <1>0, <1>13, FailuresKeep
<1>14. CASE Finish
  BY <1>0, <1>14, FinishKeeps
<1> QED
  BY <1>1, <1>2, <1>3, <1>4, <1>5, <1>6, <1>7, <1>8, <1>9, <1>10, <1>11, <1>12, <1>13, <1>14
     DEF DiscoveryNext, CollectStep

-----------------------------------------------------------------------------
(* What is collected whole is exact.                                       *)

LEMMA ExactOf ==
  ASSUME DiscoveryTypeOK, NEW b \in Collections, NEW rows, Tidy(b, rows), NEW ps \in SUBSET Places,
         \A p \in ps : Faithful(b, rows, p, file[p]) /\ Complete(b, rows, p, file[p])
  PROVE  Exact(b, ps)
<1>0. DiscoveryTypeOK
  OBVIOUS
<1>1. /\ b.artifacts \subseteq Read /\ b.records \subseteq Read
      /\ \A e \in b.records : ~HoldsRows(e.place)
  BY DEF Collections, Record
<1>2. \A e \in Read : e = Entry(e.place, e.stamp) /\ e.stamp # 0
  BY DEF Read, Entry, Stamp
<1>3. \A e \in OfPlace(b.artifacts \cup b.records, ps) :
        e.place \in ps /\ e = Entry(e.place, file[e.place]) /\ file[e.place] # 0
  BY <1>1, <1>2 DEF OfPlace, Faithful
<1>4. ASSUME NEW qs \in SUBSET ps
      PROVE  /\ \A e \in Entries(file, qs) :
                  e.place \in qs /\ e = Entry(e.place, file[e.place]) /\ file[e.place] # 0
             /\ \A p \in qs : file[p] # 0 => Entry(p, file[p]) \in Entries(file, qs)
  <2>1. qs \in SUBSET Places
    OBVIOUS
  <2>2. /\ Entries(file, qs) \subseteq Read
        /\ \A e \in Entries(file, qs) : e.place \in qs /\ e.stamp = file[e.place] /\ e.stamp # 0
    BY <1>0, <2>1, FoundFacts
  <2>3. \A p \in qs : file[p] # 0 => Entry(p, file[p]) \in Entries(file, qs)
    BY <1>0, <2>1, FoundFacts DEF Entry
  <2> QED
    BY <1>2, <2>2, <2>3
<1>5. OfPlace(b.artifacts, ps) = Entries(file, ps)
  <2>1. OfPlace(b.artifacts, ps) \subseteq Entries(file, ps)
    BY <1>3, <1>4 DEF OfPlace
  <2>2. \A e \in Entries(file, ps) : e \in b.artifacts /\ e.place \in ps
    BY <1>4 DEF Complete
  <2> QED
    BY <2>1, <2>2 DEF OfPlace
<1> DEFINE qs == {p \in ps \ b.unread : ~HoldsRows(p)}
<1>6. OfPlace(b.records, ps) = Entries(file, qs)
  <2>0. qs \in SUBSET ps
    OBVIOUS
  <2>1. ASSUME NEW e \in OfPlace(b.records, ps)
        PROVE  e \in Entries(file, qs)
    <3>1. e.place \in qs
      BY <1>1 DEF OfPlace, Tidy
    <3>2. e = Entry(e.place, file[e.place]) /\ file[e.place] # 0
      BY <1>3 DEF OfPlace
    <3> HIDE DEF qs
    <3> QED
      BY <1>4, <2>0, <3>1, <3>2
  <2>2. ASSUME NEW e \in Entries(file, qs)
        PROVE  e \in b.records /\ e.place \in ps
    <3>1. e.place \in qs /\ e = Entry(e.place, file[e.place]) /\ file[e.place] # 0
      BY <1>4, <2>0
    <3> QED
      BY <3>1 DEF Complete
  <2> HIDE DEF qs
  <2> QED
    BY <2>1, <2>2 DEF OfPlace
<1> QED
  BY <1>5, <1>6 DEF Exact

LEMMA ExactRowsOf ==
  ASSUME DiscoveryTypeOK, OneFile(file), NEW b \in Collections, NEW rows \in Seq(SUBSET Row),
         Tidy(b, rows), b.rows = OneOfEach(rows), NEW s \in SessionIds,
         \A p \in Tellers(s) : Faithful(b, rows, p, file[p]) /\ Complete(b, rows, p, file[p])
  PROVE  ExactRows(b, s)
<1>1. ASSUME NEW r \in Told(rows), r.session = s
      PROVE  r.place \in Tellers(s) /\ r.stamp = file[r.place] /\ (r.place = Index => s \in Indexed)
  <2>1. r.place \in Tellers(s) /\ (r.place = Index => s \in Indexed)
    BY <1>1 DEF Tidy
  <2> QED
    BY <2>1 DEF Faithful
<1>2. ASSUME NEW p \in Tellers(s), file[p] # 0
      PROVE  RowsOf(p, file[p]) \subseteq Told(rows)
  <2>1. HoldsRows(p)
    BY DEF Tellers, HoldsRows, Live, Archived
  <2> QED
    BY <1>2, <2>1 DEF Complete
<1>3. {r \in OneOfEach(rows) : r.session = s} =
        {[session |-> s, place |-> e.place, stamp |-> e.stamp] : e \in Entries(file, TellerOf(s))}
  BY <1>1, <1>2, BestRow
<1> QED
  BY <1>3 DEF ExactRows

LEMMA KeptExact == DiscoveryInv => ExactWhileCursorHolds
<1> SUFFICES ASSUME DiscoveryInv, CursorHolds
             PROVE  KeptIsExact(kept["codex"])
  BY DEF ExactWhileCursorHolds
<1> DEFINE k == kept["codex"]
           b == k.batch
<1>0. DiscoveryTypeOK /\ OneFile(file) /\ k # NoCollection /\ k.cursor = CursorOf(file)
  BY DEF DiscoveryInv, PassHolds, CursorHolds
<1>1. k \in Kept /\ b \in Collections
  BY <1>0, KeptCursor DEF Kept
<1>2. PICK rows \in Seq(SUBSET Row) : KeptGood(k, rows, file)
  BY <1>0 DEF DiscoveryInv, KeptHolds
<1> HIDE DEF k
<1>3. Tidy(b, rows) /\ b.rows = OneOfEach(rows)
  BY <1>2 DEF KeptGood
<1>4. Counted \subseteq Of("codex") /\ Counted \subseteq Places
  BY <1>0, OfListings DEF Providers
<1>5. /\ \A c \in k.cursor : c.stamp # 0 /\ c.stamp = file[c.place]
      /\ \A p \in Counted : file[p] # 0 => Entry(p, file[p]) \in k.cursor
  BY <1>0, <1>4, FoundFacts DEF CursorOf, Entry
<1>6. ASSUME NEW p \in Counted \ Came(k), Still(p, b.moved)
      PROVE  Faithful(b, rows, p, file[p]) /\ Complete(b, rows, p, file[p])
  <2>1. CASE file[p] # 0
    <3>1. Entry(p, file[p]) \in k.cursor
      BY <1>5, <2>1
    <3>2. Entry(p, file[p]).place = p /\ Entry(p, file[p]).stamp = file[p]
      BY DEF Entry
    <3>3. p \in Kin(p)
      BY <1>0, <1>4, KinFacts
    <3>4. ~Lost(file, p, file[p])
      BY <3>3 DEF Lost
    <3> QED
      BY <1>2, <1>6, <3>1, <3>2, <3>4 DEF KeptGood
  <2>2. CASE file[p] = 0
    <3>1. \A c \in k.cursor : c.place # p
      BY <1>5, <2>2
    <3>2. \A e \in b.artifacts : e.place # p
      BY <3>1 DEF Came
    <3>3. (\A e \in b.records : e.place # p) /\ (\A r \in Told(rows) : r.place # p)
      BY <1>3, <3>2 DEF Tidy
    <3> QED
      BY <2>2, <3>2, <3>3 DEF Faithful, Complete
  <2> QED
    BY <2>1, <2>2
<1> DEFINE ps == {p \in Counted \ Came(k) : p.name \notin b.moved}
<1>7. Exact(b, ps)
  <2>1. ps \in SUBSET Places
    BY <1>4
  <2>2. \A p \in ps : Faithful(b, rows, p, file[p]) /\ Complete(b, rows, p, file[p])
    BY <1>6 DEF Still
  <2> HIDE DEF ps, b
  <2> QED
    BY <1>0, <1>1, <1>3, <2>1, <2>2, ExactOf
<1>8. ASSUME NEW s \in SessionIds \ b.moved, Tellers(s) \subseteq Counted \ Came(k)
      PROVE  ExactRows(b, s)
  <2>1. ASSUME NEW p \in Tellers(s)
        PROVE  p \in Counted \ Came(k) /\ Still(p, b.moved)
    <3>1. p \in Counted \ Came(k)
      BY <1>8
    <3>2. Still(p, b.moved)
      BY DEF Tellers, Still, Live, Archived, Index, SessionDirs
    <3> QED
      BY <3>1, <3>2
  <2>2. \A p \in Tellers(s) : Faithful(b, rows, p, file[p]) /\ Complete(b, rows, p, file[p])
    BY <1>6, <2>1
  <2> HIDE DEF b
  <2> QED
    BY <1>0, <1>1, <1>3, <2>2, ExactRowsOf
<1> QED
  BY <1>7, <1>8 DEF KeptIsExact, k

(* The kept collection answers for the files that have its cursor: whatever *)
(* was written, removed, moved or failures to be read since the cursor was   *)
(* taken, it is exact for every file that counts but those two kinds whose *)
(* change leaves no trace in the cursor.                                   *)
THEOREM KeptIsExactAlways == DiscoverySpec => []ExactWhileCursorHolds
BY DiscoveryInvInit, DiscoveryInvKept, KeptExact, PTL DEF DiscoverySpec

(* Only the end of a pass changes what is kept.                            *)
LEMMA OnlyFinishKeeps ==
  ASSUME DiscoveryTypeOK, DiscoveryNext, kept' # kept
  PROVE  Finish
BY DEF DiscoveryNext, CollectStep, Write, Delete, Put, Move, Begin, LookOn, LookAt,
       LookMisses, AnswerKept, GoOn,
       List, SkipProfile, Gone, GiveUp, ReadArtifact, ReadRecord, ReadSessions, ReadCandidate,
       ReadFails, RecordUnread

LEMMA FinishExact ==
  ASSUME DiscoveryInv, Finish, NEW v \in Providers, kept'[v] # kept[v]
  PROVE  /\ Exact(kept'[v].batch, Of(v) \ pass.touched)
         /\ v = "codex" =>
              \A s \in SessionIds : Tellers(s) \cap pass.touched = {} => ExactRows(kept'[v].batch, s)
<1>0. /\ DiscoveryTypeOK /\ OneFile(file) /\ pass \in PassState /\ UntouchedGood(pass, file)
      /\ Tidy(pass, pass.rows)
  BY DEF DiscoveryInv, PassHolds, DiscoveryTypeOK, Visits
<1>1. /\ kept' = [kept EXCEPT ![pass.provider] = [cursor |-> pass.cursor, batch |-> Collected]]
      /\ Done
  BY DEF Finish
<1>2. pass.provider = v /\ kept'[v].batch = Collected
  BY <1>0, <1>1 DEF DiscoveryTypeOK
<1> DEFINE b == Collected
<1>3. /\ b \in Collections /\ b.rows = OneOfEach(pass.rows) /\ Tidy(b, pass.rows)
      /\ pass.rows \in Seq(SUBSET Row)
  BY <1>0, CollectedFacts DEF PassState
<1>4. ASSUME NEW p \in Of(v) \ pass.touched
      PROVE  Faithful(b, pass.rows, p, file[p]) /\ Complete(b, pass.rows, p, file[p])
  <2>1. Good(pass, p, file[p]) /\ Been(pass, p)
    BY <1>0, <1>1, <1>2, DoneBeen DEF UntouchedGood
  <2> QED
    BY <1>0, <2>1, CollectedFacts DEF Good
<1> HIDE DEF b
<1>5. Exact(b, Of(v) \ pass.touched)
  <2>1. Of(v) \ pass.touched \in SUBSET Places
    BY <1>0, OfListings
  <2> QED
    BY <1>0, <1>3, <1>4, <2>1, ExactOf
<1>6. ASSUME v = "codex", NEW s \in SessionIds, Tellers(s) \cap pass.touched = {}
      PROVE  ExactRows(b, s)
  <2>1. \A p \in Tellers(s) : p \in Of(v) \ pass.touched
    BY <1>0, <1>6, OfListings
  <2> QED
    BY <1>0, <1>3, <1>4, <2>1, ExactRowsOf
<1> QED
  BY <1>2, <1>5, <1>6 DEF b

(* Whatever moves around it, a file nobody touched while it was collected  *)
(* is reported once and as it is, and so is a session it tells of.         *)
THEOREM UntouchedIsReported == DiscoverySpec => UntouchedReported
<1> DEFINE A == \A v \in Providers : kept'[v] # kept[v] =>
                  LET b == kept'[v].batch IN
                  /\ Exact(b, Of(v) \ pass.touched)
                  /\ v = "codex" =>
                       \A s \in SessionIds : Tellers(s) \cap pass.touched = {} => ExactRows(b, s)
<1>1. DiscoveryInv /\ [DiscoveryNext]_discoveryVars => [A]_discoveryVars
  <2> SUFFICES ASSUME DiscoveryInv, DiscoveryNext, NEW v \in Providers, kept'[v] # kept[v]
               PROVE  /\ Exact(kept'[v].batch, Of(v) \ pass.touched)
                      /\ v = "codex" => \A s \in SessionIds :
                           Tellers(s) \cap pass.touched = {} => ExactRows(kept'[v].batch, s)
    OBVIOUS
  <2>1. Finish
    BY OnlyFinishKeeps DEF DiscoveryInv
  <2> QED
    BY <2>1, FinishExact
<1> HIDE DEF A
<1>2. DiscoverySpec => [][A]_discoveryVars
  BY <1>1, DiscoveryInvInit, DiscoveryInvKept, PTL DEF DiscoverySpec
<1> QED
  BY <1>2 DEF A, UntouchedReported
=============================================================================
