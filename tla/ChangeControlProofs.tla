------------------------ MODULE ChangeControlProofs ------------------------
(***************************************************************************)
(* Proofs about ChangeControl.                                             *)
(***************************************************************************)
EXTENDS ChangeControl, FiniteSetTheorems, SequenceTheorems, TLAPS

(* Trimming keeps the type of the store.                                   *)
LEMMA RememberedType ==
  ASSUME NEW S, NEW q \in Seq(S)
  PROVE  Remembered(q) \in Seq(S)
BY ChangeAssumption, SubSeqProperties DEF Remembered

(* The inductive invariant.                                                *)

Active(h) == task[h].phase # "idle"

(* The store holds every approval that reached the provider, once.         *)
UseRecorded ==
  /\ \A i, j \in DOMAIN store : store[i] = store[j] => i = j
  /\ \A a \in Approvals : uses[a] = 0 \/ (uses[a] = 1 /\ a \in Range(store))

(* Between check and write the document is what was checked.               *)
WindowOK ==
  \A h \in Connections :
    task[h].phase \in {"checked", "kept"} /\ task[h].change \notin raced
      => disk[Doc(task[h])] = Expected(task[h])

(* A backup is the content before, and it is there before the write.       *)
BackupOK ==
  /\ \A c \in Changes \ raced :
       backup[c] # NoCopy => change[c] # NoChange /\ backup[c] = change[c].before
  /\ \A h \in Connections :
       task[h].phase = "kept" /\ task[h].change \notin raced
         => BackupServes(task[h].change)
  /\ \A c \in Changes : last[c] # "none" => change[c] # NoChange

(* Who works under an approval: one task, on its own connection, recorded. *)
TasksOK ==
  /\ written \subseteq Range(store)
  /\ \A h \in Connections : Active(h) =>
       /\ task[h].approval \in Range(store)
       /\ task[h].approval \in written <=> task[h].phase = "written"
       /\ h \in Approvals => task[h].approval = h
  /\ \A g, h \in Connections :
       Active(g) /\ Active(h) /\ task[g].approval = task[h].approval => g = h

(* An approval whose only use is over without a write.                     *)
Unwritten(a) ==
  /\ a \in Range(store) \ written
  /\ \A h \in Connections : Active(h) => task[h].approval # a

(* Receipts tell the truth.                                                *)
Truthful(r) == IF r.outcome = "Conflict" THEN Unwritten(r.approval) ELSE r.approval \in written

ReceiptsOK ==
  /\ \A k \in Controllers :
       /\ ctl[k].phase \in {"issued", "sent"} => ctl[k].outcome = "Error"
       /\ ctl[k].phase # "idle" /\ ctl[k].outcome # "Error" => Truthful(ctl[k])
  /\ \A r \in audits : Truthful(r)

IInv == TypeOK /\ UseRecorded /\ WindowOK /\ BackupOK /\ Reversible /\ TasksOK /\ ReceiptsOK

-----------------------------------------------------------------------------
(* What Fault adds to the count stays in its bound.                        *)
LEMMA FaultBounded ==
  ASSUME TypeOK, Fault
  PROVE  faults' \in 0..MaxFaults
BY ChangeAssumption DEF TypeOK, Fault

(* Answering keeps the types of the Controller processes.                  *)
LEMMA AnswerType ==
  ASSUME TypeOK, NEW h, NEW o \in Outcomes, Answer(h, o), change' = change
  PROVE  CtlOK'
<1>1. ASSUME NEW k \in Controllers
      PROVE  /\ ctl'[k] \in Invocation
             /\ ctl'[k].phase # "idle" => Known(ctl[k])'
             /\ ctl'[k].phase = "saved" => ctl'[k].outcome # "Error"
  <2>1. ctl[k] \in Invocation /\ (ctl[k].phase # "idle" => Known(ctl[k]))
        /\ (ctl[k].phase = "saved" => ctl[k].outcome # "Error")
    BY DEF TypeOK, CtlOK
  <2>2. CASE ctl[k].phase = "sent" /\ ctl[k].approval = h
    <3>1. ctl'[k] = [ctl[k] EXCEPT !.phase = "answered", !.outcome = o]
      BY <2>2 DEF Answer
    <3> QED
      BY <2>1, <2>2, <3>1 DEF Invocation, Known
  <2>3. CASE ~(ctl[k].phase = "sent" /\ ctl[k].approval = h)
    <3>1. ctl'[k] = ctl[k]
      BY <2>3 DEF Answer
    <3> QED
      BY <2>1, <3>1 DEF Known
  <2> QED
    BY <2>2, <2>3
<1> QED
  BY <1>1 DEF Answer, CtlOK

(* So does moving a task that works, and letting it finish.                *)
LEMMA TaskMoves ==
  ASSUME TypeOK, NEW h \in Connections, task[h].phase # "idle",
         NEW p \in {"consumed", "checked", "kept", "written"},
         task' = [task EXCEPT ![h].phase = p], change' = change
  PROVE  TaskOK'
<1>1. ASSUME NEW g \in Connections
      PROVE  task'[g] \in Task /\ (task'[g].phase # "idle" => Known(task[g])')
  <2>1. task[g] \in Task /\ (task[g].phase # "idle" => Known(task[g]))
    BY DEF TypeOK, TaskOK
  <2>2. task'[g] = IF g = h THEN [task[g] EXCEPT !.phase = p] ELSE task[g]
    BY DEF TypeOK, TaskOK
  <2> QED
    BY <2>1, <2>2 DEF Task, Known
<1> QED
  BY <1>1 DEF TaskOK, TypeOK

LEMMA FinishType ==
  ASSUME TypeOK, NEW h \in Connections, NEW o \in Outcomes, Finish(h, o), change' = change
  PROVE  CtlOK' /\ TaskOK'
<1>1. CtlOK'
  BY AnswerType DEF Finish
<1>2. NoTask \in Task
  BY DEF NoTask, Task, Operations
<1>3. ASSUME NEW g \in Connections
      PROVE  task'[g] \in Task /\ (task'[g].phase # "idle" => Known(task[g])')
  <2>1. task[g] \in Task /\ (task[g].phase # "idle" => Known(task[g]))
    BY DEF TypeOK, TaskOK
  <2>2. task'[g] = IF g = h THEN NoTask ELSE task[g]
    BY DEF TypeOK, TaskOK, Finish
  <2>3. NoTask.phase = "idle"
    BY DEF NoTask
  <2> QED
    BY <1>2, <2>1, <2>2, <2>3 DEF Known
<1> QED
  BY <1>1, <1>3 DEF TaskOK, TypeOK, Finish

(* A change set that is known has an operation, and its content types.     *)
LEMMA KnownOperation ==
  ASSUME TypeOK, NEW w, Known(w)
  PROVE  /\ change[w.change] \in Operation
         /\ Doc(w) \in Docs
         /\ Expected(w) \in Held
         /\ Result(w) \in Held
BY DEF TypeOK, Known, Operation, Doc, Expected, Result, Held

(* No step but the last of a request leaves the rest of the state ill-typed: *)
(* TypeOK is inductive.                                                    *)
LEMMA TypeInit == Init => TypeOK
<1> SUFFICES ASSUME Init PROVE TypeOK
  OBVIOUS
<1>1. NoCtl \in Invocation /\ NoCtl.phase = "idle"
  BY DEF NoCtl, Invocation, Operations, Outcomes
<1>2. NoTask \in Task /\ NoTask.phase = "idle"
  BY DEF NoTask, Task, Operations
<1>3. CtlOK
  BY <1>1 DEF Init, CtlOK
<1>4. TaskOK
  BY <1>2 DEF Init, TaskOK
<1>5. store \in Seq(Approvals)
  BY DEF Init
<1> QED
  BY <1>3, <1>4, <1>5, ChangeAssumption DEF Init, TypeOK

(* Whatever is proposed, only the catalog changes.                         *)
LEMMA ProposeSaves ==
  ASSUME NEW c \in Changes, NEW d \in Docs, NEW v \in Contents, Propose(c, d, v)
  PROVE  SaveChangeSet(c, Draft(d, v))
  BY DEF Propose, ProposeFile, ProposeThread


LEMMA TypeStep == TypeOK /\ [Next]_vars => TypeOK'
<1> SUFFICES ASSUME TypeOK, [Next]_vars PROVE TypeOK'
  OBVIOUS
<1> USE DEF documents, catalog, approving, requests, replays, history
<1>1. ASSUME NEW d \in Docs, NEW v \in Held, Edit(d, v) PROVE TypeOK'
  <2>1. raced' \in SUBSET Changes
    BY <1>1 DEF Edit, TypeOK, Exposed, TaskOK, Known
  <2>2. edits' \in 0..MaxEdits
    BY <1>1, ChangeAssumption DEF Edit, TypeOK
  <2>3. disk' \in [Docs -> Held]
    BY <1>1 DEF Edit, TypeOK
  <2> QED
    BY <1>1, <2>1, <2>2, <2>3 DEF Edit, TypeOK, CtlOK, TaskOK, Known
<1>2. ASSUME NEW c \in Changes, NEW d \in Docs, NEW v \in Contents, Propose(c, d, v)
      PROVE  TypeOK'
  <2> USE ProposeSaves DEF SaveChangeSet, Draft
  <2>1. change' \in [Changes -> Operation \cup {NoChange}]
    BY <1>2 DEF TypeOK, Operation, Held
  <2>2. \A b \in Changes : change[b] # NoChange => change'[b] # NoChange
    BY <1>2 DEF TypeOK
  <2>3. CtlOK'
    BY <1>2, <2>2 DEF TypeOK, CtlOK, Known
  <2>4. TaskOK'
    BY <1>2, <2>2 DEF TypeOK, TaskOK, Known
  <2>5. \A m \in sent' : Known(m)'
    BY <1>2, <2>2 DEF TypeOK, Known
  <2> QED
    BY <1>2, <2>1, <2>3, <2>4, <2>5 DEF TypeOK
<1>3. ASSUME NEW k \in Controllers, NEW op \in Operations, NEW c \in Changes,
             NEW a \in Approvals, Begin(k, op, c, a)
      PROVE  TypeOK'
  <2>1. CtlOK'
    <3> DEFINE new == [phase |-> "issued", op |-> op, change |-> c,
                       approval |-> a, outcome |-> "Error"]
    <3>1. new \in Invocation /\ new.phase = "issued" /\ Known(new)'
      BY <1>3 DEF Begin, Invocation, Outcomes, Known
    <3>2. ctl' = [ctl EXCEPT ![k] = new]
      BY <1>3 DEF Begin
    <3> HIDE DEF new
    <3> QED
      BY <1>3, <3>1, <3>2 DEF Begin, TypeOK, CtlOK, Known
  <2> QED
    BY <1>3, <2>1 DEF Begin, TypeOK, TaskOK, Known
<1>4. ASSUME NEW k \in Controllers, SendRequest(k) PROVE TypeOK'
  <2>1. ctl[k] \in Invocation /\ Known(ctl[k])
    BY <1>4 DEF SendRequest, TypeOK, CtlOK
  <2>2. [op |-> ctl[k].op, change |-> ctl[k].change, approval |-> ctl[k].approval] \in Request
    BY <2>1 DEF Invocation, Known, Request
  <2>3. CtlOK'
    BY <1>4, <2>1 DEF SendRequest, TypeOK, CtlOK, Known, Invocation
  <2>4. \A m \in sent' : Known(m)'
    BY <1>4, <2>1 DEF SendRequest, TypeOK, Known
  <2> QED
    BY <1>4, <2>2, <2>3, <2>4 DEF SendRequest, TypeOK, TaskOK, Known
<1>5. ASSUME NEW k \in Controllers, SaveStatus(k) PROVE TypeOK'
  <2>1. ctl[k] \in Invocation /\ Known(ctl[k])
    BY <1>5 DEF SaveStatus, TypeOK, CtlOK
  <2>2. NoCtl \in Invocation /\ NoCtl.phase = "idle"
    BY DEF NoCtl, Invocation, Operations, Outcomes
  <2>3. CtlOK'
    BY <1>5, <2>1, <2>2 DEF SaveStatus, TypeOK, CtlOK, Known, Invocation
  <2>4. status' \in [Changes -> {"None", "Proposed", "Approved", "Applied",
                                 "Conflict", "Failed", "RolledBack"}]
    BY <1>5, <2>1 DEF SaveStatus, TypeOK, Invocation, Outcomes
  <2> QED
    BY <1>5, <2>3, <2>4 DEF SaveStatus, TypeOK, TaskOK, Known
<1>6. ASSUME NEW k \in Controllers, RecordAudit(k) PROVE TypeOK'
  <2>1. ctl[k] \in Invocation /\ Known(ctl[k]) /\ ctl[k].outcome # "Error"
    BY <1>6 DEF RecordAudit, TypeOK, CtlOK
  <2>2. NoCtl \in Invocation /\ NoCtl.phase = "idle"
    BY DEF NoCtl, Invocation, Operations, Outcomes
  <2>3. CtlOK'
    BY <1>6, <2>2 DEF RecordAudit, TypeOK, CtlOK, Known
  <2>4. audits' \in SUBSET Audit
    BY <1>6, <2>1 DEF RecordAudit, TypeOK, Audit, Invocation, Known
  <2> QED
    BY <1>6, <2>3, <2>4 DEF RecordAudit, TypeOK, TaskOK, Known
<1>7. ASSUME NEW a \in Approvals, Expire(a) PROVE TypeOK'
  BY <1>7 DEF Expire, TypeOK, CtlOK, TaskOK, Known
<1>8. ASSUME NEW h \in Connections, NEW m \in sent, Consume(h, m) PROVE TypeOK'
  <2>1. m \in Request /\ Known(m)
    BY DEF TypeOK
  <2>2. store' \in Seq(Approvals) /\ memory' \in SUBSET Approvals
    <3>1. Append(store, m.approval) \in Seq(Approvals)
      BY <2>1, AppendProperties DEF TypeOK, Request
    <3>2. store' \in Seq(Approvals)
      BY <1>8, <3>1, RememberedType DEF Consume
    <3> QED
      BY <1>8, <3>2 DEF Consume, Range
  <2>3. TaskOK'
    <3> DEFINE new == [phase |-> "consumed", op |-> m.op, change |-> m.change,
                       approval |-> m.approval]
    <3>1. new \in Task /\ Known(new)'
      BY <1>8, <2>1 DEF Consume, Task, Request, Known
    <3>2. task' = [task EXCEPT ![h] = new]
      BY <1>8 DEF Consume
    <3> HIDE DEF new
    <3> QED
      BY <1>8, <3>1, <3>2 DEF Consume, TypeOK, TaskOK, Known
  <2>4. uses' \in [Approvals -> Nat]
    BY <1>8, <2>1 DEF Consume, TypeOK, Request
  <2>5. unread' \in SUBSET sent'
    BY <1>8 DEF Consume, Take, TypeOK
  <2> QED
    BY <1>8, <2>2, <2>3, <2>4, <2>5 DEF Consume, TypeOK, CtlOK, Known
<1>9. ASSUME NEW h \in Connections, NEW m \in sent, Reject(h, m) PROVE TypeOK'
  <2>1. CtlOK'
    BY <1>9, AnswerType DEF Reject, Outcomes
  <2>2. m \in Request
    BY DEF TypeOK
  <2>3. memory' \in SUBSET Approvals /\ unread' \in SUBSET sent'
    BY <1>9, <2>2 DEF Reject, Take, TypeOK, Request
  <2> QED
    BY <1>9, <2>1, <2>3 DEF Reject, TypeOK, TaskOK, Known
<1>10. ASSUME NEW h \in Connections, NEW m \in sent, ConsumeFails(h, m) PROVE TypeOK'
  <2>1. CtlOK'
    BY <1>10, AnswerType DEF ConsumeFails, Outcomes
  <2>2. unread' \in SUBSET sent' /\ faults' \in 0..MaxFaults
    BY <1>10, FaultBounded DEF ConsumeFails, Take, TypeOK
  <2> QED
    BY <1>10, <2>1, <2>2 DEF ConsumeFails, TypeOK, TaskOK, Known
<1>11. ASSUME NEW h \in Connections, TaskStep(h) PROVE TypeOK'
  <2>1. task[h].phase # "idle"
    BY <1>11 DEF TaskStep, Refuse, RefuseRuntimeRollback, Check, Keep, ReadBackup,
                 RefuseBackup, Write, Verify
  <2>2. Known(task[h]) /\ task[h] \in Task
    BY <2>1 DEF TypeOK, TaskOK
  <2>3. change[task[h].change] \in Operation /\ Doc(task[h]) \in Docs /\ Result(task[h]) \in Held
    BY <2>2, KnownOperation
  <2>4. CASE Refuse(h) \/ RefuseRuntimeRollback(h) \/ RefuseBackup(h) \/ Verify(h)
    <3>1. CtlOK' /\ TaskOK'
      BY <2>4, FinishType DEF Refuse, RefuseRuntimeRollback, RefuseBackup, Verify, Outcomes
    <3> QED
      BY <2>4, <3>1 DEF Refuse, RefuseRuntimeRollback, RefuseBackup, Verify, TypeOK, Known
  <2>5. CASE Check(h) \/ ReadBackup(h)
    <3>1. TaskOK'
      BY <2>1, <2>5, TaskMoves DEF Check, ReadBackup
    <3> QED
      BY <2>5, <3>1 DEF Check, ReadBackup, TypeOK, CtlOK, Known
  <2>6. CASE Keep(h)
    <3>1. TaskOK'
      BY <2>1, <2>6, TaskMoves DEF Keep
    <3>2. backup' \in [Changes -> Contents \cup {NoCopy}]
      BY <2>6, <2>2, <2>3 DEF Keep, TypeOK, Held, Known
    <3> QED
      BY <2>6, <3>1, <3>2 DEF Keep, TypeOK, CtlOK, Known
  <2>7. CASE Write(h)
    <3>1. TaskOK'
      BY <2>1, <2>7, TaskMoves DEF Write
    <3>2. disk' \in [Docs -> Held] /\ written' \in SUBSET Approvals
          /\ last' \in [Changes -> Operations \cup {"none"}]
      BY <2>7, <2>2, <2>3 DEF Write, TypeOK, Task, Known
    <3>3. raced' \in SUBSET Changes
      BY <2>7 DEF Write, TypeOK, Exposed, TaskOK, Known
    <3> QED
      BY <2>7, <3>1, <3>2, <3>3 DEF Write, TypeOK, CtlOK, Known
  <2> QED
    BY <1>11, <2>4, <2>5, <2>6, <2>7 DEF TaskStep
<1>12. ASSUME NEW h \in Connections, ProviderFails(h) PROVE TypeOK'
  <2>1. CtlOK' /\ TaskOK'
    BY <1>12, FinishType DEF ProviderFails, Outcomes
  <2>2. faults' \in 0..MaxFaults
    BY <1>12, FaultBounded DEF ProviderFails
  <2> QED
    BY <1>12, <2>1, <2>2 DEF ProviderFails, TypeOK, Known
<1>13. ASSUME NEW k \in Controllers, LoseConnection(k) \/ ControllerStops(k) PROVE TypeOK'
  <2>1. NoCtl \in Invocation /\ NoCtl.phase = "idle"
    BY DEF NoCtl, Invocation, Operations, Outcomes
  <2>2. CtlOK'
    <3>1. CASE LoseConnection(k)
      <4>1. ctl[k] \in Invocation /\ Known(ctl[k])
        BY <3>1 DEF LoseConnection, TypeOK, CtlOK
      <4>2. [ctl[k] EXCEPT !.phase = "answered"] \in Invocation
        BY <4>1 DEF Invocation
      <4> QED
        BY <3>1, <4>1, <4>2 DEF LoseConnection, TypeOK, CtlOK, Known, Invocation
    <3>2. CASE ControllerStops(k)
      BY <3>2, <2>1 DEF ControllerStops, TypeOK, CtlOK, Known
    <3> QED
      BY <1>13, <3>1, <3>2
  <2>3. faults' \in 0..MaxFaults
    BY <1>13, FaultBounded DEF LoseConnection, ControllerStops
  <2> QED
    BY <1>13, <2>2, <2>3 DEF LoseConnection, ControllerStops, TypeOK, TaskOK, Known
<1>14. ASSUME AgentCrash PROVE TypeOK'
  <2>1. NoTask \in Task /\ NoTask.phase = "idle"
    BY DEF NoTask, Task, Operations
  <2>2. TaskOK'
    BY <1>14, <2>1 DEF AgentCrash, TaskOK
  <2>3. CtlOK'
    <3>1. ASSUME NEW k \in Controllers
          PROVE  /\ ctl'[k] \in Invocation
                 /\ ctl'[k].phase # "idle" => Known(ctl[k])'
                 /\ ctl'[k].phase = "saved" => ctl'[k].outcome # "Error"
      <4>1. /\ ctl[k] \in Invocation
            /\ ctl[k].phase # "idle" => Known(ctl[k])
            /\ ctl[k].phase = "saved" => ctl[k].outcome # "Error"
        BY DEF TypeOK, CtlOK
      <4>2. ctl'[k] = IF ctl[k].phase = "sent" THEN [ctl[k] EXCEPT !.phase = "answered"]
                      ELSE ctl[k]
        BY <1>14 DEF AgentCrash
      <4>3. change' = change
        BY <1>14 DEF AgentCrash
      <4> QED
        BY <4>1, <4>2, <4>3 DEF Invocation, Known
    <3>2. ctl' = [k \in Controllers |-> ctl'[k]]
      BY <1>14 DEF AgentCrash
    <3> QED
      BY <3>1, <3>2 DEF CtlOK
  <2>4. faults' \in 0..MaxFaults
    BY <1>14, FaultBounded DEF AgentCrash
  <2> QED
    BY <1>14, <2>2, <2>3, <2>4 DEF AgentCrash, TypeOK, Known
<1>15. ASSUME UNCHANGED vars PROVE TypeOK'
  BY <1>15 DEF vars, TypeOK, CtlOK, TaskOK, Known
<1> QED
  BY <1>1, <1>2, <1>3, <1>4, <1>5, <1>6, <1>7, <1>8, <1>9, <1>10, <1>11, <1>12,
     <1>13, <1>14, <1>15 DEF Next, ControllerStep, Serve

(* The state keeps its types; a task and a process always work on a        *)
(* proposed change set, and only a receipt is ever audited.                *)
THEOREM TypeCorrect == Spec => []TypeOK
BY TypeInit, TypeStep, PTL DEF Spec
-----------------------------------------------------------------------------
(* The store is never trimmed when it can hold every approval there is:    *)
(* fewer than 4096 are issued before the first of them has expired.        *)
StoreLargeEnough == IsFiniteSet(Approvals) /\ Cardinality(Approvals) <= ReplayCap

(* A sequence without repetitions is no longer than its set.               *)
LEMMA DistinctLength ==
  ASSUME NEW S, IsFiniteSet(S), NEW q \in Seq(S),
         \A i, j \in DOMAIN q : q[i] = q[j] => i = j
  PROVE  Len(q) <= Cardinality(S)
<1>1. Len(q) \in Nat /\ DOMAIN q = 1..Len(q) /\ q \in [1..Len(q) -> S]
  BY LenProperties
<1>2. q \in Injection(1..Len(q), S)
  BY <1>1 DEF Injection, IsInjective
<1>3. Cardinality(1..Len(q)) = Len(q)
  BY <1>1, FS_Interval
<1>4. Cardinality(1..Len(q)) <= Cardinality(S)
  BY <1>2, FS_Injection
<1> QED
  BY <1>3, <1>4

(* Recording an approval for the first time adds it and drops nothing.     *)
LEMMA Recording ==
  ASSUME StoreLargeEnough, TypeOK, UseRecorded, NEW a \in Approvals, a \notin Range(store)
  PROVE  LET q == Remembered(Append(store, a)) IN
         /\ Range(q) = Range(store) \cup {a}
         /\ \A i, j \in DOMAIN q : q[i] = q[j] => i = j
<1> DEFINE q == Append(store, a)
<1>1. /\ q \in Seq(Approvals) /\ Len(q) = Len(store) + 1
      /\ \A i \in 1..Len(store) : q[i] = store[i]
      /\ q[Len(store) + 1] = a
      /\ Len(store) \in Nat
  BY AppendProperties, LenProperties DEF TypeOK
<1>2. DOMAIN q = 1..(Len(store) + 1) /\ DOMAIN store = 1..Len(store)
  BY <1>1, LenProperties DEF TypeOK
<1>3. \A i, j \in DOMAIN q : q[i] = q[j] => i = j
  <2>1. \A i \in 1..Len(store) : store[i] # a
    BY <1>2 DEF Range
  <2>2. \A i \in DOMAIN q : i \in 1..Len(store) \/ i = Len(store) + 1
    BY <1>1, <1>2
  <2> HIDE DEF q
  <2> QED
    BY <1>1, <1>2, <2>1, <2>2 DEF UseRecorded
<1>4. Len(q) <= ReplayCap
  <2>1. Len(q) <= Cardinality(Approvals)
    BY <1>1, <1>3, DistinctLength DEF StoreLargeEnough
  <2>2. Cardinality(Approvals) \in Nat /\ Cardinality(Approvals) <= ReplayCap
    BY FS_CardinalityType DEF StoreLargeEnough
  <2> HIDE DEF q
  <2> QED
    BY <1>1, <2>1, <2>2, ChangeAssumption
<1>5. Remembered(q) = q
  BY <1>1, <1>4, ChangeAssumption DEF Remembered
<1>6. Range(q) = Range(store) \cup {a}
  <2>1. \A i \in 1..Len(store) : i \in DOMAIN q
    BY <1>1, <1>2
  <2>2. Len(store) + 1 \in DOMAIN q
    BY <1>1, <1>2
  <2>3. \A i \in DOMAIN q : i \in 1..Len(store) \/ i = Len(store) + 1
    BY <1>1, <1>2
  <2> HIDE DEF q
  <2> QED
    BY <1>1, <1>2, <2>1, <2>2, <2>3 DEF Range
<1> QED
  BY <1>3, <1>5, <1>6

(* ReceiptsOK survives a step that undoes nothing and answers truthfully.  *)
LEMMA Receipts ==
  ASSUME TypeOK, TypeOK', ReceiptsOK, written \subseteq written',
         \A a \in Approvals : Unwritten(a) => Unwritten(a)',
         audits' = audits,
         \A k \in Controllers :
           \/ ctl'[k] = ctl[k]
           \/ ctl'[k].outcome = "Error"
           \/ ctl'[k].phase = "answered" /\ Truthful(ctl[k])'
           \/ ctl'[k].phase = "saved" /\ ctl[k].phase = "answered"
              /\ ctl'[k].outcome = ctl[k].outcome /\ ctl'[k].approval = ctl[k].approval
  PROVE  ReceiptsOK'
<1>1. ASSUME NEW r, r.approval \in Approvals, Truthful(r)
      PROVE  IF r.outcome = "Conflict" THEN Unwritten(r.approval)' ELSE r.approval \in written'
  BY <1>1 DEF Truthful
<1>2. \A r \in audits' : Truthful(r)'
  BY <1>1 DEF ReceiptsOK, Truthful, TypeOK, Audit
<1>3. ASSUME NEW k \in Controllers
      PROVE  /\ ctl'[k].phase \in {"issued", "sent"} => ctl'[k].outcome = "Error"
             /\ ctl'[k].phase # "idle" /\ ctl'[k].outcome # "Error" => Truthful(ctl[k])'
  <2>1. CASE ctl'[k] = ctl[k]
    BY <2>1, <1>1 DEF ReceiptsOK, Truthful, TypeOK, CtlOK, Known
  <2>2. CASE ctl'[k].outcome = "Error"
    BY <2>2
  <2>3. CASE ctl'[k].phase = "answered" /\ Truthful(ctl[k])'
    BY <2>3
  <2>4. CASE ctl'[k].phase = "saved" /\ ctl[k].phase = "answered"
             /\ ctl'[k].outcome = ctl[k].outcome /\ ctl'[k].approval = ctl[k].approval
    BY <2>4, <1>1 DEF ReceiptsOK, Truthful, TypeOK, CtlOK, Known
  <2> QED
    BY <2>1, <2>2, <2>3, <2>4
<1> QED
  BY <1>2, <1>3 DEF ReceiptsOK

(* A step that leaves documents, tasks and the store alone disturbs no more *)
(* than the receipts.                                                      *)
LEMMA Quiet ==
  ASSUME IInv, disk' = disk, backup' = backup, change' = change, task' = task,
         store' = store, uses' = uses, written' = written, last' = last, raced' = raced
  PROVE  /\ UseRecorded' /\ WindowOK' /\ BackupOK' /\ Reversible' /\ TasksOK'
         /\ \A a \in Approvals : Unwritten(a) => Unwritten(a)'
<1>1. UseRecorded'
  BY DEF IInv, UseRecorded
<1>2. WindowOK'
  BY DEF IInv, WindowOK, Doc, Expected
<1>3. BackupOK' /\ Reversible'
  BY DEF IInv, BackupOK, Reversible, BackupServes
<1>4. TasksOK' /\ \A a \in Approvals : Unwritten(a) => Unwritten(a)'
  BY DEF IInv, TasksOK, Active, Unwritten
<1> QED
  BY <1>1, <1>2, <1>3, <1>4

LEMMA ControllerSteps ==
  ASSUME IInv, TypeOK',
         NEW k \in Controllers,
         \/ \E op \in Operations, c \in Changes, a \in Approvals : Begin(k, op, c, a)
         \/ ControllerStep(k) \/ LoseConnection(k) \/ ControllerStops(k)
  PROVE  IInv'
<1> USE DEF documents, catalog, approving, requests, replays, history
<1>1. /\ disk' = disk /\ backup' = backup /\ change' = change /\ task' = task
      /\ store' = store /\ uses' = uses /\ written' = written /\ last' = last /\ raced' = raced
  BY DEF Begin, ControllerStep, SendRequest, SaveStatus, RecordAudit, LoseConnection,
         ControllerStops
<1>2. /\ UseRecorded' /\ WindowOK' /\ BackupOK' /\ Reversible' /\ TasksOK'
      /\ \A a \in Approvals : Unwritten(a) => Unwritten(a)'
  BY <1>1, Quiet
<1>3. ctl \in [Controllers -> Invocation] /\ ctl[k] \in Invocation /\ NoCtl.outcome = "Error"
  BY DEF IInv, TypeOK, CtlOK, NoCtl
<1>4. CASE \E op \in Operations, c \in Changes, a \in Approvals : Begin(k, op, c, a)
  <2>1. audits' = audits /\ \A j \in Controllers : ctl'[j] = ctl[j] \/ ctl'[j].outcome = "Error"
    BY <1>3, <1>4 DEF Begin
  <2> QED
    BY <1>1, <1>2, <2>1, Receipts DEF IInv
<1>5. CASE SendRequest(k)
  <2>1. ctl[k].outcome = "Error"
    BY <1>5 DEF SendRequest, IInv, ReceiptsOK
  <2>2. audits' = audits /\ \A j \in Controllers : ctl'[j] = ctl[j] \/ ctl'[j].outcome = "Error"
    BY <1>3, <1>5, <2>1 DEF SendRequest, Invocation
  <2> QED
    BY <1>1, <1>2, <2>2, Receipts DEF IInv
<1>6. CASE SaveStatus(k)
  <2>1. audits' = audits
        /\ \A j \in Controllers :
             \/ ctl'[j] = ctl[j]
             \/ ctl'[j].outcome = "Error"
             \/ ctl'[j].phase = "saved" /\ ctl[j].phase = "answered"
                /\ ctl'[j].outcome = ctl[j].outcome /\ ctl'[j].approval = ctl[j].approval
    BY <1>3, <1>6 DEF SaveStatus, Invocation
  <2> QED
    BY <1>1, <1>2, <2>1, Receipts DEF IInv
<1>7. CASE RecordAudit(k)
  <2>1. Truthful(ctl[k])
    BY <1>7 DEF RecordAudit, IInv, ReceiptsOK, TypeOK, CtlOK
  <2>2. Known(ctl[k])
    BY <1>7 DEF RecordAudit, IInv, TypeOK, CtlOK
  <2>3. ASSUME NEW r, r.approval \in Approvals, Truthful(r)
        PROVE  IF r.outcome = "Conflict" THEN Unwritten(r.approval)' ELSE r.approval \in written'
    BY <1>1, <1>2, <2>3 DEF Truthful
  <2> DEFINE new == [op |-> ctl[k].op, change |-> ctl[k].change,
                     approval |-> ctl[k].approval, outcome |-> ctl[k].outcome]
  <2>4. new.approval \in Approvals /\ Truthful(new)
    BY <2>1, <2>2 DEF Truthful, Known
  <2>5. audits' = audits \cup {new}
    BY <1>7 DEF RecordAudit
  <2> HIDE DEF new
  <2>6. \A r \in audits' : Truthful(r)'
    BY <2>3, <2>4, <2>5 DEF IInv, ReceiptsOK, Truthful, TypeOK, Audit
  <2>7. \A j \in Controllers : ctl'[j] = ctl[j] \/ (ctl'[j].outcome = "Error" /\ ctl'[j].phase = "idle")
    BY <1>3, <1>7 DEF RecordAudit, NoCtl
  <2>8. ASSUME NEW j \in Controllers
        PROVE  /\ ctl'[j].phase \in {"issued", "sent"} => ctl'[j].outcome = "Error"
               /\ ctl'[j].phase # "idle" /\ ctl'[j].outcome # "Error" => Truthful(ctl[j])'
    BY <2>3, <2>7 DEF IInv, ReceiptsOK, Truthful, TypeOK, CtlOK, Known
  <2> QED
    BY <1>2, <2>6, <2>8 DEF IInv, ReceiptsOK
<1>8. CASE LoseConnection(k) \/ ControllerStops(k)
  <2>1. LoseConnection(k) => ctl[k].outcome = "Error"
    BY DEF LoseConnection, IInv, ReceiptsOK
  <2>2. audits' = audits /\ \A j \in Controllers : ctl'[j] = ctl[j] \/ ctl'[j].outcome = "Error"
    BY <1>3, <1>8, <2>1 DEF LoseConnection, ControllerStops, Invocation
  <2> QED
    BY <1>1, <1>2, <2>2, Receipts DEF IInv
<1> QED
  BY <1>4, <1>5, <1>6, <1>7, <1>8 DEF ControllerStep

LEMMA OtherQuietSteps ==
  ASSUME IInv, TypeOK',
         \/ \E a \in Approvals : Expire(a)
         \/ \E h \in Connections, m \in sent : Reject(h, m) \/ ConsumeFails(h, m)
         \/ UNCHANGED vars
  PROVE  IInv'
<1> USE DEF documents, catalog, approving, requests, replays, history
<1>1. /\ disk' = disk /\ backup' = backup /\ change' = change /\ task' = task
      /\ store' = store /\ uses' = uses /\ written' = written /\ last' = last /\ raced' = raced
  BY DEF Expire, Reject, ConsumeFails, vars
<1>2. /\ UseRecorded' /\ WindowOK' /\ BackupOK' /\ Reversible' /\ TasksOK'
      /\ \A a \in Approvals : Unwritten(a) => Unwritten(a)'
  BY <1>1, Quiet
<1>3. audits' = audits
  BY DEF Expire, Reject, ConsumeFails, vars
<1>4. \A k \in Controllers : ctl'[k] = ctl[k] \/ ctl'[k].outcome = "Error"
  <2>1. CASE \E a \in Approvals : Expire(a)
    BY <2>1 DEF Expire
  <2>2. CASE \E h \in Connections, m \in sent : Reject(h, m) \/ ConsumeFails(h, m)
    <3>1. PICK h \in Connections : Answer(h, "Error")
      BY <2>2 DEF Reject, ConsumeFails
    <3> QED
      BY <3>1 DEF Answer, IInv, TypeOK, CtlOK, Invocation
  <2>3. CASE UNCHANGED vars
    BY <2>3 DEF vars
  <2> QED
    BY <2>1, <2>2, <2>3
<1> QED
  BY <1>1, <1>2, <1>3, <1>4, Receipts DEF IInv

(* Somebody else's change exposes every task that relies on the document.  *)
LEMMA EditSteps ==
  ASSUME IInv, TypeOK', NEW d \in Docs, NEW v \in Held, Edit(d, v)
  PROVE  IInv'
<1> USE DEF catalog, approving, requests, replays
<1>1. /\ backup' = backup /\ change' = change /\ task' = task /\ ctl' = ctl
      /\ audits' = audits /\ store' = store /\ uses' = uses /\ written' = written
      /\ last' = last /\ disk' = [disk EXCEPT ![d] = v]
      /\ raced' = raced \cup Exposed(d, Connections)
  BY DEF Edit
<1>2. WindowOK'
  <2> SUFFICES ASSUME NEW h \in Connections, task[h].phase \in {"checked", "kept"},
                      task[h].change \notin raced'
               PROVE  disk'[Doc(task[h])] = Expected(task[h])
    BY <1>1 DEF WindowOK, Doc, Expected
  <2>1. Doc(task[h]) # d
    BY <1>1 DEF Exposed
  <2> QED
    BY <1>1, <2>1 DEF IInv, WindowOK, TypeOK
<1>3. UseRecorded' /\ BackupOK' /\ Reversible'
  BY <1>1 DEF IInv, UseRecorded, BackupOK, Reversible, BackupServes
<1>4. TasksOK' /\ ReceiptsOK'
  BY <1>1 DEF IInv, TasksOK, ReceiptsOK, Truthful, Unwritten, Active
<1> QED
  BY <1>2, <1>3, <1>4 DEF IInv

(* What is known keeps its operation.                                      *)
LEMMA ProposeSteps ==
  ASSUME IInv, TypeOK', NEW c \in Changes, NEW d \in Docs, NEW v \in Contents, Propose(c, d, v)
  PROVE  IInv'
<1> USE DEF documents, approving, requests, replays, history
<1>1. /\ disk' = disk /\ backup' = backup /\ task' = task /\ ctl' = ctl
      /\ audits' = audits /\ store' = store /\ uses' = uses /\ written' = written
      /\ last' = last /\ raced' = raced
      /\ change[c] = NoChange
      /\ \A b \in Changes \ {c} : change'[b] = change[b]
  BY ProposeSaves DEF SaveChangeSet, IInv, TypeOK
<1>2. \A h \in Connections : task[h].phase # "idle" =>
        /\ task[h].change \in Changes \ {c}
        /\ change'[task[h].change] = change[task[h].change]
  BY <1>1 DEF IInv, TypeOK, TaskOK, Known
<1>3. WindowOK'
  BY <1>1, <1>2 DEF IInv, WindowOK, Doc, Expected
<1>4. change'[c] # NoChange
  BY ProposeSaves, ChangeAssumption DEF SaveChangeSet, Draft, IInv, TypeOK, Operation
<1>5. last[c] = "none" /\ (c \notin raced => backup[c] = NoCopy)
  BY <1>1 DEF IInv, BackupOK
<1>6. BackupOK' /\ Reversible'
  BY <1>1, <1>2, <1>4, <1>5 DEF IInv, BackupOK, Reversible, BackupServes
<1>7. UseRecorded' /\ TasksOK' /\ ReceiptsOK'
  BY <1>1 DEF IInv, UseRecorded, TasksOK, ReceiptsOK, Truthful, Unwritten, Active
<1> QED
  BY <1>3, <1>6, <1>7 DEF IInv

(* An approval is consumed once: it is new to the store, so no task works  *)
(* under it and nothing was written under it.                              *)
LEMMA ConsumeSteps ==
  ASSUME StoreLargeEnough, IInv, TypeOK', NEW h \in Connections, NEW m \in sent, Consume(h, m)
  PROVE  IInv'
<1> USE DEF documents, catalog, approving, requests, replays
<1> DEFINE a == m.approval
           new == [phase |-> "consumed", op |-> m.op, change |-> m.change, approval |-> a]
<1>1. /\ disk' = disk /\ backup' = backup /\ change' = change /\ ctl' = ctl
      /\ audits' = audits /\ written' = written /\ last' = last /\ raced' = raced
      /\ a \notin Range(store)
      /\ store' = Remembered(Append(store, a))
      /\ uses' = [uses EXCEPT ![a] = @ + 1]
      /\ task' = [task EXCEPT ![h] = new]
      /\ task[h].phase = "idle"
      /\ h \in Approvals => a = h
  BY ChangeAssumption DEF Consume, Consumed, Take, Readable
<1>2. a \in Approvals
  BY DEF IInv, TypeOK, Request
<1>3. /\ Range(store') = Range(store) \cup {a}
      /\ \A i, j \in DOMAIN store' : store'[i] = store'[j] => i = j
  BY <1>1, <1>2, Recording DEF IInv
<1>4. \A g \in Connections : task'[g] = IF g = h THEN new ELSE task[g]
  BY <1>1 DEF IInv, TypeOK, TaskOK
<1>5. new.phase = "consumed" /\ new.approval = a
  OBVIOUS
<1>6. a \notin written /\ \A g \in Connections : Active(g) => task[g].approval # a
  BY <1>1 DEF IInv, TasksOK
<1> HIDE DEF new, a
<1>7. UseRecorded'
  BY <1>1, <1>2, <1>3 DEF IInv, UseRecorded, TypeOK
<1>8. WindowOK'
  BY <1>1, <1>4, <1>5 DEF IInv, WindowOK, Doc, Expected
<1>9. BackupOK' /\ Reversible'
  BY <1>1, <1>4, <1>5 DEF IInv, BackupOK, Reversible, BackupServes
<1>10. TasksOK'
  <2>1. written' \subseteq Range(store')
    BY <1>1, <1>3 DEF IInv, TasksOK
  <2>2. ASSUME NEW g \in Connections, task'[g].phase # "idle"
        PROVE  /\ task'[g].approval \in Range(store')
               /\ task'[g].approval \in written' <=> task'[g].phase = "written"
               /\ g \in Approvals => task'[g].approval = g
    BY <1>1, <1>3, <1>4, <1>5, <1>6, <2>2 DEF IInv, TasksOK, Active
  <2>3. ASSUME NEW f \in Connections, NEW g \in Connections,
               task'[f].phase # "idle", task'[g].phase # "idle",
               task'[f].approval = task'[g].approval
        PROVE  f = g
    BY <1>4, <1>5, <1>6, <2>3 DEF IInv, TasksOK, Active
  <2> QED
    BY <2>1, <2>2, <2>3 DEF TasksOK, Active
<1>11. \A b \in Approvals : Unwritten(b) => Unwritten(b)'
  BY <1>1, <1>3, <1>4, <1>5 DEF Unwritten, Active
<1>12. ReceiptsOK'
  BY <1>1, <1>11, Receipts DEF IInv
<1> QED
  BY <1>7, <1>8, <1>9, <1>10, <1>12 DEF IInv

(* A task that ends: a conflict is found before anything is written, and   *)
(* only a written task reports success.                                    *)
LEMMA FinishSteps ==
  ASSUME IInv, TypeOK', NEW h \in Connections,
         \/ Refuse(h) \/ RefuseRuntimeRollback(h) \/ RefuseBackup(h) \/ Verify(h)
         \/ ProviderFails(h)
  PROVE  IInv'
<1> USE DEF documents, catalog, approving, requests, replays, history
<1>1. /\ disk' = disk /\ backup' = backup /\ change' = change /\ audits' = audits
      /\ store' = store /\ uses' = uses /\ written' = written /\ last' = last /\ raced' = raced
      /\ task' = [task EXCEPT ![h] = NoTask]
      /\ Active(h)
  BY DEF Refuse, RefuseRuntimeRollback, RefuseBackup, Verify, ProviderFails, Finish, Active
<1>2. \A g \in Connections : task'[g] = IF g = h THEN NoTask ELSE task[g]
  BY <1>1 DEF IInv, TypeOK, TaskOK
<1>3. NoTask.phase = "idle"
  BY DEF NoTask
<1>4. UseRecorded' /\ WindowOK' /\ BackupOK' /\ Reversible' /\ TasksOK'
  <2>1. UseRecorded'
    BY <1>1 DEF IInv, UseRecorded
  <2>2. WindowOK'
    BY <1>1, <1>2, <1>3 DEF IInv, WindowOK, Doc, Expected
  <2>3. BackupOK' /\ Reversible'
    BY <1>1, <1>2, <1>3 DEF IInv, BackupOK, Reversible, BackupServes
  <2>4. TasksOK'
    BY <1>1, <1>2, <1>3 DEF IInv, TasksOK, Active
  <2> QED
    BY <2>1, <2>2, <2>3, <2>4
<1>5. \A a \in Approvals : Unwritten(a) => Unwritten(a)'
  BY <1>1, <1>2, <1>3 DEF Unwritten, Active
<1>6. PICK o \in Outcomes :
        /\ Answer(h, o)
        /\ o = "Conflict" => task[h].phase = "consumed"
        /\ o \notin {"Conflict", "Error"} => task[h].phase = "written"
  BY DEF Refuse, RefuseRuntimeRollback, RefuseBackup, Verify, ProviderFails, Finish, Outcomes
<1>7. ASSUME NEW k \in Controllers
      PROVE  \/ ctl'[k] = ctl[k]
             \/ ctl'[k].outcome = "Error"
             \/ ctl'[k].phase = "answered" /\ Truthful(ctl[k])'
  <2>1. CASE ~(ctl[k].phase = "sent" /\ ctl[k].approval = h)
    BY <2>1, <1>6 DEF Answer
  <2>2. CASE ctl[k].phase = "sent" /\ ctl[k].approval = h
    <3>1. ctl[k] \in Invocation /\ ctl[k].approval \in Approvals
      BY <2>2 DEF IInv, TypeOK, CtlOK, Known
    <3>2. /\ ctl'[k].phase = "answered" /\ ctl'[k].outcome = o
          /\ ctl'[k].approval = ctl[k].approval
      BY <2>2, <3>1, <1>6 DEF Answer, Invocation
    <3>3. task[h].approval = ctl[k].approval
      BY <2>2, <3>1, <1>1 DEF IInv, TasksOK
    <3>4. CASE o = "Conflict"
      <4>1. task[h].approval \in Range(store) \ written
        BY <1>1, <1>6, <3>4 DEF IInv, TasksOK
      <4>2. \A g \in Connections : Active(g) /\ g # h => task[g].approval # task[h].approval
        BY <1>1 DEF IInv, TasksOK
      <4>3. Unwritten(ctl[k].approval)'
        BY <1>1, <1>2, <1>3, <3>2, <3>3, <4>1, <4>2 DEF Unwritten, Active
      <4> QED
        BY <3>2, <3>4, <4>3 DEF Truthful
    <3>5. CASE o \notin {"Conflict", "Error"}
      <4>1. task[h].approval \in written
        BY <1>1, <1>6, <3>5 DEF IInv, TasksOK
      <4> QED
        BY <1>1, <3>2, <3>3, <3>5, <4>1 DEF Truthful
    <3> QED
      BY <3>2, <3>4, <3>5
  <2> QED
    BY <2>1, <2>2
<1>8. ReceiptsOK'
  BY <1>1, <1>5, <1>7, Receipts DEF IInv
<1> QED
  BY <1>4, <1>8 DEF IInv

(* What the tasks say when only the phase of h changes, not to written.    *)
LEMMA PhaseMoves ==
  ASSUME IInv, NEW h \in Connections, Active(h), task[h].phase # "written",
         NEW p \in {"checked", "kept"},
         task' = [task EXCEPT ![h].phase = p], store' = store, written' = written
  PROVE  /\ \A g \in Connections : /\ task'[g].change = task[g].change
                                   /\ task'[g].op = task[g].op
                                   /\ g # h => task'[g] = task[g]
         /\ task'[h].phase = p
         /\ TasksOK'
         /\ \A a \in Approvals : Unwritten(a) => Unwritten(a)'
<1>1. \A g \in Connections : task[g] \in Task
  BY DEF IInv, TypeOK, TaskOK
<1>2. \A g \in Connections : task'[g] = IF g = h THEN [task[g] EXCEPT !.phase = p] ELSE task[g]
  BY DEF IInv, TypeOK, TaskOK
<1>3. \A g \in Connections : /\ task'[g].change = task[g].change
                             /\ task'[g].op = task[g].op
                             /\ task'[g].approval = task[g].approval
                             /\ g # h => task'[g] = task[g]
  BY <1>1, <1>2 DEF Task
<1>4. task'[h].phase = p
  BY <1>1, <1>2 DEF Task
<1>5. \A g \in Connections : task'[g].phase # "idle" <=> task[g].phase # "idle"
  BY <1>3, <1>4 DEF Active
<1>6. \A g \in Connections : task'[g].phase = "written" <=> task[g].phase = "written"
  BY <1>3, <1>4
<1>7. TasksOK'
  BY <1>3, <1>5, <1>6 DEF IInv, TasksOK, Active
<1>8. \A a \in Approvals : Unwritten(a) => Unwritten(a)'
  BY <1>3, <1>5 DEF Unwritten, Active
<1> QED
  BY <1>3, <1>4, <1>7, <1>8

(* Checking opens the window; what Keep copies is still what was checked.  *)
LEMMA MoveSteps ==
  ASSUME IInv, TypeOK', NEW h \in Connections, Check(h) \/ Keep(h) \/ ReadBackup(h)
  PROVE  IInv'
<1> USE DEF documents, catalog, approving, requests, replays, history
<1>1. /\ disk' = disk /\ change' = change /\ ctl' = ctl /\ audits' = audits
      /\ store' = store /\ uses' = uses /\ written' = written /\ last' = last /\ raced' = raced
      /\ Active(h) /\ task[h].phase # "written"
  BY DEF Check, Keep, ReadBackup, Active
<1>2. PICK p \in {"checked", "kept"} : task' = [task EXCEPT ![h].phase = p]
  BY DEF Check, Keep, ReadBackup
<1>3. /\ \A g \in Connections : /\ task'[g].change = task[g].change
                                /\ task'[g].op = task[g].op
                                /\ g # h => task'[g] = task[g]
      /\ task'[h].phase = p
      /\ TasksOK'
      /\ \A a \in Approvals : Unwritten(a) => Unwritten(a)'
  BY <1>1, <1>2, PhaseMoves
<1>4. Known(task[h])
  BY <1>1 DEF IInv, TypeOK, TaskOK, Active
<1>5. task[h].change \notin raced => disk[Doc(task[h])] = Expected(task[h])
  BY DEF Check, Keep, ReadBackup, IInv, WindowOK
<1>6. WindowOK'
  <2> SUFFICES ASSUME NEW g \in Connections, task'[g].phase \in {"checked", "kept"},
                      task[g].change \notin raced
               PROVE  disk[Doc(task[g])] = Expected(task[g])
    BY <1>1, <1>3 DEF WindowOK, Doc, Expected
  <2> QED
    BY <1>3, <1>5 DEF IInv, WindowOK
<1>7. \A c \in Changes \ raced : BackupServes(c) => BackupServes(c)'
  <2>1. CASE Check(h) \/ ReadBackup(h)
    BY <2>1 DEF Check, ReadBackup, BackupServes
  <2>2. CASE Keep(h)
    <3> SUFFICES ASSUME NEW c \in Changes \ raced, BackupServes(c) PROVE BackupServes(c)'
      OBVIOUS
    <3>1. CASE c = task[h].change
      BY <1>1, <1>5, <2>2, <3>1 DEF Keep, BackupServes, Expected, IInv, TypeOK
    <3>2. CASE c # task[h].change
      BY <1>1, <2>2, <3>2 DEF Keep, BackupServes, IInv, TypeOK
    <3> QED
      BY <3>1, <3>2
  <2> QED
    BY <2>1, <2>2
<1>8. \A c \in Changes \ raced :
        backup'[c] # NoCopy => change[c] # NoChange /\ backup'[c] = change[c].before
  <2>1. CASE Check(h) \/ ReadBackup(h)
    BY <2>1 DEF Check, ReadBackup, IInv, BackupOK
  <2>2. CASE Keep(h)
    BY <1>4, <1>5, <2>2 DEF Keep, Known, Expected, IInv, BackupOK, TypeOK
  <2> QED
    BY <2>1, <2>2
<1>9. task'[h].phase = "kept" /\ task[h].change \notin raced => BackupServes(task[h].change)'
  <2>1. CASE Check(h)
    <3>1. task' = [task EXCEPT ![h].phase = "checked"] /\ task[h] \in Task
      BY <2>1 DEF Check, IInv, TypeOK, TaskOK
    <3>2. task'[h].phase = "checked"
      BY <3>1 DEF IInv, TypeOK, TaskOK, Task
    <3> QED
      BY <3>2
  <2>2. CASE ReadBackup(h)
    BY <2>2 DEF ReadBackup, BackupServes
  <2>3. CASE Keep(h)
    BY <1>1, <1>4, <1>5, <2>3 DEF Keep, Known, Expected, BackupServes, IInv, TypeOK
  <2> QED
    BY <2>1, <2>2, <2>3
<1>10. BackupOK' /\ Reversible'
  <2>1. \A g \in Connections :
          task'[g].phase = "kept" /\ task[g].change \notin raced
            => BackupServes(task[g].change)'
    BY <1>3, <1>7, <1>9 DEF IInv, BackupOK, TypeOK, TaskOK, Known
  <2>2. BackupOK'
    BY <1>1, <1>3, <1>8, <2>1 DEF IInv, BackupOK, BackupServes
  <2>3. Reversible'
    BY <1>1, <1>7 DEF IInv, Reversible
  <2> QED
    BY <2>2, <2>3
<1>11. UseRecorded'
  BY <1>1 DEF IInv, UseRecorded
<1>12. ReceiptsOK'
  BY <1>1, <1>3, Receipts DEF IInv
<1> QED
  BY <1>3, <1>6, <1>10, <1>11, <1>12 DEF IInv

(* A write exposes the other tasks that rely on the document; the backup   *)
(* of what it replaces is in place.                                        *)
LEMMA WriteSteps ==
  ASSUME IInv, TypeOK', NEW h \in Connections, Write(h)
  PROVE  IInv'
<1> USE DEF catalog, approving, requests, replays
<1> DEFINE w == task[h]
<1>1. /\ backup' = backup /\ change' = change /\ ctl' = ctl /\ audits' = audits
      /\ store' = store /\ uses' = uses
      /\ written' = written \cup {w.approval}
      /\ last' = [last EXCEPT ![w.change] = w.op]
      /\ disk' = [disk EXCEPT ![Doc(w)] = Result(w)]
      /\ raced' = IF disk[Doc(w)] = Result(w) THEN raced
                  ELSE raced \cup Exposed(Doc(w), Connections \ {h})
      /\ task' = [task EXCEPT ![h].phase = "written"]
      /\ w.phase \in {"checked", "kept"}
      /\ w.phase = "kept" <=> Doc(w) \in Files
  BY DEF Write
<1>2. w \in Task /\ Known(w) /\ Active(h) /\ w.phase # "written"
  BY <1>1 DEF IInv, TypeOK, TaskOK, Active
<1>3. Doc(w) \in Docs /\ change[w.change] \in Operation
  BY <1>2, KnownOperation DEF IInv
<1>4. \A g \in Connections : /\ task'[g].change = task[g].change
                             /\ task'[g].op = task[g].op
                             /\ task'[g].approval = task[g].approval
                             /\ g # h => task'[g] = task[g]
  <2>1. \A g \in Connections :
          /\ task[g] \in Task
          /\ task'[g] = IF g = h THEN [task[g] EXCEPT !.phase = "written"] ELSE task[g]
    BY <1>1 DEF IInv, TypeOK, TaskOK
  <2> QED
    BY <2>1 DEF Task
<1>5. task'[h].phase = "written"
  BY <1>1, <1>2 DEF IInv, TypeOK, TaskOK, Task
<1>6. raced \subseteq raced'
  BY <1>1
<1> HIDE DEF w
<1>7. WindowOK'
  <2> SUFFICES ASSUME NEW g \in Connections, task'[g].phase \in {"checked", "kept"},
                      task[g].change \notin raced'
               PROVE  disk'[Doc(task[g])] = Expected(task[g])
    BY <1>1, <1>4 DEF WindowOK, Doc, Expected
  <2>1. g # h /\ task'[g] = task[g] /\ disk[Doc(task[g])] = Expected(task[g])
    BY <1>4, <1>5, <1>6 DEF IInv, WindowOK
  <2>2. CASE disk[Doc(w)] = Result(w)
    BY <1>1, <2>1, <2>2 DEF IInv, TypeOK
  <2>3. CASE disk[Doc(w)] # Result(w)
    <3>1. Doc(task[g]) # Doc(w)
      BY <1>1, <2>1, <2>3 DEF Exposed
    <3> QED
      BY <1>1, <2>1, <3>1 DEF IInv, TypeOK
  <2> QED
    BY <2>2, <2>3
<1>8. BackupOK'
  <2>1. \A g \in Connections :
          task'[g].phase = "kept" /\ task'[g].change \notin raced'
            => BackupServes(task'[g].change)
    BY <1>4, <1>5, <1>6 DEF IInv, BackupOK
  <2>2. \A c \in Changes : last'[c] # "none" => change[c] # NoChange
    BY <1>1, <1>2 DEF IInv, BackupOK, TypeOK, Known
  <2> QED
    BY <1>1, <1>6, <2>1, <2>2 DEF IInv, BackupOK, BackupServes
<1>9. Reversible'
  <2> SUFFICES ASSUME NEW c \in Changes \ raced', last'[c] = "apply", change[c].doc \in Files
               PROVE  BackupServes(c)
    BY <1>1 DEF Reversible, BackupServes
  <2>1. CASE c = w.change
    <3>1. w.phase = "kept"
      BY <1>1, <2>1 DEF Doc
    <3> QED
      BY <1>6, <2>1, <3>1 DEF IInv, BackupOK, w
  <2>2. CASE c # w.change
    BY <1>1, <1>6, <2>2 DEF IInv, Reversible, TypeOK
  <2> QED
    BY <2>1, <2>2
<1>10. w.approval \in Range(store)
  BY <1>2 DEF IInv, TasksOK, w
<1>11. \A g \in Connections : Active(g) /\ g # h => task[g].approval # w.approval
  BY <1>2 DEF IInv, TasksOK, w
<1>12. TasksOK'
  <2>1. written' \subseteq Range(store')
    BY <1>1, <1>10 DEF IInv, TasksOK
  <2>2. \A g \in Connections : task'[g].phase # "idle" => Active(g)
    BY <1>2, <1>4 DEF Active
  <2>3. ASSUME NEW g \in Connections, task'[g].phase # "idle"
        PROVE  /\ task'[g].approval \in Range(store')
               /\ task'[g].approval \in written' <=> task'[g].phase = "written"
               /\ g \in Approvals => task'[g].approval = g
    <3>1. CASE g = h
      BY <1>1, <1>2, <1>4, <1>5, <1>10, <3>1 DEF IInv, TasksOK, w
    <3>2. CASE g # h
      BY <1>1, <1>4, <1>11, <2>2, <2>3, <3>2 DEF IInv, TasksOK
    <3> QED
      BY <3>1, <3>2
  <2> QED
    BY <1>4, <2>1, <2>2, <2>3 DEF IInv, TasksOK, Active
<1>13. \A a \in Approvals : Unwritten(a) => Unwritten(a)'
  <2> SUFFICES ASSUME NEW a \in Approvals, Unwritten(a) PROVE Unwritten(a)'
    OBVIOUS
  <2>1. a # w.approval
    BY <1>2 DEF Unwritten, w
  <2>2. \A g \in Connections : task'[g].phase # "idle" => task'[g].approval # a
    BY <1>2, <1>4 DEF Unwritten, Active
  <2> QED
    BY <1>1, <2>1, <2>2 DEF Unwritten, Active
<1>14. ReceiptsOK'
  BY <1>1, <1>13, Receipts DEF IInv
<1>15. UseRecorded'
  BY <1>1 DEF IInv, UseRecorded
<1> QED
  BY <1>7, <1>8, <1>9, <1>12, <1>14, <1>15 DEF IInv

(* The files survive a crash of the Agent, and nothing works any more.     *)
LEMMA CrashSteps ==
  ASSUME IInv, TypeOK', AgentCrash
  PROVE  IInv'
<1> USE DEF documents, catalog, approving, history
<1>1. /\ disk' = disk /\ backup' = backup /\ change' = change /\ audits' = audits
      /\ store' = store /\ uses' = uses /\ written' = written /\ last' = last /\ raced' = raced
      /\ \A h \in Connections : task'[h] = NoTask
  BY DEF AgentCrash
<1>2. NoTask.phase = "idle"
  BY DEF NoTask
<1>3. UseRecorded' /\ WindowOK' /\ BackupOK' /\ Reversible' /\ TasksOK'
  BY <1>1, <1>2 DEF IInv, UseRecorded, WindowOK, BackupOK, Reversible, BackupServes,
                    TasksOK, Active
<1>4. \A a \in Approvals : Unwritten(a) => Unwritten(a)'
  BY <1>1, <1>2 DEF Unwritten, Active
<1>5. ASSUME NEW k \in Controllers PROVE ctl'[k] = ctl[k] \/ ctl'[k].outcome = "Error"
  <2>1. ctl[k] \in Invocation /\ (ctl[k].phase = "sent" => ctl[k].outcome = "Error")
    BY DEF IInv, TypeOK, CtlOK, ReceiptsOK
  <2>2. ctl'[k] = IF ctl[k].phase = "sent" THEN [ctl[k] EXCEPT !.phase = "answered"] ELSE ctl[k]
    BY DEF AgentCrash
  <2> QED
    BY <2>1, <2>2 DEF Invocation
<1>6. ReceiptsOK'
  BY <1>1, <1>4, <1>5, Receipts DEF IInv
<1> QED
  BY <1>3, <1>6 DEF IInv
-----------------------------------------------------------------------------
LEMMA InvInit == Init => IInv
<1> SUFFICES ASSUME Init PROVE IInv
  OBVIOUS
<1>1. TypeOK
  BY TypeInit
<1>2. NoCtl.phase = "idle" /\ NoTask.phase = "idle"
  BY DEF NoCtl, NoTask
<1>3. DOMAIN store = {} /\ Range(store) = {}
  BY DEF Init, Range
<1>4. UseRecorded /\ WindowOK /\ BackupOK /\ Reversible
  BY <1>2, <1>3 DEF Init, UseRecorded, WindowOK, BackupOK, Reversible
<1>5. TasksOK /\ ReceiptsOK
  BY <1>2 DEF Init, TasksOK, ReceiptsOK, Active
<1> QED
  BY <1>1, <1>4, <1>5 DEF IInv

LEMMA InvStep ==
  ASSUME StoreLargeEnough, IInv, [Next]_vars
  PROVE  IInv'
<1>1. TypeOK'
  BY TypeStep DEF IInv
<1>2. CASE \E d \in Docs, v \in Held : Edit(d, v)
  BY <1>1, <1>2, EditSteps
<1>3. CASE \E c \in Changes, d \in Docs, v \in Contents : Propose(c, d, v)
  BY <1>1, <1>3, ProposeSteps
<1>4. CASE \E k \in Controllers :
             \/ \E op \in Operations, c \in Changes, a \in Approvals : Begin(k, op, c, a)
             \/ ControllerStep(k) \/ LoseConnection(k) \/ ControllerStops(k)
  BY <1>1, <1>4, ControllerSteps
<1>5. CASE \/ \E a \in Approvals : Expire(a)
           \/ \E h \in Connections, m \in sent : Reject(h, m) \/ ConsumeFails(h, m)
           \/ UNCHANGED vars
  BY <1>1, <1>5, OtherQuietSteps
<1>6. CASE \E h \in Connections, m \in sent : Consume(h, m)
  BY <1>1, <1>6, ConsumeSteps
<1>7. CASE \E h \in Connections : \/ Refuse(h) \/ RefuseRuntimeRollback(h)
                                  \/ RefuseBackup(h) \/ Verify(h) \/ ProviderFails(h)
  BY <1>1, <1>7, FinishSteps
<1>8. CASE \E h \in Connections : Check(h) \/ Keep(h) \/ ReadBackup(h)
  BY <1>1, <1>8, MoveSteps
<1>9. CASE \E h \in Connections : Write(h)
  BY <1>1, <1>9, WriteSteps
<1>10. CASE AgentCrash
  BY <1>1, <1>10, CrashSteps
<1> QED
  BY <1>2, <1>3, <1>4, <1>5, <1>6, <1>7, <1>8, <1>9, <1>10 DEF Next, Serve, TaskStep

THEOREM InvHolds == ASSUME StoreLargeEnough PROVE Spec => []IInv
BY InvInit, InvStep, PTL DEF Spec

(* However requests are repeated and the Agent restarted, an approval      *)
(* reaches the provider at most once.                                      *)
THEOREM UsedOnce == ASSUME StoreLargeEnough PROVE Spec => []ApprovalUsedOnce
<1>1. IInv => ApprovalUsedOnce
  BY DEF IInv, UseRecorded, ApprovalUsedOnce
<1> QED
  BY <1>1, InvHolds, PTL

(* An applied change can be taken back from its backup, unless the file    *)
(* was changed between the Agent's comparison and its rename.              *)
THEOREM CanBeReversed == ASSUME StoreLargeEnough PROVE Spec => []Reversible
<1>1. IInv => Reversible
  BY DEF IInv
<1> QED
  BY <1>1, InvHolds, PTL

(* What an audit event says of its approval is so.                         *)
THEOREM AuditsTruthful == ASSUME StoreLargeEnough PROVE Spec => []AuditTruthful
<1>1. IInv => AuditTruthful
  BY DEF IInv, ReceiptsOK, AuditTruthful, Truthful, Unwritten
<1> QED
  BY <1>1, InvHolds, PTL

(* No other step ends in a write.                                          *)
LEMMA OnlyWriteReplaces ==
  ASSUME TypeOK, [Next]_vars, NEW h \in Connections, Replaces(h)
  PROVE  task[h].phase \in {"checked", "kept"}
<1> USE DEF Replaces, requests
<1>1. task \in [Connections -> Task] /\ NoTask.phase = "idle"
  BY DEF TypeOK, TaskOK, NoTask
<1>2. task' # task
  OBVIOUS
<1>3. ASSUME NEW g \in Connections, NEW m \in sent, Consume(g, m)
      PROVE  FALSE
  BY <1>1, <1>3 DEF Consume
<1>4. ASSUME NEW g \in Connections, task' = [task EXCEPT ![g] = NoTask]
      PROVE  FALSE
  BY <1>1, <1>4
<1>5. ASSUME NEW g \in Connections, NEW p \in {"checked", "kept"},
             task' = [task EXCEPT ![g].phase = p]
      PROVE  FALSE
  BY <1>1, <1>5 DEF Task
<1>6. ASSUME NEW g \in Connections, Write(g)
      PROVE  task[h].phase \in {"checked", "kept"}
  BY <1>1, <1>6 DEF Write, Task
<1>7. ASSUME NEW g \in Connections, TaskStep(g) \/ ProviderFails(g)
      PROVE  task[h].phase \in {"checked", "kept"}
  <2>1. CASE \/ Refuse(g) \/ RefuseRuntimeRollback(g) \/ RefuseBackup(g) \/ Verify(g)
             \/ ProviderFails(g)
    BY <1>4, <2>1 DEF Refuse, RefuseRuntimeRollback, RefuseBackup, Verify, ProviderFails, Finish
  <2>2. CASE Check(g) \/ Keep(g) \/ ReadBackup(g)
    BY <1>5, <2>2 DEF Check, Keep, ReadBackup
  <2> QED
    BY <1>6, <1>7, <2>1, <2>2 DEF TaskStep
<1>8. ASSUME AgentCrash PROVE FALSE
  BY <1>1, <1>8 DEF AgentCrash
<1>9. ASSUME \/ \E d \in Docs, v \in Held : Edit(d, v)
             \/ \E c \in Changes, d \in Docs, v \in Contents : Propose(c, d, v)
             \/ \E k \in Controllers :
                  \/ \E op \in Operations, c \in Changes, a \in Approvals : Begin(k, op, c, a)
                  \/ ControllerStep(k) \/ LoseConnection(k) \/ ControllerStops(k)
             \/ \E a \in Approvals : Expire(a)
             \/ \E g \in Connections, m \in sent : Reject(g, m) \/ ConsumeFails(g, m)
             \/ UNCHANGED vars
      PROVE  FALSE
  BY <1>2, <1>9, ProposeSaves DEF Edit, SaveChangeSet, Begin, ControllerStep, SendRequest, SaveStatus,
       RecordAudit, LoseConnection, ControllerStops, Expire, Reject, ConsumeFails, vars
<1> QED
  BY <1>3, <1>6, <1>7, <1>8, <1>9 DEF Next, Serve

(* With the same exception, a write replaces what was compared.            *)
THEOREM SwapsExpected == ASSUME StoreLargeEnough PROVE Spec => ReplacesExpected
<1>1. ASSUME IInv, [Next]_vars, NEW h \in Connections, Replaces(h),
             task[h].change \notin raced
      PROVE  disk[Doc(task[h])] = Expected(task[h])
  <2>1. task[h].phase \in {"checked", "kept"}
    BY <1>1, OnlyWriteReplaces DEF IInv
  <2> QED
    BY <1>1, <2>1 DEF IInv, WindowOK
<1>2. IInv /\ [Next]_vars =>
        [\A h \in Connections :
           Replaces(h) /\ task[h].change \notin raced
             => disk[Doc(task[h])] = Expected(task[h])]_vars
  BY <1>1
<1> QED
  BY <1>2, InvHolds, PTL DEF ReplacesExpected, Spec


-----------------------------------------------------------------------------
(* The status tells of the last write, with one process at a time, whose   *)
(* requests nobody repeats, and as long as nothing has failed. A status    *)
(* that is wrong would come from an answer that is: to another process, or *)
(* from a task that goes on after its process has stopped waiting. The     *)
(* invariant follows the one request: unread or worked on by one task, and *)
(* only while its process waits.                                           *)

(* What a status or an outcome says of change set c.                       *)
Tells(s, c) ==
  /\ s = "Applied" => last[c] = "apply"
  /\ s = "RolledBack" => last[c] = "rollback"

(* The task of connection h works on the request k waits for.              *)
WorksFor(k, h) ==
  /\ ctl[k].phase = "sent"
  /\ h = ctl[k].approval
  /\ task[h].op = ctl[k].op
  /\ task[h].change = ctl[k].change
  /\ task[h].phase = "written" => last[task[h].change] = task[h].op

(* Whatever the Agent has to do is what k waits for, and is there once.    *)
OneAtATime(k) ==
  /\ \A m \in unread : /\ ctl[k].phase = "sent"
                       /\ m = [op |-> ctl[k].op, change |-> ctl[k].change,
                               approval |-> ctl[k].approval]
  /\ \A h \in Connections : Active(h) => WorksFor(k, h) /\ unread = {}

(* Until it is saved, the change set is Approved and the outcome waits.    *)
StatusHolds(k) ==
  /\ ctl[k].phase \in {"issued", "sent", "answered"} => status[ctl[k].change] = "Approved"
  /\ ctl[k].phase = "answered" => Tells(ctl[k].outcome, ctl[k].change)
  /\ \A c \in Changes : Tells(status[c], c)

StatusInv(k) == TypeOK /\ (faults = 0 => OneAtATime(k) /\ StatusHolds(k))

LEMMA StatusInit ==
  ASSUME NEW k, Controllers = {k}, Init
  PROVE  StatusInv(k)
<1>1. TypeOK
  BY TypeInit
<1>2. ctl[k].phase = "idle" /\ \A h \in Connections : ~Active(h)
  BY DEF Init, NoCtl, NoTask, Active
<1>3. OneAtATime(k)
  BY <1>2 DEF Init, OneAtATime
<1>4. \A c \in Changes : Tells(status[c], c)
  BY DEF Init, Tells
<1> QED
  BY <1>1, <1>2, <1>3, <1>4 DEF StatusInv, StatusHolds

(* Every step without a fault keeps it; after a fault it claims nothing.   *)
LEMMA StatusStep ==
  ASSUME NEW k, Controllers = {k}, Retries = {}, StatusInv(k), [Next]_vars
  PROVE  StatusInv(k)'
<1> USE DEF documents, catalog, approving, requests, replays, history
<1>0. TypeOK /\ TypeOK'
  BY TypeStep DEF StatusInv
<1> SUFFICES ASSUME faults' = 0 PROVE OneAtATime(k)' /\ StatusHolds(k)'
  BY <1>0 DEF StatusInv
<1>a. faults \in Nat /\ faults' \in Nat
  BY <1>0, ChangeAssumption DEF TypeOK
<1>b. ~Fault
  BY <1>a DEF Fault
<1>c. Next => faults = 0
  BY <1>b DEF Next, Edit, Propose, ProposeFile, ProposeThread, SaveChangeSet, Begin, ControllerStep,
     SendRequest, SaveStatus, RecordAudit, LoseConnection, ControllerStops, Expire, Serve, Consume,
     Reject, ConsumeFails, TaskStep, Refuse, RefuseRuntimeRollback, Check, Keep, ReadBackup,
     RefuseBackup, Write, Verify, ProviderFails, AgentCrash
<1>d. faults = 0
  BY <1>c DEF vars
<1>e. OneAtATime(k) /\ StatusHolds(k)
  BY <1>d DEF StatusInv
<1>f. /\ ctl \in [{k} -> Invocation] /\ task \in [Connections -> Task]
      /\ ctl[k].phase # "idle" => Known(ctl[k])
      /\ \A h \in Connections : task[h].phase # "idle" => Known(task[h])
      /\ status \in [Changes -> {"None", "Proposed", "Approved", "Applied",
                             "Conflict", "Failed", "RolledBack"}]
      /\ last \in [Changes -> Operations \cup {"none"}]
      /\ unread \subseteq sent /\ sent \subseteq Request
      /\ change \in [Changes -> Operation \cup {NoChange}]
  BY <1>0 DEF TypeOK, CtlOK, TaskOK
<1>g. NoTask.phase = "idle" /\ NoCtl.phase = "idle" /\ Connections = Approvals
  BY DEF NoTask, NoCtl, Connections
(* The rest of the state is as it was. *)
<1>1. CASE UNCHANGED <<ctl, task, unread, last, status>>
  BY <1>1, <1>e DEF OneAtATime, StatusHolds, Tells, WorksFor, Active
<1>2. ASSUME NEW c \in Changes, NEW d \in Docs, NEW v \in Contents, Propose(c, d, v)
      PROVE  OneAtATime(k)' /\ StatusHolds(k)'
  <2>1. SaveChangeSet(c, Draft(d, v))
    BY <1>2, ProposeSaves
  <2>2. UNCHANGED <<ctl, task, unread, last>> /\ status' = [status EXCEPT ![c] = "Proposed"]
        /\ change[c] = NoChange
    BY <2>1 DEF SaveChangeSet
  <2>3. OneAtATime(k)'
    BY <2>2, <1>e DEF OneAtATime, WorksFor, Active
  <2>4. ctl[k].phase # "idle" => ctl[k].change # c
    BY <1>f, <2>2 DEF Known
  <2>5. \A b \in Changes : status'[b] = IF b = c THEN "Proposed" ELSE status[b]
    BY <1>f, <2>2
  <2>6. ctl[k].phase # "idle" => ctl[k].change \in Changes
    BY <1>f DEF Known
  <2>7. StatusHolds(k)'
    BY <2>2, <2>4, <2>5, <2>6, <1>e DEF StatusHolds, Tells
  <2> QED
    BY <2>3, <2>7
<1>3. ASSUME NEW op \in Operations, NEW c \in Changes, NEW a \in Approvals, Begin(k, op, c, a)
      PROVE  OneAtATime(k)' /\ StatusHolds(k)'
  <2>1. /\ ctl[k].phase = "idle" /\ UNCHANGED <<task, unread, last>>
        /\ status' = [status EXCEPT ![c] = "Approved"]
        /\ ctl'[k].phase = "issued" /\ ctl'[k].change = c
    BY <1>3, <1>f DEF Begin
  <2>2. unread = {} /\ \A h \in Connections : ~Active(h)
    BY <2>1, <1>e DEF OneAtATime, WorksFor
  <2>3. OneAtATime(k)'
    BY <2>1, <2>2 DEF OneAtATime, Active
  <2>4. \A b \in Changes : status'[b] = IF b = c THEN "Approved" ELSE status[b]
    BY <1>f, <2>1
  <2>5. StatusHolds(k)'
    BY <2>1, <2>4, <1>e DEF StatusHolds, Tells
  <2> QED
    BY <2>3, <2>5
<1>4. ASSUME SendRequest(k) PROVE OneAtATime(k)' /\ StatusHolds(k)'
  <2> DEFINE m == [op |-> ctl[k].op, change |-> ctl[k].change, approval |-> ctl[k].approval]
  <2>1. /\ ctl[k].phase = "issued" /\ UNCHANGED <<task, last, status>>
        /\ ctl' = [ctl EXCEPT ![k].phase = "sent"] /\ unread' = unread \cup {m}
    BY <1>4 DEF SendRequest
  <2>2. unread = {} /\ \A h \in Connections : ~Active(h)
    BY <2>1, <1>e DEF OneAtATime, WorksFor
  <2>3. ctl'[k].phase = "sent" /\ ctl'[k].op = ctl[k].op /\ ctl'[k].change = ctl[k].change
        /\ ctl'[k].approval = ctl[k].approval
    BY <1>f, <2>1 DEF Invocation
  <2>4. OneAtATime(k)'
    BY <2>1, <2>2, <2>3 DEF OneAtATime, Active
  <2>5. StatusHolds(k)'
    BY <2>1, <2>3, <1>e DEF StatusHolds, Tells
  <2> QED
    BY <2>4, <2>5
<1>5. ASSUME SaveStatus(k) PROVE OneAtATime(k)' /\ StatusHolds(k)'
  <2> DEFINE o == ctl[k].outcome
             c == ctl[k].change
             s == IF o = "Error" THEN "Failed" ELSE o
  <2>1. /\ ctl[k].phase = "answered" /\ UNCHANGED <<task, last, unread>>
        /\ status' = [status EXCEPT ![c] = s]
        /\ ctl' = [ctl EXCEPT ![k] = IF o = "Error" THEN NoCtl ELSE [@ EXCEPT !.phase = "saved"]]
    BY <1>5 DEF SaveStatus
  <2>2. unread = {} /\ \A h \in Connections : ~Active(h)
    BY <2>1, <1>e DEF OneAtATime, WorksFor
  <2>3. ctl'[k].phase \in {"idle", "saved"}
    BY <1>f, <1>g, <2>1 DEF Invocation
  <2>4. OneAtATime(k)'
    BY <2>1, <2>2 DEF OneAtATime, Active
  <2>5. Tells(s, c)
    BY <2>1, <1>e DEF StatusHolds, Tells
  <2>6. \A b \in Changes : status'[b] = IF b = c THEN s ELSE status[b]
    BY <1>f, <2>1
  <2> HIDE DEF o, c, s
  <2>7. StatusHolds(k)'
    BY <2>1, <2>3, <2>5, <2>6, <1>e DEF StatusHolds, Tells
  <2> QED
    BY <2>4, <2>7
<1>6. ASSUME RecordAudit(k) PROVE OneAtATime(k)' /\ StatusHolds(k)'
  <2>1. /\ ctl[k].phase = "saved" /\ UNCHANGED <<task, last, unread, status>>
        /\ ctl'[k].phase = "idle"
    BY <1>6, <1>f, <1>g DEF RecordAudit
  <2>2. unread = {} /\ \A h \in Connections : ~Active(h)
    BY <2>1, <1>e DEF OneAtATime, WorksFor
  <2>3. OneAtATime(k)'
    BY <2>1, <2>2 DEF OneAtATime, Active
  <2>4. StatusHolds(k)'
    BY <2>1, <1>e DEF StatusHolds, Tells
  <2> QED
    BY <2>3, <2>4
<1>h. ASSUME NEW h \in Connections, NEW m \in sent, Take(h, m)
      PROVE  /\ m \in unread /\ m.approval = h /\ unread' = {}
             /\ ctl[k].phase = "sent" /\ ctl[k].approval = h
             /\ m.op = ctl[k].op /\ m.change = ctl[k].change
             /\ \A g \in Connections : ~Active(g)
  <2>1. m \in unread /\ m.approval = h /\ unread' = unread \ {m}
    BY <1>h DEF Take, Readable
  <2>2. \A g \in Connections : ~Active(g)
    BY <2>1, <1>e DEF OneAtATime
  <2>3. ctl[k].phase = "sent" /\ m = [op |-> ctl[k].op, change |-> ctl[k].change,
                                      approval |-> ctl[k].approval]
    BY <2>1, <1>e DEF OneAtATime
  <2>4. \A n \in unread : n = m
    BY <2>3, <1>e DEF OneAtATime
  <2>5. unread' = {}
    BY <2>1, <2>4
  <2> QED
    BY <2>1, <2>2, <2>3, <2>5
<1>7. ASSUME NEW h \in Connections, NEW m \in sent, Consume(h, m)
      PROVE  OneAtATime(k)' /\ StatusHolds(k)'
  <2>1. Take(h, m) /\ UNCHANGED <<ctl, last, status>>
        /\ task' = [task EXCEPT ![h] = [phase |-> "consumed", op |-> m.op,
                                        change |-> m.change, approval |-> m.approval]]
    BY <1>7 DEF Consume
  <2>2. /\ unread' = {} /\ ctl[k].phase = "sent" /\ ctl[k].approval = h
        /\ m.op = ctl[k].op /\ m.change = ctl[k].change
        /\ \A g \in Connections : ~Active(g)
    BY <2>1, <1>h
  <2>3. /\ \A g \in Connections : g # h => task'[g] = task[g]
        /\ task'[h].phase = "consumed" /\ task'[h].op = m.op /\ task'[h].change = m.change
    BY <1>f, <2>1
  <2>4. OneAtATime(k)'
    BY <2>1, <2>2, <2>3 DEF OneAtATime, Active, WorksFor
  <2>5. StatusHolds(k)'
    BY <2>1, <1>e DEF StatusHolds, Tells
  <2> QED
    BY <2>4, <2>5
(* An answer ends the wait.                                                *)
<1>i. ASSUME NEW h \in Connections, NEW o \in Outcomes, Answer(h, o), ctl[k].phase = "sent",
             ctl[k].approval = h, Tells(o, ctl[k].change), UNCHANGED <<last, status>>,
             unread' = {}, \A g \in Connections : task'[g].phase = "idle"
      PROVE  OneAtATime(k)' /\ StatusHolds(k)'
  <2>1. ctl'[k] = [ctl[k] EXCEPT !.phase = "answered", !.outcome = o]
    BY <1>i DEF Answer
  <2>2. ctl'[k].phase = "answered" /\ ctl'[k].outcome = o /\ ctl'[k].change = ctl[k].change
    BY <1>f, <2>1 DEF Invocation
  <2>3. OneAtATime(k)'
    BY <1>i DEF OneAtATime, Active
  <2>4. StatusHolds(k)'
    BY <1>i, <2>2, <1>e DEF StatusHolds, Tells
  <2> QED
    BY <2>3, <2>4
<1>8. ASSUME NEW h \in Connections, NEW m \in sent, Reject(h, m)
      PROVE  OneAtATime(k)' /\ StatusHolds(k)'
  <2>1. Take(h, m) /\ Answer(h, "Error") /\ UNCHANGED <<task, last, status>>
    BY <1>8 DEF Reject
  <2>2. /\ unread' = {} /\ ctl[k].phase = "sent" /\ ctl[k].approval = h
        /\ \A g \in Connections : ~Active(g)
    BY <2>1, <1>h
  <2>3. "Error" \in Outcomes /\ Tells("Error", ctl[k].change)
    BY DEF Outcomes, Tells
  <2> QED
    BY <2>1, <2>2, <2>3, <1>i DEF Active
<1>j. ASSUME NEW h \in Connections, task[h].phase # "idle"
      PROVE  WorksFor(k, h) /\ unread = {} /\ \A g \in Connections : Active(g) => g = h
  BY <1>j, <1>e DEF OneAtATime, WorksFor, Active
<1>9. ASSUME NEW h \in Connections, NEW o \in Outcomes, task[h].phase # "idle", Finish(h, o),
             Tells(o, task[h].change), UNCHANGED <<last, status, unread>>
      PROVE  OneAtATime(k)' /\ StatusHolds(k)'
  <2>1. WorksFor(k, h) /\ unread = {} /\ \A g \in Connections : Active(g) => g = h
    BY <1>9, <1>j
  <2>2. Answer(h, o) /\ task' = [task EXCEPT ![h] = NoTask]
    BY <1>9 DEF Finish
  <2>3. \A g \in Connections : task'[g].phase = "idle"
    BY <1>f, <1>g, <2>1, <2>2 DEF Active
  <2> QED
    BY <1>9, <1>i, <2>1, <2>2, <2>3 DEF WorksFor
<1>10. ASSUME NEW h \in Connections, \/ Refuse(h) \/ RefuseRuntimeRollback(h)
                                     \/ RefuseBackup(h) \/ Verify(h)
       PROVE  OneAtATime(k)' /\ StatusHolds(k)'
  <2>1. task[h].phase # "idle" /\ UNCHANGED <<last, status, unread>>
    BY <1>10 DEF Refuse, RefuseRuntimeRollback, RefuseBackup, Verify
  <2>2. Tells("Conflict", task[h].change) /\ Tells("Error", task[h].change)
    BY DEF Tells
  <2>3. CASE Finish(h, "Conflict") \/ Finish(h, "Error")
    BY <1>9, <2>1, <2>2, <2>3 DEF Outcomes
  <2>4. CASE Verify(h) /\ ~Finish(h, "Error")
    <3>1. /\ task[h].phase = "written"
          /\ Finish(h, IF task[h].op = "apply" THEN "Applied" ELSE "RolledBack")
      BY <2>4 DEF Verify
    <3>2. last[task[h].change] = task[h].op /\ task[h].op \in Operations
      BY <2>1, <3>1, <1>f, <1>j DEF WorksFor, Task
    <3>3. Tells(IF task[h].op = "apply" THEN "Applied" ELSE "RolledBack", task[h].change)
      BY <3>2 DEF Tells, Operations
    <3>4. (IF task[h].op = "apply" THEN "Applied" ELSE "RolledBack") \in Outcomes
      BY DEF Outcomes
    <3> QED
      BY <2>1, <3>1, <3>3, <3>4, <1>9
  <2> QED
    BY <1>10, <2>3, <2>4 DEF Refuse, RefuseRuntimeRollback, RefuseBackup
<1>11. ASSUME NEW h \in Connections, NEW p \in {"checked", "kept"}, task[h].phase # "idle",
              task' = [task EXCEPT ![h].phase = p], UNCHANGED <<ctl, last, status, unread>>
       PROVE  OneAtATime(k)' /\ StatusHolds(k)'
  <2>1. WorksFor(k, h) /\ unread = {} /\ \A g \in Connections : Active(g) => g = h
    BY <1>11, <1>j
  <2>2. /\ \A g \in Connections : g # h => task'[g] = task[g]
        /\ task'[h].phase = p /\ task'[h].op = task[h].op /\ task'[h].change = task[h].change
    BY <1>f, <1>11 DEF Task
  <2>3. OneAtATime(k)'
    BY <1>11, <2>1, <2>2 DEF OneAtATime, WorksFor, Active
  <2>4. StatusHolds(k)'
    BY <1>11, <1>e DEF StatusHolds, Tells
  <2> QED
    BY <2>3, <2>4
<1>12. ASSUME NEW h \in Connections, Write(h)
       PROVE  OneAtATime(k)' /\ StatusHolds(k)'
  <2> DEFINE c == task[h].change
  <2>1. /\ task[h].phase # "idle" /\ task' = [task EXCEPT ![h].phase = "written"]
        /\ last' = [last EXCEPT ![c] = task[h].op] /\ UNCHANGED <<ctl, status, unread>>
    BY <1>12 DEF Write
  <2>2. WorksFor(k, h) /\ unread = {} /\ \A g \in Connections : Active(g) => g = h
    BY <2>1, <1>j
  <2>3. /\ \A g \in Connections : g # h => task'[g] = task[g]
        /\ task'[h].phase = "written" /\ task'[h].op = task[h].op /\ task'[h].change = c
    BY <1>f, <2>1 DEF Task
  <2>4. c \in Changes /\ \A b \in Changes : last'[b] = IF b = c THEN task[h].op ELSE last[b]
    BY <1>f, <2>1 DEF Known
  <2>5. OneAtATime(k)'
    BY <2>1, <2>2, <2>3, <2>4 DEF OneAtATime, WorksFor, Active
  <2>6. status[c] = "Approved" /\ ctl[k].phase = "sent" /\ c = ctl[k].change
    BY <2>2, <1>e DEF StatusHolds, WorksFor
  <2>7. StatusHolds(k)'
    BY <2>1, <2>4, <2>6, <1>e DEF StatusHolds, Tells
  <2> QED
    BY <2>5, <2>7
<1>13. ASSUME Next PROVE OneAtATime(k)' /\ StatusHolds(k)'
  <2>1. CASE \/ \E d \in Docs, v \in Held : Edit(d, v)
             \/ \E a \in Approvals : Expire(a)
    BY <1>1, <2>1 DEF Edit, Expire
  <2>2. CASE \E c \in Changes, d \in Docs, v \in Contents : Propose(c, d, v)
    BY <1>2, <2>2
  <2>3. CASE \/ \E op \in Operations, c \in Changes, a \in Approvals : Begin(k, op, c, a)
             \/ ControllerStep(k)
    BY <1>3, <1>4, <1>5, <1>6, <2>3 DEF ControllerStep
  <2>4. CASE \E h \in Connections, m \in sent : Serve(h, m)
    BY <1>7, <1>8, <2>4 DEF Serve
  <2>5. ASSUME NEW h \in Connections, TaskStep(h)
        PROVE  OneAtATime(k)' /\ StatusHolds(k)'
    <3>1. CASE Check(h) \/ Keep(h) \/ ReadBackup(h)
      <4>1. task[h].phase # "idle" /\ UNCHANGED <<ctl, last, status, unread>>
        BY <3>1 DEF Check, Keep, ReadBackup
      <4>2. \E p \in {"checked", "kept"} : task' = [task EXCEPT ![h].phase = p]
        BY <3>1 DEF Check, Keep, ReadBackup
      <4> QED
        BY <1>11, <4>1, <4>2
    <3> QED
      BY <1>10, <1>12, <2>5, <3>1 DEF TaskStep
  <2>6. ~AgentCrash /\ \A h \in Connections : ~ProviderFails(h) /\ \A m \in sent : ~ConsumeFails(h, m)
    BY <1>b DEF AgentCrash, ProviderFails, ConsumeFails
  <2>7. ~LoseConnection(k) /\ ~ControllerStops(k)
    BY <1>b DEF LoseConnection, ControllerStops
  <2> QED
    BY <1>13, <2>1, <2>2, <2>3, <2>4, <2>5, <2>6, <2>7 DEF Next
<1>14. CASE UNCHANGED vars
  BY <1>1, <1>14 DEF vars
<1> QED
  BY <1>13, <1>14

(* With one process at a time, no request repeated and nothing failed, a   *)
(* status of Applied or RolledBack names the operation that wrote last.    *)
THEOREM StatusIsTold ==
  ASSUME NEW k, Controllers = {k}, Retries = {}
  PROVE  Spec => []StatusTells
<1>1. Init => StatusInv(k)
  BY StatusInit
<1>2. StatusInv(k) /\ [Next]_vars => StatusInv(k)'
  BY StatusStep
<1>3. StatusInv(k) => StatusTells
  BY DEF StatusInv, StatusHolds, Tells, StatusTells
<1> QED
  BY <1>1, <1>2, <1>3, PTL DEF Spec
-----------------------------------------------------------------------------
(* ChangeControl implements ReviewedDocuments.  A request that was sent is *)
(* the grant: each approval has one, tasks and receipts are of requests    *)
(* that were sent, and a receipt of success says what was asked for.       *)
GrantOf(w) == [op |-> w.op, change |-> w.change, approval |-> w.approval]

OneRequestEach ==
  /\ \A m, n \in sent : m.approval = n.approval => m = n
  /\ \A m \in sent : m.approval \in issued
  /\ \A a \in written : \E m \in sent : m.approval = a

(* An approval is in the hands of one process, which sends it once.        *)
ProcessGrants ==
  /\ \A k \in Controllers : ctl[k].phase # "idle" =>
       /\ ctl[k].approval \in issued
       /\ ctl[k].phase = "issued" => \A m \in sent : m.approval # ctl[k].approval
       /\ ctl[k].phase = "sent" \/ ctl[k].outcome # "Error" => GrantOf(ctl[k]) \in sent
       /\ ctl[k].outcome \in {"Error", "Conflict", Documents!Done(ctl[k])}
  /\ \A j, k \in Controllers :
       ctl[j].phase # "idle" /\ ctl[k].phase # "idle" /\ ctl[j].approval = ctl[k].approval
         => j = k

TaskGrants ==
  \A h \in Connections : Active(h) =>
    /\ GrantOf(task[h]) \in sent
    /\ task[h].phase # "consumed" /\ Doc(task[h]) \in RuntimeDocs => task[h].op = "apply"

GrantsOK == OneRequestEach /\ ProcessGrants /\ TaskGrants

(* A process keeps what it asked for until it is idle again, and gets      *)
(* another outcome only while it waits.                                    *)
Follows(i, j) ==
  \/ j.phase = "idle"
  \/ /\ i.phase # "idle"
     /\ j.op = i.op /\ j.change = i.change /\ j.approval = i.approval
     /\ j.phase = "issued" => i.phase = "issued"
     /\ j.phase = "sent" => i.phase = "sent"
     /\ \/ j.outcome \in {i.outcome, "Error"}
        \/ i.phase = "sent" /\ j.outcome \in {"Conflict", Documents!Done(i)}

LEMMA ProcessesFollow ==
  ASSUME ProcessGrants, sent' = sent, issued' = issued,
         \A k \in Controllers : Follows(ctl[k], ctl'[k])
  PROVE  ProcessGrants'
<1>1. ASSUME NEW k \in Controllers, ctl'[k].phase # "idle"
      PROVE  /\ ctl[k].phase # "idle"
             /\ ctl'[k].approval = ctl[k].approval
             /\ ctl'[k].approval \in issued
             /\ ctl'[k].phase = "issued" => \A m \in sent : m.approval # ctl'[k].approval
             /\ ctl'[k].phase = "sent" \/ ctl'[k].outcome # "Error" => GrantOf(ctl'[k]) \in sent
             /\ ctl'[k].outcome \in {"Error", "Conflict", Documents!Done(ctl'[k])}
  <2>1. /\ ctl[k].phase # "idle"
        /\ ctl'[k].op = ctl[k].op /\ ctl'[k].change = ctl[k].change
        /\ ctl'[k].approval = ctl[k].approval
        /\ ctl'[k].phase = "issued" => ctl[k].phase = "issued"
        /\ ctl'[k].phase = "sent" => ctl[k].phase = "sent"
        /\ \/ ctl'[k].outcome \in {ctl[k].outcome, "Error"}
           \/ ctl[k].phase = "sent" /\ ctl'[k].outcome \in {"Conflict", Documents!Done(ctl[k])}
    BY <1>1 DEF Follows
  <2>2. GrantOf(ctl'[k]) = GrantOf(ctl[k]) /\ Documents!Done(ctl'[k]) = Documents!Done(ctl[k])
    BY <2>1 DEF GrantOf, Documents!Done
  <2> QED
    BY <2>1, <2>2 DEF ProcessGrants
<1> QED
  BY <1>1 DEF ProcessGrants

(* So does a task; one that is past the comparison may write.              *)
TaskFollows(i, j) ==
  \/ j.phase = "idle"
  \/ /\ i.phase # "idle"
     /\ j.op = i.op /\ j.change = i.change /\ j.approval = i.approval
     /\ i.phase = "consumed" /\ j.phase # "consumed" =>
          (Doc(i) \in RuntimeDocs => i.op = "apply")

LEMMA TasksFollow ==
  ASSUME TypeOK, TaskGrants, sent \subseteq sent',
         \A c \in Changes : change[c] # NoChange => change'[c] = change[c],
         \A h \in Connections : TaskFollows(task[h], task'[h])
  PROVE  TaskGrants'
<1>1. ASSUME NEW h \in Connections, task'[h].phase # "idle"
      PROVE  /\ GrantOf(task'[h]) \in sent'
             /\ task'[h].phase # "consumed" /\ change'[task'[h].change].doc \in RuntimeDocs
                  => task'[h].op = "apply"
  <2>1. /\ task[h].phase # "idle"
        /\ task'[h].op = task[h].op /\ task'[h].change = task[h].change
        /\ task'[h].approval = task[h].approval
        /\ task[h].phase = "consumed" /\ task'[h].phase # "consumed" =>
             (Doc(task[h]) \in RuntimeDocs => task[h].op = "apply")
    BY <1>1 DEF TaskFollows
  <2>2. GrantOf(task'[h]) = GrantOf(task[h])
    BY <2>1 DEF GrantOf
  <2>3. change'[task'[h].change].doc = Doc(task[h])
    BY <2>1 DEF TypeOK, TaskOK, Known, Doc
  <2> QED
    BY <2>1, <2>2, <2>3 DEF TaskGrants, Active
<1> QED
  BY <1>1 DEF TaskGrants, Active, Doc

(* Answers: those that are not of success, or say what was asked for.      *)
LEMMA AnswerFollows ==
  ASSUME TypeOK, NEW h, NEW o, Answer(h, o),
         o \notin {"Error", "Conflict"} =>
           \A k \in Controllers :
             ctl[k].phase = "sent" /\ ctl[k].approval = h => o = Documents!Done(ctl[k])
  PROVE  \A k \in Controllers : Follows(ctl[k], ctl'[k])
<1> SUFFICES ASSUME NEW k \in Controllers PROVE Follows(ctl[k], ctl'[k])
  OBVIOUS
<1>1. CASE ~(ctl[k].phase = "sent" /\ ctl[k].approval = h)
  <2>1. ctl'[k] = ctl[k]
    BY <1>1 DEF Answer
  <2> QED
    BY <2>1 DEF Follows
<1>2. CASE ctl[k].phase = "sent" /\ ctl[k].approval = h
  <2>1. ctl'[k] = [ctl[k] EXCEPT !.phase = "answered", !.outcome = o] /\ ctl[k] \in Invocation
    BY <1>2 DEF Answer, TypeOK, CtlOK
  <2>2. /\ ctl'[k].phase = "answered" /\ ctl'[k].outcome = o
        /\ ctl'[k].op = ctl[k].op /\ ctl'[k].change = ctl[k].change
        /\ ctl'[k].approval = ctl[k].approval
    BY <2>1 DEF Invocation
  <2> QED
    BY <1>2, <2>2 DEF Follows
<1> QED
  BY <1>1, <1>2

LEMMA SameTasksFollow ==
  ASSUME task' = task
  PROVE  \A h \in Connections : TaskFollows(task[h], task'[h])
BY DEF TaskFollows

LEMMA SameProcessesFollow ==
  ASSUME ctl' = ctl
  PROVE  \A k \in Controllers : Follows(ctl[k], ctl'[k])
BY DEF Follows

LEMMA GrantsInit == Init => GrantsOK
BY DEF Init, GrantsOK, OneRequestEach, ProcessGrants, TaskGrants, Active, NoCtl, NoTask

(* Steps after which the requests are the same, and processes and tasks    *)
(* follow.                                                                 *)
LEMMA GrantsFollow ==
  ASSUME TypeOK, GrantsOK, sent' = sent, issued' = issued, written' = written,
         \A c \in Changes : change[c] # NoChange => change'[c] = change[c],
         \A k \in Controllers : Follows(ctl[k], ctl'[k]),
         \A h \in Connections : TaskFollows(task[h], task'[h])
  PROVE  GrantsOK'
<1>1. OneRequestEach'
  BY DEF GrantsOK, OneRequestEach
<1>2. ProcessGrants'
  BY ProcessesFollow DEF GrantsOK
<1>3. TaskGrants'
  BY TasksFollow DEF GrantsOK
<1> QED
  BY <1>1, <1>2, <1>3 DEF GrantsOK

(* A task that moves on or is done follows what it was.                    *)
LEMMA MovedTasksFollow ==
  ASSUME TypeOK, NEW h \in Connections, Active(h),
         NEW p \in {"checked", "kept", "written"}, task' = [task EXCEPT ![h].phase = p],
         task[h].phase = "consumed" => (Doc(task[h]) \in RuntimeDocs => task[h].op = "apply")
  PROVE  \A g \in Connections : TaskFollows(task[g], task'[g])
<1> SUFFICES ASSUME NEW g \in Connections PROVE TaskFollows(task[g], task'[g])
  OBVIOUS
<1>1. task[g] \in Task /\ task'[g] = IF g = h THEN [task[g] EXCEPT !.phase = p] ELSE task[g]
  BY DEF TypeOK, TaskOK
<1>2. CASE g = h
  <2>1. /\ task'[g].op = task[g].op /\ task'[g].change = task[g].change
        /\ task'[g].approval = task[g].approval
    BY <1>1, <1>2 DEF Task
  <2> QED
    BY <1>2, <2>1 DEF TaskFollows, Active
<1>3. CASE g # h
  BY <1>1, <1>3 DEF TaskFollows
<1> QED
  BY <1>2, <1>3

LEMMA EndedTasksFollow ==
  ASSUME TypeOK, NEW h \in Connections, task' = [task EXCEPT ![h] = NoTask]
  PROVE  \A g \in Connections : TaskFollows(task[g], task'[g])
<1> SUFFICES ASSUME NEW g \in Connections PROVE TaskFollows(task[g], task'[g])
  OBVIOUS
<1>1. task'[g] = IF g = h THEN NoTask ELSE task[g]
  BY DEF TypeOK, TaskOK
<1> QED
  BY <1>1 DEF TaskFollows, NoTask

(* A task that finishes with an outcome other than a failure says what the *)
(* process at the other end asked for: there is one request of that        *)
(* approval.                                                               *)
LEMMA FinishFollows ==
  ASSUME TypeOK, GrantsOK, TasksOK, NEW h \in Connections, Active(h), NEW o, Finish(h, o),
         o \in {"Error", "Conflict", Documents!Done(task[h])}
  PROVE  /\ \A k \in Controllers : Follows(ctl[k], ctl'[k])
         /\ \A g \in Connections : TaskFollows(task[g], task'[g])
<1>1. ASSUME o \notin {"Error", "Conflict"}, NEW k \in Controllers, ctl[k].phase = "sent",
             ctl[k].approval = h
      PROVE  o = Documents!Done(ctl[k])
  <2>1. GrantOf(ctl[k]) \in sent /\ GrantOf(task[h]) \in sent
    BY <1>1 DEF GrantsOK, ProcessGrants, TaskGrants
  <2>2. ctl[k] \in Invocation /\ Known(ctl[k])
    BY <1>1 DEF TypeOK, CtlOK
  <2>3. task[h].approval = ctl[k].approval
    BY <1>1, <2>2 DEF TasksOK, Known
  <2>4. GrantOf(ctl[k]).approval = GrantOf(task[h]).approval
    BY <2>3 DEF GrantOf
  <2>5. GrantOf(ctl[k]) = GrantOf(task[h])
    BY <2>1, <2>4 DEF GrantsOK, OneRequestEach
  <2>6. ctl[k].op = task[h].op
    BY <2>5 DEF GrantOf
  <2> QED
    BY <1>1, <2>6 DEF Documents!Done
<1>2. Answer(h, o) /\ task' = [task EXCEPT ![h] = NoTask]
  BY DEF Finish
<1>3. \A k \in Controllers : Follows(ctl[k], ctl'[k])
  BY <1>1, <1>2, AnswerFollows
<1> QED
  BY <1>2, <1>3, EndedTasksFollow

(* Beginning, sending and recording, which do more than follow.            *)
LEMMA BeginGrants ==
  ASSUME TypeOK, GrantsOK, NEW k \in Controllers, NEW op \in Operations, NEW c \in Changes,
         NEW a \in Approvals, Begin(k, op, c, a)
  PROVE  GrantsOK'
<1> DEFINE new == [phase |-> "issued", op |-> op, change |-> c,
                   approval |-> a, outcome |-> "Error"]
<1>1. /\ ctl' = [ctl EXCEPT ![k] = new] /\ issued' = issued \cup {a} /\ a \notin issued
      /\ UNCHANGED <<sent, task, change, written>>
  BY DEF Begin, requests, history
<1>2. OneRequestEach'
  BY <1>1 DEF GrantsOK, OneRequestEach
<1>3. TaskGrants'
  BY <1>1 DEF GrantsOK, TaskGrants, Active, Doc
<1>4. \A j \in Controllers : ctl'[j] = IF j = k THEN new ELSE ctl[j]
  BY <1>1 DEF TypeOK, CtlOK
<1>5. /\ new.phase = "issued" /\ new.approval = a /\ new.outcome = "Error"
      /\ \A m \in sent : m.approval # a
  BY <1>1 DEF GrantsOK, OneRequestEach
<1> HIDE DEF new
<1>6. \A j \in Controllers : j # k /\ ctl[j].phase # "idle" => ctl[j].approval # a
  BY <1>1 DEF GrantsOK, ProcessGrants
<1>7. ProcessGrants'
  <2>1. ASSUME NEW j \in Controllers, ctl'[j].phase # "idle"
        PROVE  /\ ctl'[j].approval \in issued'
               /\ ctl'[j].phase = "issued" => \A m \in sent' : m.approval # ctl'[j].approval
               /\ ctl'[j].phase = "sent" \/ ctl'[j].outcome # "Error" => GrantOf(ctl'[j]) \in sent'
               /\ ctl'[j].outcome \in {"Error", "Conflict", Documents!Done(ctl'[j])}
    <3>1. CASE j = k
      BY <1>1, <1>4, <1>5, <3>1
    <3>2. CASE j # k
      BY <1>1, <1>4, <2>1, <3>2 DEF GrantsOK, ProcessGrants
    <3> QED
      BY <3>1, <3>2
  <2>2. ASSUME NEW i \in Controllers, NEW j \in Controllers, ctl'[i].phase # "idle",
               ctl'[j].phase # "idle", ctl'[i].approval = ctl'[j].approval
        PROVE  i = j
    BY <1>4, <1>5, <1>6, <2>2 DEF GrantsOK, ProcessGrants
  <2> QED
    BY <2>1, <2>2 DEF ProcessGrants
<1> QED
  BY <1>2, <1>3, <1>7 DEF GrantsOK

LEMMA SendGrants ==
  ASSUME TypeOK, GrantsOK, NEW k \in Controllers, SendRequest(k)
  PROVE  GrantsOK'
<1> DEFINE m == GrantOf(ctl[k])
<1>1. /\ ctl[k].phase = "issued" /\ ctl' = [ctl EXCEPT ![k].phase = "sent"]
      /\ sent' = sent \cup {m} /\ UNCHANGED <<issued, task, change, written>>
  BY DEF SendRequest, GrantOf, catalog, approving, history
<1>2. ctl[k] \in Invocation
  BY DEF TypeOK, CtlOK
<1>3. /\ \A j \in Controllers : j # k => ctl'[j] = ctl[j]
      /\ ctl'[k].phase = "sent" /\ ctl'[k].op = ctl[k].op /\ ctl'[k].change = ctl[k].change
      /\ ctl'[k].approval = ctl[k].approval /\ ctl'[k].outcome = ctl[k].outcome
  BY <1>1, <1>2 DEF TypeOK, CtlOK, Invocation
<1>4. GrantOf(ctl'[k]) = m /\ Documents!Done(ctl'[k]) = Documents!Done(ctl[k])
  BY <1>3 DEF GrantOf, Documents!Done
<1>5. /\ m.approval = ctl[k].approval /\ m.approval \in issued
      /\ \A n \in sent : n.approval # m.approval
  BY <1>1 DEF GrantsOK, ProcessGrants, GrantOf
<1> HIDE DEF m
<1>6. OneRequestEach'
  BY <1>1, <1>5 DEF GrantsOK, OneRequestEach
<1>7. TaskGrants'
  BY <1>1 DEF GrantsOK, TaskGrants, Active, Doc
<1>8. ProcessGrants'
  <2>1. ASSUME NEW j \in Controllers, ctl'[j].phase # "idle"
        PROVE  /\ ctl'[j].approval \in issued'
               /\ ctl'[j].phase = "issued" => \A n \in sent' : n.approval # ctl'[j].approval
               /\ ctl'[j].phase = "sent" \/ ctl'[j].outcome # "Error" => GrantOf(ctl'[j]) \in sent'
               /\ ctl'[j].outcome \in {"Error", "Conflict", Documents!Done(ctl'[j])}
    <3>1. CASE j = k
      BY <1>1, <1>3, <1>4, <1>5, <3>1 DEF GrantsOK, ProcessGrants
    <3>2. CASE j # k
      <4>1. ctl'[j] = ctl[j] /\ ctl[j].phase # "idle"
        BY <1>3, <2>1, <3>2
      <4>2. ctl[j].approval # m.approval
        BY <1>1, <1>5, <3>2, <4>1 DEF GrantsOK, ProcessGrants
      <4>3. GrantOf(ctl'[j]) = GrantOf(ctl[j])
            /\ Documents!Done(ctl'[j]) = Documents!Done(ctl[j])
        BY <4>1
      <4>4. /\ ctl[j].approval \in issued
            /\ ctl[j].phase = "issued" => \A n \in sent : n.approval # ctl[j].approval
            /\ ctl[j].phase = "sent" \/ ctl[j].outcome # "Error" => GrantOf(ctl[j]) \in sent
            /\ ctl[j].outcome \in {"Error", "Conflict", Documents!Done(ctl[j])}
        BY <4>1 DEF GrantsOK, ProcessGrants
      <4>5. ctl'[j].approval \in issued'
        BY <1>1, <4>1, <4>4
      <4>6. ctl'[j].phase = "issued" => \A n \in sent' : n.approval # ctl'[j].approval
        BY <1>1, <4>1, <4>2, <4>4
      <4>7. ctl'[j].phase = "sent" \/ ctl'[j].outcome # "Error" => GrantOf(ctl'[j]) \in sent'
        <5>1. sent \subseteq sent'
          BY <1>1
        <5> QED
          BY <4>1, <4>3, <4>4, <5>1
      <4>8. ctl'[j].outcome \in {"Error", "Conflict", Documents!Done(ctl'[j])}
        BY <4>1, <4>3, <4>4
      <4> QED
        BY <4>5, <4>6, <4>7, <4>8
    <3> QED
      BY <3>1, <3>2
  <2>2. ASSUME NEW i \in Controllers, NEW j \in Controllers, ctl'[i].phase # "idle",
               ctl'[j].phase # "idle", ctl'[i].approval = ctl'[j].approval
        PROVE  i = j
    <3>1. \A l \in Controllers : ctl'[l].approval = ctl[l].approval
                                 /\ (ctl'[l].phase # "idle" => ctl[l].phase # "idle")
      BY <1>1, <1>3
    <3> QED
      BY <2>2, <3>1 DEF GrantsOK, ProcessGrants
  <2> QED
    BY <2>1, <2>2 DEF ProcessGrants
<1> QED
  BY <1>6, <1>7, <1>8 DEF GrantsOK

(* Saving, recording and stopping.                                         *)
LEMMA ProcessStepsFollow ==
  ASSUME TypeOK, NEW k \in Controllers,
         SaveStatus(k) \/ RecordAudit(k) \/ LoseConnection(k) \/ ControllerStops(k)
  PROVE  \A j \in Controllers : Follows(ctl[j], ctl'[j])
<1> SUFFICES ASSUME NEW j \in Controllers PROVE Follows(ctl[j], ctl'[j])
  OBVIOUS
<1>1. ctl[k] \in Invocation /\ ctl \in [Controllers -> Invocation]
  BY DEF TypeOK, CtlOK
<1>2. PICK p \in {"answered", "saved"} :
        /\ ctl[k].phase # "idle"
        /\ ctl' = [ctl EXCEPT ![k] = NoCtl] \/ ctl' = [ctl EXCEPT ![k] = [@ EXCEPT !.phase = p]]
  BY DEF SaveStatus, RecordAudit, LoseConnection, ControllerStops
<1>3. CASE j # k
  <2>1. ctl'[j] = ctl[j]
    BY <1>1, <1>2, <1>3
  <2> QED
    BY <2>1 DEF Follows
<1>4. CASE j = k /\ ctl' = [ctl EXCEPT ![k] = NoCtl]
  <2>1. ctl'[j] = NoCtl
    BY <1>1, <1>4
  <2> QED
    BY <2>1 DEF Follows, NoCtl
<1>5. CASE j = k /\ ctl' = [ctl EXCEPT ![k] = [@ EXCEPT !.phase = p]]
  <2>1. ctl'[j] = [ctl[j] EXCEPT !.phase = p]
    BY <1>1, <1>5
  <2>2. /\ ctl'[j].phase = p /\ ctl'[j].op = ctl[j].op /\ ctl'[j].change = ctl[j].change
        /\ ctl'[j].approval = ctl[j].approval /\ ctl'[j].outcome = ctl[j].outcome
    BY <1>1, <1>5, <2>1 DEF Invocation
  <2> QED
    BY <1>2, <1>5, <2>2 DEF Follows
<1> QED
  BY <1>2, <1>3, <1>4, <1>5

LEMMA ConsumeGrants ==
  ASSUME TypeOK, GrantsOK, NEW h \in Connections, NEW m \in sent, Consume(h, m)
  PROVE  GrantsOK'
<1> DEFINE new == [phase |-> "consumed", op |-> m.op, change |-> m.change, approval |-> m.approval]
<1>1. task' = [task EXCEPT ![h] = new] /\ UNCHANGED <<sent, issued, ctl, change, written>>
  BY DEF Consume, catalog, approving
<1>2. m \in Request
  BY DEF TypeOK
<1>3. GrantOf(new) = m /\ new.phase = "consumed"
  BY <1>2 DEF GrantOf, Request
<1>4. \A g \in Connections : task'[g] = IF g = h THEN new ELSE task[g]
  BY <1>1 DEF TypeOK, TaskOK
<1> HIDE DEF new
<1>5. OneRequestEach' /\ ProcessGrants'
  BY <1>1, SameProcessesFollow, ProcessesFollow DEF GrantsOK, OneRequestEach
<1>6. TaskGrants'
  <2> SUFFICES ASSUME NEW g \in Connections, task'[g].phase # "idle"
               PROVE  /\ GrantOf(task'[g]) \in sent
                      /\ task'[g].phase # "consumed"
                         /\ change[task'[g].change].doc \in RuntimeDocs => task'[g].op = "apply"
    BY <1>1 DEF TaskGrants, Active, Doc
  <2>1. CASE g = h
    BY <1>3, <1>4, <2>1
  <2>2. CASE g # h
    BY <1>4, <2>2 DEF GrantsOK, TaskGrants, Active, Doc
  <2> QED
    BY <2>1, <2>2
<1> QED
  BY <1>5, <1>6 DEF GrantsOK

(* What the last step of a task answers.                                   *)
LEMMA FinishGrants ==
  ASSUME TypeOK, GrantsOK, TasksOK, NEW h \in Connections,
         \/ Refuse(h) \/ RefuseRuntimeRollback(h) \/ RefuseBackup(h) \/ Verify(h)
         \/ ProviderFails(h)
  PROVE  GrantsOK'
<1>1. PICK o \in {"Error", "Conflict", Documents!Done(task[h])} :
        Active(h) /\ Finish(h, o) /\ UNCHANGED <<sent, issued, change, written>>
  BY DEF Refuse, RefuseRuntimeRollback, RefuseBackup, Verify, ProviderFails, Active,
         Documents!Done, catalog, approving, requests, history
<1>2. /\ \A k \in Controllers : Follows(ctl[k], ctl'[k])
      /\ \A g \in Connections : TaskFollows(task[g], task'[g])
  BY <1>1, FinishFollows
<1> QED
  BY <1>1, <1>2, GrantsFollow

LEMMA WriteGrants ==
  ASSUME TypeOK, GrantsOK, NEW h \in Connections, Write(h)
  PROVE  GrantsOK'
<1>1. /\ Active(h) /\ task[h].phase # "consumed" /\ task' = [task EXCEPT ![h].phase = "written"]
      /\ written' = written \cup {task[h].approval} /\ UNCHANGED <<sent, issued, ctl, change>>
  BY DEF Write, Active, catalog, approving, requests
<1>2. GrantOf(task[h]) \in sent /\ GrantOf(task[h]).approval = task[h].approval
  BY <1>1 DEF GrantsOK, TaskGrants, GrantOf
<1>3. OneRequestEach'
  BY <1>1, <1>2 DEF GrantsOK, OneRequestEach
<1>4. ProcessGrants'
  BY <1>1, SameProcessesFollow, ProcessesFollow DEF GrantsOK
<1>5. \A g \in Connections : TaskFollows(task[g], task'[g])
  BY <1>1, MovedTasksFollow
<1>6. TaskGrants'
  BY <1>1, <1>5, TasksFollow DEF GrantsOK
<1> QED
  BY <1>3, <1>4, <1>6 DEF GrantsOK

LEMMA CrashGrants ==
  ASSUME TypeOK, GrantsOK, AgentCrash
  PROVE  GrantsOK'
<1>1. UNCHANGED <<sent, issued, change, written>>
  BY DEF AgentCrash, catalog, approving, history
<1>2. \A g \in Connections : TaskFollows(task[g], task'[g])
  BY DEF AgentCrash, TaskFollows, NoTask
<1>3. ASSUME NEW k \in Controllers PROVE Follows(ctl[k], ctl'[k])
  <2>1. CASE ctl[k].phase = "sent"
    <3>1. ctl'[k] = [ctl[k] EXCEPT !.phase = "answered"] /\ ctl[k] \in Invocation
      BY <2>1 DEF AgentCrash, TypeOK, CtlOK
    <3>2. /\ ctl'[k].phase = "answered" /\ ctl'[k].op = ctl[k].op
          /\ ctl'[k].change = ctl[k].change /\ ctl'[k].approval = ctl[k].approval
          /\ ctl'[k].outcome = ctl[k].outcome
      BY <3>1 DEF Invocation
    <3> QED
      BY <2>1, <3>2 DEF Follows
  <2>2. CASE ctl[k].phase # "sent"
    <3>1. ctl'[k] = ctl[k]
      BY <2>2 DEF AgentCrash
    <3> QED
      BY <3>1 DEF Follows
  <2> QED
    BY <2>1, <2>2
<1> QED
  BY <1>1, <1>2, <1>3, GrantsFollow

LEMMA GrantsStep ==
  ASSUME IInv, GrantsOK, [Next]_vars
  PROVE  GrantsOK'
<1> USE DEF catalog, approving, requests, history
<1>a. TypeOK /\ TasksOK
  BY DEF IInv
<1>1. CASE \/ \E d \in Docs, v \in Held : Edit(d, v)
           \/ \E a \in Approvals : Expire(a)
           \/ UNCHANGED vars
  <2>1. UNCHANGED <<sent, issued, change, written, ctl, task>>
    BY <1>1 DEF Edit, Expire, vars
  <2> QED
    BY <1>a, <2>1, SameProcessesFollow, SameTasksFollow, GrantsFollow
<1>2. ASSUME NEW c \in Changes, NEW d \in Docs, NEW v \in Contents, Propose(c, d, v)
      PROVE  GrantsOK'
  <2>1. SaveChangeSet(c, Draft(d, v))
    BY <1>2, ProposeSaves
  <2>2. /\ UNCHANGED <<sent, issued, written, ctl, task>> /\ change[c] = NoChange
        /\ change' = [change EXCEPT ![c] = Draft(d, v)]
    BY <2>1 DEF SaveChangeSet
  <2>3. \A b \in Changes : change[b] # NoChange => change'[b] = change[b]
    BY <1>a, <2>2 DEF TypeOK
  <2> QED
    BY <1>a, <2>2, <2>3, SameProcessesFollow, SameTasksFollow, GrantsFollow
<1>3. ASSUME NEW k \in Controllers,
             SaveStatus(k) \/ RecordAudit(k) \/ LoseConnection(k) \/ ControllerStops(k)
      PROVE  GrantsOK'
  <2>1. UNCHANGED <<sent, issued, change, written, task>>
    BY <1>3 DEF SaveStatus, RecordAudit, LoseConnection, ControllerStops
  <2> QED
    BY <1>a, <1>3, <2>1, ProcessStepsFollow, SameTasksFollow, GrantsFollow
<1>4. ASSUME NEW h \in Connections, NEW m \in sent, Reject(h, m) \/ ConsumeFails(h, m)
      PROVE  GrantsOK'
  <2>1. Answer(h, "Error") /\ UNCHANGED <<sent, issued, change, written, task>>
    BY <1>4 DEF Reject, ConsumeFails
  <2>2. \A k \in Controllers : Follows(ctl[k], ctl'[k])
    BY <1>a, <2>1, AnswerFollows
  <2> QED
    BY <1>a, <2>1, <2>2, SameTasksFollow, GrantsFollow
<1>5. ASSUME NEW h \in Connections, Check(h) \/ Keep(h) \/ ReadBackup(h)
      PROVE  GrantsOK'
  <2>1. /\ Active(h) /\ UNCHANGED <<sent, issued, change, written, ctl>>
        /\ task[h].phase = "consumed" => (Doc(task[h]) \in RuntimeDocs => task[h].op = "apply")
    BY <1>5 DEF Check, Keep, ReadBackup, Active
  <2>2. PICK p \in {"checked", "kept", "written"} : task' = [task EXCEPT ![h].phase = p]
    BY <1>5 DEF Check, Keep, ReadBackup
  <2>3. \A g \in Connections : TaskFollows(task[g], task'[g])
    BY <1>a, <2>1, <2>2, MovedTasksFollow
  <2> QED
    BY <1>a, <2>1, <2>3, SameProcessesFollow, GrantsFollow
<1> QED
  BY <1>a, <1>1, <1>2, <1>3, <1>4, <1>5, BeginGrants, SendGrants, ConsumeGrants, FinishGrants,
     WriteGrants, CrashGrants DEF Next, ControllerStep, Serve, TaskStep

(* The change sets that a change of d exposes have requests that are       *)
(* neither carried out nor accounted for.                                  *)
ChangesOn(d, grants) == {g.change : g \in {g \in grants : Documents!Doc(g) = d}}

LEMMA ExposedGrants ==
  ASSUME IInv, GrantsOK, NEW d, NEW H \in SUBSET Connections, NEW U,
         \A g \in H : Active(g) => GrantOf(task[g]) \notin U
  PROVE  Exposed(d, H) \in SUBSET ChangesOn(d, Documents!Outstanding \ U)
<1> SUFFICES ASSUME NEW h \in H, task[h].phase \in {"checked", "kept"}, Doc(task[h]) = d
             PROVE  \E g \in Documents!Outstanding \ U :
                      Documents!Doc(g) = d /\ task[h].change = g.change
  BY DEF Exposed, ChangesOn
<1> DEFINE g == GrantOf(task[h])
<1>1. /\ g.change = task[h].change /\ g.approval = task[h].approval
      /\ Documents!Doc(g) = Doc(task[h])
  BY DEF GrantOf, Documents!Doc, Doc
<1>2. g \in sent /\ g \notin U
  BY DEF GrantsOK, TaskGrants, Active
<1> HIDE DEF g
<1>3. g.approval \notin written
  BY <1>1 DEF IInv, TasksOK, Active
<1>4. \A r \in audits : r.approval # g.approval
  BY <1>1, <1>3 DEF IInv, ReceiptsOK, Truthful, Unwritten, Active
<1>5. g \in Documents!Outstanding
  BY <1>2, <1>3, <1>4 DEF Documents!Outstanding
<1> QED
  BY <1>1, <1>2, <1>5

(* Each step of the processes and the tasks is one of the documents or     *)
(* none.                                                                   *)
LEMMA EditDocuments ==
  ASSUME IInv, GrantsOK, NEW d \in Docs, NEW v \in Held, Edit(d, v)
  PROVE  Documents!Edit(d, v)
<1>1. /\ disk' = [disk EXCEPT ![d] = v] /\ raced' = raced \cup Exposed(d, Connections)
      /\ UNCHANGED <<change, sent, written, audits>>
  BY DEF Edit, catalog, requests
<1>2. Exposed(d, Connections) \in SUBSET ChangesOn(d, Documents!Outstanding \ {})
  BY ExposedGrants
<1>3. Documents!Outstanding \ {} = Documents!Outstanding
  OBVIOUS
<1>4. Documents!Expose(d, Documents!Outstanding)
  BY <1>1, <1>2, <1>3 DEF Documents!Expose, ChangesOn
<1> QED
  BY <1>1, <1>4 DEF Documents!Edit

LEMMA ProposeDocuments ==
  ASSUME NEW c \in Changes, NEW d \in Docs, NEW v \in Contents, Propose(c, d, v)
  PROVE  Documents!Propose(c, d, v)
<1>1. SaveChangeSet(c, Draft(d, v))
  BY ProposeSaves
<1> QED
  BY <1>1 DEF SaveChangeSet, Draft, Documents!Propose, documents, requests, history

LEMMA SendDocuments ==
  ASSUME IInv, GrantsOK, NEW k \in Controllers, SendRequest(k)
  PROVE  Documents!Grant(ctl[k].op, ctl[k].change, ctl[k].approval)
<1> DEFINE m == GrantOf(ctl[k])
<1>1. /\ sent' = sent \cup {m} /\ ctl[k].phase = "issued"
      /\ UNCHANGED <<disk, change, written, audits, raced>>
  BY DEF SendRequest, GrantOf, documents, catalog, history
<1>2. change[ctl[k].change] # NoChange
  BY <1>1 DEF IInv, TypeOK, CtlOK, Known
<1>3. \A n \in sent : n.approval # ctl[k].approval
  BY <1>1 DEF GrantsOK, ProcessGrants
<1>4. m.approval \notin written
  BY <1>3 DEF GrantsOK, OneRequestEach, GrantOf
<1>5. m = [op |-> ctl[k].op, change |-> ctl[k].change, approval |-> ctl[k].approval]
  BY DEF GrantOf
<1> HIDE DEF m
<1>6. {n \in sent' : n.approval \in written'} = {n \in sent : n.approval \in written}
  BY <1>1, <1>4
<1> QED
  BY <1>1, <1>2, <1>3, <1>5, <1>6 DEF Documents!Grant

LEMMA WriteDocuments ==
  ASSUME IInv, GrantsOK, NEW h \in Connections, Write(h)
  PROVE  \E g \in sent : Documents!Swap(g)
<1> DEFINE w == task[h]
<1> PICK g : g = GrantOf(w)
  OBVIOUS
<1>1. /\ w.phase \in {"checked", "kept"} /\ disk' = [disk EXCEPT ![Doc(w)] = Result(w)]
      /\ written' = written \cup {w.approval}
      /\ \/ raced' = raced
         \/ raced' = raced \cup Exposed(Doc(w), Connections \ {h})
      /\ UNCHANGED <<change, sent, audits>>
  BY DEF Write, catalog, requests
<1>2. Active(h)
  BY <1>1 DEF Active
<1>3. /\ g.op = w.op /\ g.change = w.change /\ g.approval = w.approval
      /\ Documents!Doc(g) = Doc(w) /\ Documents!Before(g) = Expected(w)
      /\ Documents!After(g) = Result(w)
  BY DEF GrantOf, Documents!Doc, Documents!Before, Documents!After, Doc, Expected, Result
<1>4. g \in sent
  BY <1>2 DEF GrantsOK, TaskGrants
<1>5. g.approval \notin written
  BY <1>1, <1>2, <1>3 DEF IInv, TasksOK
<1>6. \A r \in audits : r.approval # g.approval
  BY <1>2, <1>3, <1>5 DEF IInv, ReceiptsOK, Truthful, Unwritten
<1>7. Doc(w) \in RuntimeDocs => w.op = "apply"
  BY <1>1, <1>2 DEF GrantsOK, TaskGrants
<1>8. w.change \notin raced => disk[Doc(w)] = Expected(w)
  BY <1>1 DEF IInv, WindowOK
<1>9. \A i \in Connections \ {h} : Active(i) => GrantOf(task[i]) \notin {g}
  <2> SUFFICES ASSUME NEW i \in Connections \ {h}, Active(i), GrantOf(task[i]) = g
               PROVE  FALSE
    OBVIOUS
  <2>1. task[i].approval = w.approval
    BY DEF GrantOf
  <2> QED
    BY <1>2, <2>1 DEF IInv, TasksOK
<1>10. Exposed(Doc(w), Connections \ {h}) \in SUBSET
         ChangesOn(Doc(w), Documents!Outstanding \ {g})
  BY <1>9, ExposedGrants
<1>11. Documents!Expose(Doc(w), Documents!Outstanding \ {g})
  <2>1. \E X \in SUBSET ChangesOn(Doc(w), Documents!Outstanding \ {g}) : raced' = raced \cup X
    <3>1. raced = raced \cup {}
      OBVIOUS
    <3> QED
      BY <1>1, <1>10, <3>1
  <2> QED
    BY <2>1 DEF Documents!Expose, ChangesOn
<1>12. {n \in sent' : n.approval \in written'} = {n \in sent : n.approval \in written} \cup {g}
  <2>1. \A n \in sent : n.approval = w.approval <=> n = g
    BY <1>3, <1>4 DEF GrantsOK, OneRequestEach
  <2> HIDE DEF w
  <2> QED
    BY <1>1, <1>4, <2>1
<1>13. g \in Documents!Outstanding
  BY <1>4, <1>5, <1>6 DEF Documents!Outstanding
<1>14. Documents!Swap(g)
  BY <1>1, <1>3, <1>7, <1>8, <1>11, <1>12, <1>13 DEF Documents!Swap
<1> QED
  BY <1>4, <1>14

LEMMA RecordDocuments ==
  ASSUME IInv, GrantsOK, NEW k \in Controllers, RecordAudit(k)
  PROVE  GrantOf(ctl[k]) \in sent /\ Documents!Record(GrantOf(ctl[k]), ctl[k].outcome)
<1> DEFINE g == GrantOf(ctl[k])
           o == ctl[k].outcome
<1>1. /\ ctl[k].phase = "saved"
      /\ audits' = audits \cup {[op |-> ctl[k].op, change |-> ctl[k].change,
                                 approval |-> ctl[k].approval, outcome |-> o]}
      /\ UNCHANGED <<disk, change, sent, written, raced>>
  BY DEF RecordAudit, documents, requests, history
<1>2. o # "Error"
  BY <1>1 DEF IInv, TypeOK, CtlOK
<1>3. g \in sent /\ o \in {"Conflict", Documents!Done(ctl[k])}
  BY <1>1, <1>2 DEF GrantsOK, ProcessGrants
<1>4. o = "Conflict" <=> g.approval \notin written
  BY <1>1, <1>2 DEF IInv, ReceiptsOK, Truthful, Unwritten, GrantOf
<1>5. /\ g.op = ctl[k].op /\ g.change = ctl[k].change /\ g.approval = ctl[k].approval
      /\ Documents!Done(g) = Documents!Done(ctl[k])
  BY DEF GrantOf, Documents!Done
<1> HIDE DEF g
<1>6. o = IF g \in {m \in sent : m.approval \in written} THEN Documents!Done(g) ELSE "Conflict"
  BY <1>3, <1>4, <1>5
<1>7. Documents!Record(g, o)
  BY <1>1, <1>3, <1>5, <1>6 DEF Documents!Record
<1> QED
  BY <1>3, <1>7 DEF g

LEMMA DocumentsStep ==
  ASSUME IInv, GrantsOK, [Next]_vars
  PROVE  [Documents!Next]_(Documents!vars)
<1> USE DEF documents, catalog, approving, requests, history
<1>1. ASSUME UNCHANGED <<disk, change, sent, written, audits, raced>>
      PROVE  UNCHANGED Documents!vars
  BY <1>1 DEF Documents!vars
<1>2. ASSUME NEW d \in Docs, NEW v \in Held, Edit(d, v) PROVE Documents!Next
  BY <1>2, EditDocuments DEF Documents!Next
<1>3. ASSUME NEW c \in Changes, NEW d \in Docs, NEW v \in Contents, Propose(c, d, v)
      PROVE  Documents!Next
  BY <1>3, ProposeDocuments DEF Documents!Next
<1>4. ASSUME NEW k \in Controllers, SendRequest(k) PROVE Documents!Next
  <2>1. ctl[k].op \in {"apply", "rollback"} /\ ctl[k].change \in Changes
        /\ ctl[k].approval \in Approvals
    BY <1>4 DEF SendRequest, IInv, TypeOK, CtlOK, Known, Invocation, Operations
  <2> QED
    BY <1>4, <2>1, SendDocuments DEF Documents!Next
<1>5. ASSUME NEW h \in Connections, Write(h) PROVE Documents!Next
  BY <1>5, WriteDocuments DEF Documents!Next
<1>6. ASSUME NEW k \in Controllers, RecordAudit(k) PROVE Documents!Next
  <2>1. ctl[k].outcome \in {"Applied", "RolledBack", "Conflict"}
    BY <1>6 DEF RecordAudit, IInv, TypeOK, CtlOK, Invocation, Outcomes
  <2> QED
    BY <1>6, <2>1, RecordDocuments DEF Documents!Next
<1>7. ASSUME NEW k \in Controllers,
             \/ \E op \in Operations, c \in Changes, a \in Approvals : Begin(k, op, c, a)
             \/ SaveStatus(k) \/ LoseConnection(k) \/ ControllerStops(k)
      PROVE  UNCHANGED Documents!vars
  BY <1>1, <1>7 DEF Begin, SaveStatus, LoseConnection, ControllerStops
<1>8. ASSUME NEW h \in Connections,
             \/ \E m \in sent : Serve(h, m) \/ ConsumeFails(h, m)
             \/ ProviderFails(h)
             \/ Refuse(h) \/ RefuseRuntimeRollback(h) \/ Check(h)
             \/ Keep(h) \/ ReadBackup(h) \/ RefuseBackup(h) \/ Verify(h)
      PROVE  UNCHANGED Documents!vars
  BY <1>1, <1>8 DEF Serve, Consume, Reject, ConsumeFails, ProviderFails, Refuse,
     RefuseRuntimeRollback, Check, Keep, ReadBackup, RefuseBackup, Verify
<1>9. CASE AgentCrash \/ (\E a \in Approvals : Expire(a)) \/ UNCHANGED vars
  BY <1>1, <1>9 DEF AgentCrash, Expire, vars
<1> QED
  BY <1>2, <1>3, <1>4, <1>5, <1>6, <1>7, <1>8, <1>9 DEF Next, ControllerStep, TaskStep

(* The documents, seen with the requests sent, the writes and the audit,   *)
(* are compared and swapped under grants of one use each, and the audit is *)
(* their account, however processes, connections, editors and restarts     *)
(* interleave.                                                             *)
THEOREM DocumentsRefinement == ASSUME StoreLargeEnough PROVE Spec => ImplementsDocuments
<1>1. Init => Documents!Init
  <2> SUFFICES ASSUME Init PROVE Documents!Init
    OBVIOUS
  <2>1. disk \in [Docs -> Held]
    BY DEF Init
  <2>2. {m \in sent : m.approval \in written} = {}
    BY DEF Init
  <2> QED
    BY <2>1, <2>2 DEF Init, Documents!Init
<1>2. IInv /\ GrantsOK /\ [Next]_vars => GrantsOK'
  BY GrantsStep
<1>3. IInv /\ GrantsOK /\ [Next]_vars => [Documents!Next]_(Documents!vars)
  BY DocumentsStep
<1> QED
  BY <1>1, <1>2, <1>3, GrantsInit, InvHolds, PTL DEF Spec, Documents!Spec, ImplementsDocuments
=============================================================================
