--------------------------- MODULE ChangeControl ---------------------------
(***************************************************************************)
(* How a reviewed change reaches a document, and how it is taken back.     *)
(*                                                                         *)
(* A change set names one document, the content it had when the change was *)
(* proposed and the content it is to have.  approve-change and             *)
(* rollback-change issue a one-time approval, mark the change set Approved *)
(* in the catalog, send change set and approval to the Agent, and save the *)
(* status of the receipt and an audit event.  The Agent records the        *)
(* approval as consumed, compares the document with the expected content,  *)
(* keeps a copy of it, renames the new content into place and reads it     *)
(* back.  Nothing locks the document: editors, Codex and the other         *)
(* connections of the Agent work between any two of these steps.           *)
(*                                                                         *)
(* A document is a file of the Codex provider, or a Codex runtime thread   *)
(* whose content is whether it is archived; a content stands for its hash. *)
(* Every change set the code builds has exactly one operation.             *)
(***************************************************************************)
EXTENDS Integers, Sequences, FiniteSets, Functions

CONSTANTS
  Files,         \* documents that are files
  RuntimeDocs,   \* documents that are runtime threads
  Contents,      \* what a document can hold
  Absent,        \* the content of a file that does not exist
  Changes,       \* change set ids
  Approvals,     \* ids (with nonces) of the approvals ever issued
  Controllers,   \* approve-change and rollback-change processes
  Retries,       \* connections that repeat a request already sent
  NoChange,      \* the change set is not proposed yet, or there is none
  NoApproval,    \* no approval
  NoCopy,        \* no backup
  ReplayCap,     \* 4096 in the code: consumed approvals remembered
  MaxEdits,      \* bound on the changes made by others
  MaxFaults      \* bound on crashes, lost connections and failed operations

Docs == Files \cup RuntimeDocs
Held == Contents \cup {Absent}

ASSUME ChangeAssumption ==
  /\ Files \cap RuntimeDocs = {}
  /\ Approvals \cap Retries = {}
  /\ Absent \notin Contents
  /\ NoCopy \notin Held
  /\ NoChange \notin Changes
  /\ NoChange \notin [doc : Docs, before : Held, after : Contents]
  /\ NoApproval \notin Approvals
  /\ ReplayCap \in Nat \ {0}
  /\ MaxEdits \in Nat
  /\ MaxFaults \in Nat

VARIABLES
  disk,      \* per document, what it holds
  backup,    \* per change set, the file <change set id>-0-<name>.bak
  change,    \* per change set, its operation
  status,    \* per change set, its status in the catalog
  audits,    \* the audit events in the catalog
  ctl,       \* per Controller process, how far it has come
  issued,    \* approvals issued so far
  expired,   \* approvals whose time has passed
  sent,      \* requests ever sent
  unread,    \* requests in the socket of their connection
  task,      \* per connection, the Agent task that serves it; a process
             \* opens one for the one approval it issues, which names it
  memory,    \* consumed_approval_ids of the Agent process
  store,     \* approval-replay.json
  uses,      \* history: how often an approval reached the provider
  written,   \* history: approvals whose new content was put in place
  last,      \* history: per change set, the operation that last wrote
  raced,     \* history: change sets whose document changed between check and write
  edits,     \* changes made by others so far
  faults     \* crashes, lost connections and failed operations so far

documents == <<disk, backup>>
catalog   == <<change, status, audits>>
approving == <<issued, expired>>
requests  == <<sent, unread>>
replays   == <<memory, store>>
history   == <<uses, written, last, raced>>
vars == <<documents, catalog, ctl, approving, requests, task, replays,
          history, edits, faults>>

Connections == Approvals \cup Retries
Operations  == {"apply", "rollback"}
Outcomes    == {"Applied", "RolledBack", "Conflict", "Error"}
Operation   == [doc : Docs, before : Held, after : Contents]
Request     == [op : Operations, change : Changes, approval : Approvals]
Invocation  == [phase : {"idle", "issued", "sent", "answered", "saved"}, op : Operations,
                change : Changes \cup {NoChange}, approval : Approvals \cup {NoApproval},
                outcome : Outcomes]
Task        == [phase : {"idle", "consumed", "checked", "kept", "written"}, op : Operations,
                change : Changes \cup {NoChange}, approval : Approvals \cup {NoApproval}]
Audit       == [op : Operations, change : Changes, approval : Approvals,
                outcome : Outcomes \ {"Error"}]

NoCtl  == [phase |-> "idle", op |-> "apply", change |-> NoChange,
           approval |-> NoApproval, outcome |-> "Error"]
NoTask == [phase |-> "idle", op |-> "apply", change |-> NoChange, approval |-> NoApproval]

(* It works on a proposed change set, under an approval.                   *)
Known(w) == w.change \in Changes /\ change[w.change] # NoChange /\ w.approval \in Approvals

(* A process that goes on to audit has a receipt.                          *)
CtlOK ==
  /\ ctl \in [Controllers -> Invocation]
  /\ \A k \in Controllers :
       /\ ctl[k].phase # "idle" => Known(ctl[k])
       /\ ctl[k].phase = "saved" => ctl[k].outcome # "Error"

TaskOK ==
  /\ task \in [Connections -> Task]
  /\ \A h \in Connections : task[h].phase # "idle" => Known(task[h])

TypeOK ==
  /\ disk \in [Docs -> Held]
  /\ backup \in [Changes -> Contents \cup {NoCopy}]
  /\ change \in [Changes -> Operation \cup {NoChange}]
  /\ status \in [Changes -> {"None", "Proposed", "Approved", "Applied",
                             "Conflict", "Failed", "RolledBack"}]
  /\ audits \in SUBSET Audit
  /\ CtlOK
  /\ issued \in SUBSET Approvals
  /\ expired \in SUBSET Approvals
  /\ sent \in SUBSET Request
  /\ \A m \in sent : Known(m)
  /\ unread \in SUBSET sent
  /\ TaskOK
  /\ memory \in SUBSET Approvals
  /\ store \in Seq(Approvals)
  /\ uses \in [Approvals -> Nat]
  /\ written \in SUBSET Approvals
  /\ last \in [Changes -> Operations \cup {"none"}]
  /\ raced \in SUBSET Changes
  /\ edits \in 0..MaxEdits
  /\ faults \in 0..MaxFaults

Init ==
  /\ disk \in {d \in [Docs -> Held] : \A t \in RuntimeDocs : d[t] # Absent}
  /\ backup = [c \in Changes |-> NoCopy]
  /\ change = [c \in Changes |-> NoChange]
  /\ status = [c \in Changes |-> "None"]
  /\ audits = {}
  /\ ctl = [k \in Controllers |-> NoCtl]
  /\ issued = {}
  /\ expired = {}
  /\ sent = {}
  /\ unread = {}
  /\ task = [h \in Connections |-> NoTask]
  /\ memory = {}
  /\ store = << >>
  /\ uses = [a \in Approvals |-> 0]
  /\ written = {}
  /\ last = [c \in Changes |-> "none"]
  /\ raced = {}
  /\ edits = 0
  /\ faults = 0
-----------------------------------------------------------------------------
(* What the operation of a task or a request expects to find, and what it  *)
(* is to leave: a rollback swaps the two.                                  *)
Doc(w)      == change[w.change].doc
Expected(w) == IF w.op = "apply" THEN change[w.change].before ELSE change[w.change].after

(* Bug: a rollback writes the new content again.                           *)
ResultOfApply(w) == change[w.change].after

Result(w)   == IF w.op = "apply" THEN change[w.change].after ELSE change[w.change].before

(* History: the change sets of those tasks that have checked d and have    *)
(* not written it yet.                                                     *)
Exposed(d, tasks) ==
  {task[g].change : g \in {g \in tasks :
                             task[g].phase \in {"checked", "kept"} /\ Doc(task[g]) = d}}

(* Somebody else changes a document: an editor, Codex, the user.           *)
Edit(d, v) ==
  /\ edits < MaxEdits
  /\ edits' = edits + 1
  /\ disk[d] # v
  /\ d \in RuntimeDocs => v # Absent
  /\ disk' = [disk EXCEPT ![d] = v]
  /\ raced' = raced \cup Exposed(d, Connections)
  /\ UNCHANGED <<backup, catalog, ctl, approving, requests, task, replays,
                 uses, written, last, faults>>

Fault == faults < MaxFaults /\ faults' = faults + 1
-----------------------------------------------------------------------------
(* The Controller.                                                         *)

(* What the provider drafts: the document as it reads it, and as it is to  *)
(* be.                                                                     *)
Draft(d, v) == [doc |-> d, before |-> disk[d], after |-> v]

(* The Agent drafts no change of a thread that the app-server says is in   *)
(* the requested state already; a file may be replaced by what it holds.   *)
ThreadDiffers(d, v) == disk[d] # v

(* A new change set is written to the catalog.                             *)
SaveChangeSet(c, w) ==
  /\ change[c] = NoChange
  /\ change' = [change EXCEPT ![c] = w]
  /\ status' = [status EXCEPT ![c] = "Proposed"]
  /\ UNCHANGED <<documents, audits, ctl, approving, requests, task, replays,
                 history, edits, faults>>

ProposeFile(c, d, v) == d \in Files /\ SaveChangeSet(c, Draft(d, v))

ProposeThread(c, d, v) ==
  d \in RuntimeDocs /\ ThreadDiffers(d, v) /\ SaveChangeSet(c, Draft(d, v))

Propose(c, d, v) == ProposeFile(c, d, v) \/ ProposeThread(c, d, v)

(* Issue a fresh approval and mark the change set Approved, whatever its   *)
(* status was.                                                             *)
Begin(k, op, c, a) ==
  /\ ctl[k].phase = "idle"
  /\ change[c] # NoChange
  /\ a \notin issued
  /\ issued' = issued \cup {a}
  /\ status' = [status EXCEPT ![c] = "Approved"]
  /\ ctl' = [ctl EXCEPT ![k] = [phase |-> "issued", op |-> op, change |-> c,
                                approval |-> a, outcome |-> "Error"]]
  /\ UNCHANGED <<documents, change, audits, expired, requests, task, replays,
                 history, edits, faults>>

SendRequest(k) ==
  LET m == [op |-> ctl[k].op, change |-> ctl[k].change,
            approval |-> ctl[k].approval] IN
  /\ ctl[k].phase = "issued"
  /\ ctl' = [ctl EXCEPT ![k].phase = "sent"]
  /\ sent' = sent \cup {m}
  /\ unread' = unread \cup {m}
  /\ UNCHANGED <<documents, catalog, approving, task, replays, history, edits, faults>>

(* Bug: take any receipt for success.                                      *)
SaveStatusHopeful(k) ==
  LET o == ctl[k].outcome IN
  /\ ctl[k].phase = "answered"
  /\ status' = [status EXCEPT ![ctl[k].change] =
                  IF o = "Error" THEN "Failed"
                  ELSE IF ctl[k].op = "apply" THEN "Applied" ELSE "RolledBack"]
  /\ ctl' = [ctl EXCEPT ![k] = IF o = "Error" THEN NoCtl ELSE [@ EXCEPT !.phase = "saved"]]
  /\ UNCHANGED <<documents, change, audits, approving, requests, task, replays,
                 history, edits, faults>>

(* Save the receipt's status, or Failed when there is no receipt.          *)
SaveStatus(k) ==
  LET o == ctl[k].outcome IN
  /\ ctl[k].phase = "answered"
  /\ status' = [status EXCEPT ![ctl[k].change] = IF o = "Error" THEN "Failed" ELSE o]
  /\ ctl' = [ctl EXCEPT ![k] = IF o = "Error" THEN NoCtl ELSE [@ EXCEPT !.phase = "saved"]]
  /\ UNCHANGED <<documents, change, audits, approving, requests, task, replays,
                 history, edits, faults>>

RecordAudit(k) ==
  /\ ctl[k].phase = "saved"
  /\ audits' = audits \cup {[op |-> ctl[k].op, change |-> ctl[k].change,
                             approval |-> ctl[k].approval, outcome |-> ctl[k].outcome]}
  /\ ctl' = [ctl EXCEPT ![k] = NoCtl]
  /\ UNCHANGED <<documents, change, status, approving, requests, task, replays,
                 history, edits, faults>>

Expire(a) ==
  /\ a \in issued \ expired
  /\ expired' = expired \cup {a}
  /\ UNCHANGED <<documents, catalog, ctl, issued, requests, task, replays,
                 history, edits, faults>>
-----------------------------------------------------------------------------
(* The Agent.  A task answers the process at the other end of its          *)
(* connection if that still waits.                                         *)
Answer(h, outcome) ==
  ctl' = [k \in Controllers |->
            IF ctl[k].phase = "sent" /\ ctl[k].approval = h
            THEN [ctl[k] EXCEPT !.phase = "answered", !.outcome = outcome]
            ELSE ctl[k]]

Finish(h, outcome) ==
  /\ Answer(h, outcome)
  /\ task' = [task EXCEPT ![h] = NoTask]

(* A request is read once from its own connection; a retry or a duplicate  *)
(* comes on another one.                                                   *)
Readable(h) == IF h \in Retries THEN sent ELSE {m \in unread : m.approval = h}

Take(h, m) ==
  /\ task[h].phase = "idle"
  /\ m \in Readable(h)
  /\ unread' = IF h \in Retries THEN unread ELSE unread \ {m}

(* Bug: trust the memory of the process alone.                             *)
ConsumedInMemory(a) == a \in memory

Consumed(a) == a \in memory \cup Range(store)

Remembered(q) == IF Len(q) > ReplayCap THEN SubSeq(q, Len(q) - ReplayCap + 1, Len(q)) ELSE q

(* Under the Agent's mutex: record the approval in the file and in memory, *)
(* and only then go on to the provider.                                    *)
Consume(h, m) ==
  /\ Take(h, m)
  /\ m.approval \notin expired
  /\ ~Consumed(m.approval)
  /\ store' = Remembered(Append(store, m.approval))
  /\ memory' = Range(store')
  /\ task' = [task EXCEPT ![h] = [phase |-> "consumed", op |-> m.op,
                                  change |-> m.change, approval |-> m.approval]]
  /\ uses' = [uses EXCEPT ![m.approval] = @ + 1]
  /\ UNCHANGED <<documents, catalog, ctl, approving, sent, written, last, raced,
                 edits, faults>>

(* Bug: drop a rejected request without an answer.                         *)
RejectSilently(h, m) ==
  /\ Take(h, m)
  /\ m.approval \in expired \/ Consumed(m.approval)
  /\ UNCHANGED <<documents, catalog, ctl, approving, sent, task, replays, history,
                 edits, faults>>

Reject(h, m) ==
  /\ Take(h, m)
  /\ m.approval \in expired \/ Consumed(m.approval)
  /\ memory' = IF m.approval \in Range(store) /\ m.approval \notin expired
               THEN memory \cup {m.approval} ELSE memory
  /\ Answer(h, "Error")
  /\ UNCHANGED <<documents, catalog, approving, sent, task, store, history, edits, faults>>

(* Bug: call it applied when the document already is as it should be.      *)
RefuseUnlessThere(h) ==
  /\ task[h].phase = "consumed"
  /\ Doc(task[h]) \in RuntimeDocs => task[h].op = "apply"
  /\ disk[Doc(task[h])] # Expected(task[h])
  /\ Finish(h, IF disk[Doc(task[h])] = Result(task[h]) THEN "Applied" ELSE "Conflict")
  /\ UNCHANGED <<documents, catalog, approving, requests, replays, history, edits, faults>>

(* The provider refuses: the document is not what the operation expects.   *)
Refuse(h) ==
  /\ task[h].phase = "consumed"
  /\ Doc(task[h]) \in RuntimeDocs => task[h].op = "apply"
  /\ disk[Doc(task[h])] # Expected(task[h])
  /\ Finish(h, "Conflict")
  /\ UNCHANGED <<documents, catalog, approving, requests, replays, history, edits, faults>>

(* There is no rollback of a runtime change: its target is not a path.     *)
RefuseRuntimeRollback(h) ==
  /\ task[h].phase = "consumed"
  /\ task[h].op = "rollback"
  /\ Doc(task[h]) \in RuntimeDocs
  /\ Finish(h, "Error")
  /\ UNCHANGED <<documents, catalog, approving, requests, replays, history, edits, faults>>

(* Bug: do not compare.                                                    *)
CheckNothing(h) ==
  /\ task[h].phase = "consumed"
  /\ Doc(task[h]) \in RuntimeDocs => task[h].op = "apply"
  /\ task' = [task EXCEPT ![h].phase = "checked"]
  /\ UNCHANGED <<documents, catalog, ctl, approving, requests, replays, history,
                 edits, faults>>

Check(h) ==
  /\ task[h].phase = "consumed"
  /\ Doc(task[h]) \in RuntimeDocs => task[h].op = "apply"
  /\ disk[Doc(task[h])] = Expected(task[h])
  /\ task' = [task EXCEPT ![h].phase = "checked"]
  /\ UNCHANGED <<documents, catalog, ctl, approving, requests, replays, history,
                 edits, faults>>

(* Bug: keep the replacement, not what it replaces.                        *)
KeepReplacement(h) ==
  /\ task[h].phase = "checked"
  /\ task[h].op = "apply"
  /\ Doc(task[h]) \in Files
  /\ backup' = [backup EXCEPT ![task[h].change] = Result(task[h])]
  /\ task' = [task EXCEPT ![h].phase = "kept"]
  /\ UNCHANGED <<disk, catalog, ctl, approving, requests, replays, history, edits, faults>>

(* Copy the file, as it is now, over the backup of the change set.         *)
Keep(h) ==
  LET d == Doc(task[h]) IN
  /\ task[h].phase = "checked"
  /\ task[h].op = "apply"
  /\ d \in Files
  /\ backup' = IF disk[d] = Absent THEN backup
               ELSE [backup EXCEPT ![task[h].change] = disk[d]]
  /\ task' = [task EXCEPT ![h].phase = "kept"]
  /\ UNCHANGED <<disk, catalog, ctl, approving, requests, replays, history, edits, faults>>

(* A rollback reads the backup and compares it with the content before.    *)
BackupServes(c) == change[c].before \in {Absent, backup[c]}

ReadBackup(h) ==
  /\ task[h].phase = "checked"
  /\ task[h].op = "rollback"
  /\ BackupServes(task[h].change)
  /\ task' = [task EXCEPT ![h].phase = "kept"]
  /\ UNCHANGED <<documents, catalog, ctl, approving, requests, replays, history,
                 edits, faults>>

RefuseBackup(h) ==
  /\ task[h].phase = "checked"
  /\ task[h].op = "rollback"
  /\ ~BackupServes(task[h].change)
  /\ Finish(h, "Error")
  /\ UNCHANGED <<documents, catalog, approving, requests, replays, history, edits, faults>>

(* Rename the content into place, remove the file, or ask the app-server   *)
(* to archive the thread.                                                  *)
Write(h) ==
  LET w == task[h] IN
  /\ w.phase \in {"checked", "kept"}
  /\ w.phase = "kept" <=> Doc(w) \in Files
  /\ disk' = [disk EXCEPT ![Doc(w)] = Result(w)]
  /\ task' = [task EXCEPT ![h].phase = "written"]
  /\ written' = written \cup {w.approval}
  /\ last' = [last EXCEPT ![w.change] = w.op]
  /\ raced' = IF disk[Doc(w)] = Result(w) THEN raced ELSE raced \cup Exposed(Doc(w), Connections \ {h})
  /\ UNCHANGED <<backup, catalog, ctl, approving, requests, replays, uses, edits, faults>>

(* Read the document back and compare.                                     *)
Verify(h) ==
  LET w == task[h] IN
  /\ w.phase = "written"
  /\ Finish(h, IF disk[Doc(w)] # Result(w) THEN "Error"
               ELSE IF w.op = "apply" THEN "Applied" ELSE "RolledBack")
  /\ UNCHANGED <<documents, catalog, approving, requests, replays, history, edits, faults>>
-----------------------------------------------------------------------------
(* Faults.                                                                 *)

(* Reading, writing or renaming the replay store fails: the provider is    *)
(* not called.                                                             *)
ConsumeFails(h, m) ==
  /\ Fault
  /\ Take(h, m)
  /\ m.approval \notin expired
  /\ m.approval \notin memory
  /\ Answer(h, "Error")
  /\ UNCHANGED <<documents, catalog, approving, sent, task, replays, history, edits>>

(* An operation of the provider fails, before or after the rename.         *)
ProviderFails(h) ==
  /\ Fault
  /\ task[h].phase # "idle"
  /\ Finish(h, "Error")
  /\ UNCHANGED <<documents, catalog, approving, requests, replays, history, edits>>

(* No connection, or it breaks while the process waits; what was sent may  *)
(* still be read.                                                          *)
LoseConnection(k) ==
  /\ Fault
  /\ ctl[k].phase \in {"issued", "sent"}
  /\ ctl' = [ctl EXCEPT ![k].phase = "answered"]
  /\ UNCHANGED <<documents, catalog, approving, requests, task, replays, history, edits>>

(* The process dies, a catalog write fails, or the Agent it is to start    *)
(* does not come up: it ends where it is.                                  *)
ControllerStops(k) ==
  /\ Fault
  /\ ctl[k].phase # "idle"
  /\ ctl' = [ctl EXCEPT ![k] = NoCtl]
  /\ UNCHANGED <<documents, catalog, approving, requests, task, replays, history, edits>>

(* The Agent dies and is started again: its tasks, its memory and the      *)
(* requests in its sockets are gone, the files stay.                       *)
AgentCrash ==
  /\ Fault
  /\ task' = [h \in Connections |-> NoTask]
  /\ memory' = {}
  /\ unread' = {}
  /\ ctl' = [k \in Controllers |->
               IF ctl[k].phase = "sent" THEN [ctl[k] EXCEPT !.phase = "answered"] ELSE ctl[k]]
  /\ UNCHANGED <<documents, catalog, approving, sent, store, history, edits>>
-----------------------------------------------------------------------------
ControllerStep(k) == SendRequest(k) \/ SaveStatus(k) \/ RecordAudit(k)

TaskStep(h) ==
  \/ Refuse(h) \/ RefuseRuntimeRollback(h) \/ Check(h)
  \/ Keep(h) \/ ReadBackup(h) \/ RefuseBackup(h)
  \/ Write(h) \/ Verify(h)

Serve(h, m) == Consume(h, m) \/ Reject(h, m)

Next ==
  \/ \E d \in Docs, v \in Held : Edit(d, v)
  \/ \E c \in Changes, d \in Docs, v \in Contents : Propose(c, d, v)
  \/ \E k \in Controllers :
       \/ \E op \in Operations, c \in Changes, a \in Approvals : Begin(k, op, c, a)
       \/ ControllerStep(k)
       \/ LoseConnection(k)
       \/ ControllerStops(k)
  \/ \E a \in Approvals : Expire(a)
  \/ \E h \in Connections :
       \/ \E m \in sent : Serve(h, m) \/ ConsumeFails(h, m)
       \/ TaskStep(h)
       \/ ProviderFails(h)
  \/ AgentCrash

Spec == Init /\ [][Next]_vars

(* A started process runs on, and so does each task of the Agent.          *)
Fairness ==
  /\ \A k \in Controllers : WF_vars(ControllerStep(k))
  /\ \A h \in Connections : WF_vars(TaskStep(h))
  /\ \A a \in Approvals : WF_vars(\E m \in sent : Serve(a, m))

FairSpec == Spec /\ Fairness
-----------------------------------------------------------------------------
(* One-time use: whatever is repeated and whenever the Agent restarts, an  *)
(* approval reaches the provider at most once.                             *)
ApprovalUsedOnce == \A a \in Approvals : uses[a] <= 1

(* A change that was applied to a file can be taken back from its backup,  *)
(* unless the file was changed under the hands of the Agent.               *)
Reversible ==
  \A c \in Changes \ raced :
    last[c] = "apply" /\ change[c].doc \in Files => BackupServes(c)

(* The same without the exception.                                         *)
AlwaysReversible ==
  \A c \in Changes : last[c] = "apply" /\ change[c].doc \in Files => BackupServes(c)

(* Compare and swap: what a task replaces is what it was to find, unless   *)
(* the document was changed between the comparison and the rename.         *)
Replaces(h) == task[h].phase # "written" /\ task'[h].phase = "written"

ReplacesExpected ==
  [][\A h \in Connections :
       Replaces(h) /\ task[h].change \notin raced
         => disk[Doc(task[h])] = Expected(task[h])]_vars

(* The same without the exception.                                         *)
NeverOverwritesOthers ==
  [][\A h \in Connections : Replaces(h) => disk[Doc(task[h])] = Expected(task[h])]_vars

(* An audit event of success names an approval under which the document    *)
(* was written, one of a conflict an approval under which it was not.      *)
AuditTruthful ==
  \A r \in audits : r.outcome # "Conflict" <=> r.approval \in written

(* With nothing lost or repeated and one process at a time, the status     *)
(* in the catalog tells which operation wrote last.                        *)
StatusTells ==
  faults = 0 /\ (\A k \in Controllers : ctl[k].phase = "idle") =>
    \A c \in Changes :
      /\ status[c] = "Applied" => last[c] = "apply"
      /\ status[c] = "RolledBack" => last[c] = "rollback"

(* All of it together: the documents are compared and swapped under grants *)
(* of one use each, and the audit is their account.  A grant is a request  *)
(* that was sent.  The exposed change sets are those whose document        *)
(* changed between a comparison and the rename.                            *)
Documents == INSTANCE ReviewedDocuments WITH
               Threads <- RuntimeDocs, granted <- sent, exposed <- raced,
               swapped <- {m \in sent : m.approval \in written}

ImplementsDocuments == Documents!Spec

(* Every write of a document has its audit event once nothing is going on. *)
WritesAudited ==
  /\ \A k \in Controllers : ctl[k].phase = "idle"
  /\ \A h \in Connections : task[h].phase = "idle"
  => written \subseteq {r.approval : r \in audits}

(* Every approve-change and rollback-change comes to its end, whatever the *)
(* Agent does.                                                             *)
InvocationEnds ==
  \A k \in Controllers : ctl[k].phase # "idle" ~> ctl[k].phase = "idle"
=============================================================================
