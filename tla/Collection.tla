----------------------------- MODULE Collection -----------------------------
(***************************************************************************)
(* How the contents of one native source reach the catalog.                *)
(*                                                                         *)
(* The Agent discovers a source on request.  It keeps the last batch in a  *)
(* cache file and the last OutboxCap batches in an outbox file; both are   *)
(* read whole and renamed into place without a lock, and a failed write of *)
(* either is ignored.  A Controller pass persists the watcher's notices,   *)
(* ingests the outbox, newest batch first, and then asks for a collection  *)
(* with the cursor of the catalog: an equal cursor is answered from the    *)
(* cache, any other one by a discovery.  A user may forget the record.     *)
(*                                                                         *)
(* A cursor is a hash of paths, lengths and modification times, so it is   *)
(* modelled by the version of the source it was computed from; 0 is none.  *)
(* What a record says, its source hash, is the content of that version.    *)
(***************************************************************************)
EXTENDS Naturals, FiniteSets, Sequences, SequencesExt

CONSTANTS
  Sessions,     \* Controller processes that run passes on one catalog
  Contents,     \* what the source may say
  Absent,       \* the source does not exist
  MaxVersions,  \* bound on the changes of the source
  OutboxCap,    \* batches in the collection outbox, 8 in the code
  NoBatch,      \* there is no cache file
  MaxFaults,    \* bound on crashes and failed requests
  MaxIgnored    \* bound on failed writes the Agent ignores

ASSUME ConstantsAssumption ==
  /\ Absent \notin Contents
  /\ MaxVersions \in Nat \ {0}
  /\ OutboxCap \in Nat \ {0}
  /\ MaxFaults \in Nat
  /\ MaxIgnored \in Nat

Version == 1..MaxVersions
Cursor  == 0..MaxVersions
Health  == {"Healthy", "Degraded"}
Batch   == [version : Version, cursor : Cursor, health : Health]

ASSUME NoBatchAssumption == NoBatch \notin Batch

VARIABLES
  source,     \* the versions of the source, the last is the current one
  announced,  \* versions a source.changed event was queued for
  seen,       \* those of them in the catalog's runtime_events
  cache,      \* the cached batch
  queue,      \* the outbox of batches
  task,       \* per session, the Agent's work on its Collect request
  ctl,        \* per session, how far its pass has come
  row,        \* version in the catalog's memory record, 0 is no record
  artifact,   \* lifecycle of the artifact of each content
  cursor,     \* the catalog's collection cursor
  tombs,      \* contents with a policy tombstone
  received,   \* history: the newest version ever ingested
  faults,     \* history: crashes and failed requests so far
  ignored     \* history: ignored failures so far

agentVars   == <<cache, queue, task>>
catalogVars == <<row, artifact, cursor, tombs, seen, received>>
vars == <<source, announced, agentVars, ctl, catalogVars, faults, ignored>>

Now == Len(source)

Resting == [step |-> "idle", asked |-> 0, version |-> 1, cursor |-> 0,
            health |-> "Healthy", loaded |-> << >>]
Task == [step : {"idle", "asked", "looked", "discovered", "saved", "loaded", "done"},
         asked : Cursor, version : Version, cursor : Cursor,
         health : Health, loaded : Seq(Batch)]

Waiting == [phase |-> "idle", up |-> FALSE, notes |-> {}, replay |-> << >>,
            next |-> 0, start |-> 1]
Pass == [phase : {"idle", "fetched", "persisted", "replaying", "saving", "asked", "ending"},
         up : BOOLEAN,             \* the connection still stands
         notes : SUBSET Version,   \* the page of events
         replay : Seq(Batch), next : Cursor, start : Version]

TypeOK ==
  /\ source \in Seq(Contents \cup {Absent}) /\ Now \in Version
  /\ announced \in SUBSET Version
  /\ seen \in SUBSET Version
  /\ cache \in Batch \cup {NoBatch}
  /\ queue \in Seq(Batch) /\ Len(queue) <= OutboxCap
  /\ task \in [Sessions -> Task]
  /\ ctl \in [Sessions -> Pass]
  /\ row \in Cursor
  /\ artifact \in [Contents -> {"none", "Active", "Stale"}]
  /\ cursor \in Cursor
  /\ tombs \in SUBSET Contents
  /\ received \in Cursor
  /\ faults \in 0..MaxFaults
  /\ ignored \in 0..MaxIgnored

Init ==
  /\ \E c \in Contents \cup {Absent} : source = <<c>>
  /\ announced = {}
  /\ seen = {}
  /\ cache = NoBatch
  /\ queue = << >>
  /\ task = [s \in Sessions |-> Resting]
  /\ ctl = [s \in Sessions |-> Waiting]
  /\ row = 0
  /\ artifact = [c \in Contents |-> "none"]
  /\ cursor = 0
  /\ tombs = {}
  /\ received = 0
  /\ faults = 0
  /\ ignored = 0
-----------------------------------------------------------------------------
(* The environment: the source changes, and the watcher may notice.        *)
Change(c) ==
  /\ Now < MaxVersions
  /\ c # source[Now]
  /\ source' = Append(source, c)
  /\ UNCHANGED <<announced, agentVars, ctl, catalogVars, faults, ignored>>

Notice ==
  /\ Now \notin announced
  /\ Now > 1
  /\ announced' = announced \cup {Now}
  /\ UNCHANGED <<source, agentVars, ctl, catalogVars, faults, ignored>>
-----------------------------------------------------------------------------
(* A pass connects and fetches a page of events.                           *)
BeginPass(s) ==
  /\ ctl[s].phase = "idle"
  /\ task[s].step = "idle"
  /\ ctl' = [ctl EXCEPT ![s] = [Waiting EXCEPT !.phase = "fetched", !.up = TRUE,
                                               !.notes = announced \ seen]]
  /\ UNCHANGED <<source, announced, agentVars, catalogVars, faults, ignored>>

(* Only a notice that is new to the catalog marks the source's artifacts.  *)
Marked(notes) ==
  IF notes \subseteq seen THEN artifact
  ELSE [c \in Contents |-> IF artifact[c] = "none" THEN "none" ELSE "Stale"]

PersistNotices(s) ==
  /\ ctl[s].phase = "fetched"
  /\ artifact' = Marked(ctl[s].notes)
  /\ seen' = seen \cup ctl[s].notes
  /\ ctl' = [ctl EXCEPT ![s].phase = "persisted", ![s].notes = {}]
  /\ UNCHANGED <<source, announced, agentVars, row, cursor, tombs, received, faults, ignored>>

(* The Agent answers with the outbox, the newest batch first.              *)
Replay(s) ==
  /\ ctl[s].phase = "persisted"
  /\ ctl[s].up
  /\ ctl' = [ctl EXCEPT ![s].phase = "replaying", ![s].replay = Reverse(queue)]
  /\ UNCHANGED <<source, announced, agentVars, catalogVars, faults, ignored>>

(* Bug: a tombstone stops the memory record but not its artifact.          *)
IngestForgetful(b) ==
  /\ row' = IF source[b.version] \in tombs \cup {Absent} THEN row ELSE b.version
  /\ artifact' = IF source[b.version] = Absent THEN artifact
                 ELSE [artifact EXCEPT ![source[b.version]] = "Active"]
  /\ cursor' = b.cursor
  /\ received' = IF b.version > received THEN b.version ELSE received
  /\ UNCHANGED <<tombs, seen>>

(* What ingest does with a batch.  A record whose hash has a tombstone is  *)
(* skipped, a record the batch lacks is left alone; records that are there *)
(* are overwritten, whatever their age, and their artifacts become Active. *)
Skipped(v) == source[v] \in tombs \cup {Absent}

Ingest(b) ==
  /\ row' = IF Skipped(b.version) THEN row ELSE b.version
  /\ artifact' = IF Skipped(b.version) THEN artifact
                 ELSE [artifact EXCEPT ![source[b.version]] = "Active"]
  /\ cursor' = b.cursor
  /\ received' = IF b.version > received THEN b.version ELSE received
  /\ UNCHANGED <<tombs, seen>>

IngestReplayed(s) ==
  /\ ctl[s].phase = "replaying"
  /\ ctl[s].replay # << >>
  /\ Ingest(Head(ctl[s].replay))
  /\ ctl' = [ctl EXCEPT ![s].phase = "saving", ![s].replay = Tail(@),
                        ![s].next = Head(ctl[s].replay).cursor]
  /\ UNCHANGED <<source, announced, agentVars, faults, ignored>>

(* save_cursor, a transaction of its own, writes the same cursor again.    *)
SaveCursor(s) ==
  /\ ctl[s].phase \in {"saving", "ending"}
  /\ cursor' = ctl[s].next
  /\ ctl' = [ctl EXCEPT ![s] = IF @.phase = "saving" THEN [@ EXCEPT !.phase = "replaying"]
                               ELSE Waiting]
  /\ UNCHANGED <<source, announced, agentVars, row, artifact, tombs, seen, received, faults, ignored>>

Ask(s) ==
  /\ ctl[s].phase = "replaying"
  /\ ctl[s].replay = << >>
  /\ ctl[s].up
  /\ ctl' = [ctl EXCEPT ![s].phase = "asked", ![s].start = Now]
  /\ task' = [task EXCEPT ![s] = [Resting EXCEPT !.step = "asked", !.asked = cursor]]
  /\ UNCHANGED <<source, announced, cache, queue, catalogVars, faults, ignored>>
-----------------------------------------------------------------------------
(* The Agent's work on a Collect request.                                  *)
Look(s) ==
  /\ task[s].step = "asked"
  /\ task' = [task EXCEPT ![s].step = "looked", ![s].cursor = Now]
  /\ UNCHANGED <<source, announced, cache, queue, ctl, catalogVars, faults, ignored>>

Unchanged(s) == task[s].asked = task[s].cursor /\ cache # NoBatch

ServeCached(s) ==
  /\ task[s].step = "looked"
  /\ Unchanged(s)
  /\ task' = [task EXCEPT ![s].step = "done", ![s].version = cache.version,
                          ![s].health = cache.health]
  /\ UNCHANGED <<source, announced, cache, queue, ctl, catalogVars, faults, ignored>>

(* Bug: the cursor is computed when the files have been read.              *)
DiscoverThenLook(s) ==
  /\ task[s].step = "looked"
  /\ ~Unchanged(s)
  /\ \E v \in task[s].cursor .. Now :
       task' = [task EXCEPT ![s].step = "discovered", ![s].version = v, ![s].cursor = Now]
  /\ UNCHANGED <<source, announced, cache, queue, ctl, catalogVars, faults, ignored>>

(* The cursor is older than what is read, or as old: it was computed first.*)
Discover(s) ==
  /\ task[s].step = "looked"
  /\ ~Unchanged(s)
  /\ task' = [task EXCEPT ![s].step = "discovered", ![s].version = Now]
  /\ UNCHANGED <<source, announced, cache, queue, ctl, catalogVars, faults, ignored>>

Found(s) == [version |-> task[s].version, cursor |-> task[s].cursor,
             health |-> task[s].health]

(* Bug: an unchanged batch is kept, however old it is.                     *)
SaveCacheOnce(s) ==
  /\ task[s].step = "discovered"
  /\ cache' = IF cache = NoBatch THEN Found(s) ELSE cache
  /\ task' = [task EXCEPT ![s].step = "saved"]
  /\ UNCHANGED <<source, announced, queue, ctl, catalogVars, faults, ignored>>

SaveCache(s) ==
  /\ task[s].step = "discovered"
  /\ cache' = Found(s)
  /\ task' = [task EXCEPT ![s].step = "saved"]
  /\ UNCHANGED <<source, announced, queue, ctl, catalogVars, faults, ignored>>

LoadQueue(s) ==
  /\ task[s].step = "saved"
  /\ task' = [task EXCEPT ![s].step = "loaded", ![s].loaded = queue]
  /\ UNCHANGED <<source, announced, cache, queue, ctl, catalogVars, faults, ignored>>

LastBatches(q) == IF Len(q) > OutboxCap THEN SubSeq(q, Len(q) - OutboxCap + 1, Len(q)) ELSE q

StoreQueue(s) ==
  /\ task[s].step = "loaded"
  /\ queue' = LastBatches(Append(task[s].loaded, Found(s)))
  /\ task' = [task EXCEPT ![s].step = "done", ![s].loaded = << >>]
  /\ UNCHANGED <<source, announced, cache, ctl, catalogVars, faults, ignored>>

(* The Controller ingests the answer and, with save_cursor, ends the pass. *)
IngestLive(s) ==
  /\ ctl[s].phase = "asked"
  /\ task[s].step = "done"
  /\ Ingest(Found(s))
  /\ ctl' = [ctl EXCEPT ![s].phase = "ending", ![s].next = task[s].cursor]
  /\ task' = [task EXCEPT ![s] = Resting]
  /\ UNCHANGED <<source, announced, cache, queue, faults, ignored>>
-----------------------------------------------------------------------------
(* Forget the record: its row and all artifacts of its source go, and a    *)
(* tombstone of its source hash stays, in one transaction.                 *)
Forget ==
  /\ row # 0
  /\ tombs' = tombs \cup {source[row]}
  /\ artifact' = [c \in Contents |-> "none"]
  /\ row' = 0
  /\ UNCHANGED <<source, announced, agentVars, ctl, cursor, seen, received, faults, ignored>>
-----------------------------------------------------------------------------
(* Failures.  A failed replay is logged and skipped.                       *)
Fault == faults < MaxFaults /\ faults' = faults + 1
Ignored == ignored < MaxIgnored /\ ignored' = ignored + 1

ReplayFails(s) ==
  /\ ctl[s].phase = "persisted"
  /\ IF ctl[s].up THEN Fault ELSE UNCHANGED faults
  /\ ctl' = [ctl EXCEPT ![s].phase = "replaying", ![s].replay = << >>]
  /\ UNCHANGED <<source, announced, agentVars, catalogVars, ignored>>

(* A failed discovery is answered from the cache, marked degraded, and     *)
(* without a cache by an error.                                            *)
DiscoverFails(s) ==
  /\ Fault
  /\ task[s].step = "looked"
  /\ ~Unchanged(s)
  /\ task' = [task EXCEPT ![s] = IF cache = NoBatch THEN Resting
                                 ELSE [@ EXCEPT !.step = "done", !.version = cache.version,
                                                !.cursor = cache.cursor, !.health = "Degraded"]]
  /\ UNCHANGED <<source, announced, cache, queue, ctl, catalogVars, ignored>>

SaveCacheFails(s) ==
  /\ Ignored
  /\ task[s].step = "discovered"
  /\ task' = [task EXCEPT ![s].step = "saved"]
  /\ UNCHANGED <<source, announced, cache, queue, ctl, catalogVars, faults>>

StoreQueueFails(s) ==
  /\ Ignored
  /\ task[s].step \in {"saved", "loaded"}
  /\ task' = [task EXCEPT ![s].step = "done", ![s].loaded = << >>]
  /\ UNCHANGED <<source, announced, cache, queue, ctl, catalogVars, faults>>

(* The event outbox cannot be written: the answer is an error.             *)
AnswerFails(s) ==
  /\ Fault
  /\ task[s].step = "done"
  /\ task' = [task EXCEPT ![s] = Resting]
  /\ UNCHANGED <<source, announced, cache, queue, ctl, catalogVars, ignored>>

(* No answer will come, or no request can be sent: the pass ends.          *)
CollectFails(s) ==
  /\ \/ ctl[s].phase = "asked" /\ task[s].step = "idle"
     \/ ctl[s].phase = "replaying" /\ ctl[s].replay = << >> /\ ~ctl[s].up
  /\ ctl' = [ctl EXCEPT ![s] = Waiting]
  /\ UNCHANGED <<source, announced, agentVars, catalogVars, faults, ignored>>

(* The Agent goes on with the request of a Controller that is gone.        *)
Orphaned(s) == ctl[s].phase = "idle" /\ task[s].step = "done"
DropAnswer(s) ==
  /\ Orphaned(s)
  /\ task' = [task EXCEPT ![s] = Resting]
  /\ UNCHANGED <<source, announced, cache, queue, ctl, catalogVars, faults, ignored>>

ControllerStops(s) ==
  /\ Fault
  /\ ctl[s].phase # "idle"
  /\ ctl' = [ctl EXCEPT ![s] = Waiting]
  /\ UNCHANGED <<source, announced, agentVars, catalogVars, ignored>>

AgentCrash ==
  /\ Fault
  /\ task' = [s \in Sessions |-> Resting]
  /\ ctl' = [s \in Sessions |-> [ctl[s] EXCEPT !.up = FALSE]]
  /\ UNCHANGED <<source, announced, cache, queue, catalogVars, ignored>>
-----------------------------------------------------------------------------
PassStep(s) ==
  \/ BeginPass(s) \/ PersistNotices(s) \/ Replay(s) \/ IngestReplayed(s)
  \/ SaveCursor(s) \/ Ask(s) \/ IngestLive(s) \/ ReplayFails(s) \/ CollectFails(s)

TaskStep(s) ==
  \/ Look(s) \/ ServeCached(s) \/ Discover(s) \/ SaveCache(s) \/ LoadQueue(s)
  \/ StoreQueue(s) \/ DropAnswer(s)

FaultStep(s) ==
  \/ DiscoverFails(s) \/ SaveCacheFails(s) \/ StoreQueueFails(s)
  \/ AnswerFails(s) \/ ControllerStops(s)

Next ==
  \/ \E c \in Contents \cup {Absent} : Change(c)
  \/ Notice
  \/ Forget
  \/ AgentCrash
  \/ \E s \in Sessions : PassStep(s) \/ TaskStep(s) \/ FaultStep(s)

Spec == Init /\ [][Next]_vars

(* watch starts one pass after the other, and the Agent works on what it   *)
(* was asked for.                                                          *)
Fairness == \A s \in Sessions : WF_vars(PassStep(s)) /\ WF_vars(TaskStep(s))

FairSpec == Spec /\ Fairness
-----------------------------------------------------------------------------
(* One Controller process works on the catalog at a time.                  *)
SingleSession == \A s, t \in Sessions : s = t

(* A cursor never says more than was ingested: whoever finds the source at *)
(* the catalog's cursor may skip the discovery, because that version or a  *)
(* newer one came in before, whatever was replayed, cached or lost.        *)
CursorBacked == cursor <= received

(* No record and no artifact has a content the user forgot, although its   *)
(* batches are replayed, cached and served again.                          *)
TombstonesHold ==
  /\ row # 0 => source[row] \notin tombs
  /\ \A c \in tombs : artifact[c] = "none"

(* While the Agent can write its cache, a collection that is not marked    *)
(* degraded is at least as new as the source was when the Controller asked *)
(* for it.                                                                 *)
LiveIsFresh ==
  ignored = 0 =>
    \A s \in Sessions :
      ctl[s].phase = "asked" /\ task[s].step = "done" /\ task[s].health = "Healthy"
        => task[s].version >= ctl[s].start

(* Passes bring the record back to the current version again and again,    *)
(* unless the user forgot that content or the source is gone.              *)
Current == Skipped(Now) \/ (row = Now /\ artifact[source[Now]] = "Active")
CatchesUp == []<>Current

(* A replay is idempotent: it does not take a record back to a version     *)
(* older than the one in the catalog.                                      *)
ReplayIdempotent ==
  [][\A s \in Sessions : ctl[s].phase = "replaying" /\ ctl'[s].phase = "saving"
       => row' >= row]_vars

(* A record that was forgotten comes back only with a later version.       *)
ForgottenStaysGone ==
  [][row = 0 /\ row' # 0 => \A v \in row' .. received : source[v] \notin tombs]_vars
=============================================================================
