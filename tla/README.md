# Formal model of the Agent Memory Control Plane

This directory holds TLA+ modules that model the Agent Memory Control Plane
(AMCP) of this repository, TLC configurations that check them on small
instances, and theorems about them that TLAPS checks. Paths are relative to
`src/`; `HLD` is `src/HLD-AMCP-COLLECTOR-CONTROLLER-AND-AGENT.md`.

## 1. The system

One **Agent** process per host (`crates/amcp-agent`) reads the local AI tools'
files and the Codex app-server, queues what it saw in files of its state
directory, and carries out approved changes. **Controller** commands
(`crates/amcp-controller`) are short-lived processes that connect to an Agent
over a Unix socket, a named pipe or TLS, ask it for events, collections, reads
and changes, and persist the answers in a SQLite **catalog**
(`crates/amcp-storage`). The desktop application, the MCP server and the RAG
index work on the catalog. A connection carries JSON lines; each connection is
served by a task of its own, so several Controllers are served concurrently.

| Component | State | Operations | Interacts with |
|---|---|---|---|
| Runtime event outbox (`amcp-agent/src/main.rs` 3572-3634) | `runtime-events-outbox.json`, an array of at most 256 events; a mutex that is a static of the process | append, load, page, acknowledge | connector, watcher, collector append; subscriptions and streams read and acknowledge |
| Runtime connector (345-446) | the app-server connection, the sequence number, the backoff | poll eight pages of threads, append one event per thread | app-server, outbox |
| Watcher (229-331) | the paths of the current burst, the last fingerprint | coalesce, append a notice | file system, outbox |
| Event subscription (1512-1583), event stream (810-1102) | cursor, in-flight window and sent ids of a stream | page, acknowledge, heartbeat, close | outbox, Controller |
| Collection (1177-1246, 3395-3570) | a cached batch per provider, an outbox of the last 8 batches | discover, cache, replay | providers, Controller |
| Change control (1372-1499, 1862-2216, 3348-3393) | `approval-replay.json`, consumed ids in memory, backups | propose, apply, roll back | Codex provider, Controller |
| Enrollment and authentication (91-131, 1104-1155) | bootstrap token, pairing code, enrolled credential | enroll, accept | secret store |
| Controller commands (`amcp-controller/src/main.rs`) | one invocation's progress | run-once, watch, stream-events, propose, approve, roll back, enroll | Agent, catalog |
| Catalog (`amcp-storage/src/lib.rs`) | SQLite tables | ingest, ingest events, forget, rebuild, audit | every Controller process |
| Codex provider (`amcp-codex`) | none of its own | discover, propose, apply, roll back | documents, backups |
| App-server client (`amcp-app-server`) | request id, unanswered frames | request, turn, cancel, shut down | Codex |
| RAG index (`amcp-rag`) | chunks, vectors, retrieval audit | index, retrieve, clear | catalog |
| MCP server, desktop | session of one client | read tools, approve through the Controller | catalog, Controller |
| File providers, platform, protocol, domain | none, or a credential | parse, store, encode | Agent |

### What is hard

* Everything durable at the Agent is a file that is read whole, changed in
  memory and renamed into place. Readers take no lock; writers lock within one
  process only.
* Agent and Controller die independently, and a connection breaks with its
  request read or unread. Nothing retries by itself; the next pass does.
* Documents belong to others: editors and Codex change them between any two
  steps of the Agent.
* Queues, windows and replay stores are bounded and drop their oldest entry.

### What makes each part correct

* **Outbox and event delivery.** Every event that was queued is delivered to
  the catalog or pushed out by newer ones, whatever dies in between; the queue
  keeps its bound and never holds an id twice; what is acknowledged is in the
  catalog; no older state of a thread is put back into the catalog's session
  row once the last one is there.
* **Event stream.** What is unacknowledged fits the window; what was sent is
  not sent again on the same stream; pages are handled in the order they were
  pushed; what stays queued is streamed; nothing leaves the outbox before the
  catalog has it.
* **Discovery.** What nobody touches during a collection is in it as it is;
  the kept collection is answered only while a new one would be the same, for
  the files its cursor counts; when they come to rest the collection becomes exact
  for these.
* **Collection.** The catalog's cursor never says more than was ingested; an
  answer from the cache is not older than the question; replays, failures and
  lost updates of the outbox are repaired by later passes.
* **Change control.** An approval is used once. A write replaces what the
  reviewer saw. What was written can be taken back. Status and audit say what
  happened. Every invocation ends.
* **Forgetting.** What a user forgot does not come back from a replay, a cache
  or a projection.
* **Projections.** What is in the catalog can be found; what is not cannot be
  found or cited; a rebuild restores the first two.
* **Enrollment and access.** A credential that was handed out and kept is
  accepted, also after a restart, unless two enrollments with one code crossed;
  every invocation ends and, but for a collection that fails, leaves no child
  Agent behind, whoever owns the socket by then.
* **Catalog file.** Whoever has the catalog open finds its schema complete,
  whichever other process migrates it; an older catalog is in a backup before
  it is changed; annotations only name what is there; the catalog opens again
  after any crash.
* **App-server client.** The messages of a turn are handed on once and in
  order; a use fails only for a reason; a cancellation ends it at any step, and
  no app-server process stays behind.

## 2. The modules

| Module | Models | Instances | Theorems |
|---|---|---|---|
| `RuntimeOutbox` | what the outbox operations compute from a queue | `MCEventDelivery` | `RuntimeOutboxProofs` (lemmas) |
| `AtLeastOnceLog` | what outbox and catalog promise together, abstractly | by `EventDelivery` and `EventStream` | - |
| `EventDelivery` | connector, outbox, subscription, persistence, acknowledgement | `MCEventDelivery` | `EventDeliveryProofs` |
| `ReviewedDocuments` | what change control promises, abstractly | by `ChangeControl` | - |
| `ChangeControl` | approve-change and rollback-change against the Agent and the provider | `MCChangeControl` | `ChangeControlProofs` |
| `EventStream` | serve_event_stream against stream_events and its client | itself | `EventStreamProofs` |
| `AgentAccess` | child and resident Agents, socket, registration, enrollment, stored credentials | `MCAgentAccess` | `AgentAccessProofs` |
| `CodexTurns` | the uses of the app-server client: ask_codex with its cancellation, runtime reads | itself | `AgentAccessProofs`, second part |
| `CatalogStore` | opening and migrating the catalog, backups, annotations | `MCCatalogStore` | `CatalogStoreProofs` |
| `Discovery` | the cursor, the listing and the reads of a provider's files | `MCDiscovery` | `CollectionProofs`, second part |
| `Collection` | discovery, cache, outbox of batches, passes of a Controller, forgetting | itself | `CollectionProofs` |
| `Projections` | search rows and RAG chunks derived from the catalog | `MCProjections` | `ProjectionsProofs` |

`EventDelivery` and `EventStream` extend `RuntimeOutbox` and both refine
`AtLeastOnceLog`; `ChangeControl` refines `ReviewedDocuments`. Otherwise the modules stand alone: each has the part of the catalog its component
writes. Two proof modules hold the theorems of two components each and extend both, so
`Discovery` and `CodexTurns` have names of their own for what every module has
(`DiscoverySpec`, `TurnsSpec`, `failures` for `faults`, ...).
Definitions commented as *Bug* are plausible mistakes; no action uses them. The
runs' properties must fail when one of them takes the place of the code's own
definition, which shows that the property speaks about that code.

Some conventions hold everywhere. A step of a model is what one process does
between two points where another can act: a read or a rename of a file, a
SQLite transaction, sending or reading a frame. Names follow the code where
they can. A variable marked *history* exists for a property only; no guard
reads it. Bounds on changes, faults and edits are constants with names
beginning with `Max`.

### `RuntimeOutbox` and `EventDelivery`

`outbox` is the array in `runtime-events-outbox.json`; `work[a]` is the update
an Agent process has begun under its mutex, with the queue it read in
`loaded`; only `StoreAppend` and `StoreAck` write the file. `polled[a]` is what
the connector has listed in its poll so far, `PollThread` one answer of the
app-server, so that threads change between two pages of a poll
(`ThreadChanges`). An event of a thread is the pair of thread and snapshot,
because its id is a hash of both; a notice of the watcher or the collector has a
random id and occurs once. A thread that was polled again with the same snapshot
is the same event, which the queue drops while the first is there.

A pass of the Controller is `Subscribe`, `Persist`, `SendAck`, `AckEnds`.
`Persist` is one transaction: it inserts the ids and projects the session rows,
for known events too. A column of that row holds either the snapshot it was taken from or
`FromFile`: the projection keeps what a row has where an event has no value (`Untitled`),
and the rest of the pass, `Ingest`, writes every column of a session that the
files name as well (`Filed`). `acks` holds acknowledgements no Agent has read, also
those of sessions that gave up, which an Agent may read much later.
`AgentCrash`, `StoreFails`, `PollFails` and `Disconnect` happen at any step, at
most `MaxFaults` times.

`AtLeastOnceLog` has three actions. `Emit` accepts events and drops only what does
not fit, `Deliver` copies to the catalog, `Acknowledge` forgets what was
delivered. The refinement maps the file to `queued` and the catalog's ids to
`delivered`.

### `ChangeControl`

`disk` holds the documents and `backup` the copies, `change`, `status` and `audits`
are rows of the catalog, `store` is `approval-replay.json` and `memory` the
Agent's set of consumed ids. `Propose` saves a change set whose *before* is what
the document holds. `Begin`, `SendRequest`, `SaveStatus` and `RecordAudit` are
one `approve-change` or `rollback-change`; a rollback swaps before and after.
The Agent's task runs `Consume` or `Reject`, then `Check` or `Refuse`, `Keep` (apply)
or `ReadBackup` (rollback), `Write`, `Verify`. Each is a step of its own, since the
code compares, copies, renames and reads back without a lock, and `Edit`
changes the document in between. `Retries` are connections on which a request
that was sent is sent again. `raced` remembers the change sets whose document
changed between comparison and rename: for those the code cannot promise what
`Reversible` and `ReplacesExpected` promise for the rest.

Every change set that this code builds has one operation, so an operation and
its change set are one thing here. A runtime document is a Codex thread with
its archived flag: it has no backup and no rollback.

`ReviewedDocuments` is what a user is promised, without statuses, processes, connections,
replay store and backups. `Edit` is anybody's change of a document, `Propose` and
`Grant` are the user's, `Swap` compares a document and replaces it under a grant that was neither used
nor accounted for, and `Record` accounts for a grant: done, if the document was replaced
under it, else refused. The refinement maps a request that was sent to its grant, `written` to
`swapped`, the audit events to the account, and `raced` to `exposed`: the change sets
of outstanding grants whose document changed may be swapped without comparison. An exposed
change set is the weakness of comparing and renaming without a lock, and the abstract
specification states it, so that it is seen to be the only one.

### `Collection`

`source` is the sequence of the source's contents, its length the present
version. A cursor hashes paths, lengths and times, so it is the version it was
computed from. `Look` computes the cursor, `ServeCached` answers an equal one,
otherwise `Discover` reads the source *afterwards*; `SaveCache`, `LoadQueue` and
`StoreQueue` are the writes of the Agent's files, without a lock and with
failures ignored (`SaveCacheFails`, `StoreQueueFails`). A pass of a Controller is
`BeginPass`, `PersistNotices`, `Replay`, `IngestReplayed` with `SaveCursor` for each batch,
`Ask`, `IngestLive`, `SaveCursor`. `Ingest` overwrites whatever is there, of whatever age, and
skips what has a tombstone. A Controller that goes away leaves its task at
the Agent, which ends by `DropAnswer`.

### `Projections`

`entries[i][c]` counts the search rows of an artifact with a content: the full
text table has no key. `rebuild[p]` is a run of `rebuild-index`; its chunk is
read in `ReadChunk` and inserted in `InsertChunk`, with a commit of others
possible in between. `retrieval[q]` is one call of `amcp_retrieve_context`,
from the search to the answer: the RAG manager loads the chunk table, works on
it in memory and writes it back whole (`Replace`). Scopes, retention and ranking
choose a subset of artifacts, so the model lets `Search` and `Load` choose any.

### `EventStream`

`outbox` is the same file, updated in one step here: its interleavings are
`EventDelivery`'s. `serving`, `cursor`, `inFlight` and `sentIds` are the locals of
`serve_event_stream`; a tick is `PushPage` or `PushHeartbeat`, and `HandleAck`,
`HandleClose` and `Refuse` are what the other branch of its `select!` does with a
request. The connection is `requests` in one direction and `frames` in the
other, with room for `FrameBuffer` frames before a write waits. The
Controller is at `pc`: it takes a page from `pending` or the connection
(`ReadFrame`), persists it, acknowledges it and waits. Whatever else arrives
meanwhile is put `aside` and becomes `pending` with the answer. Other passes, which persist
a page (`OtherPersists`) and acknowledge some of what is in the catalog (`OtherAcks`), and the
connector (`Queue`) work on the outbox at the same time. The mapping to `AtLeastOnceLog` is that of
`EventDelivery`; `evicted` is what the queue dropped. A page the Controller
persists need not be in the outbox any more, nor acknowledged events: `Deliver` asks only that
they were emitted, `Acknowledge` that they were delivered.

### `AgentAccess`

A process is one of the `Agents`: the resident one, or the child of an
invocation, with its `AgentAuth` (bootstrap token, enrolled credential, pairing
code) in `agent[a]`. `socket` is the process that bound the path last: an Agent
that starts removes the file it finds and binds it again, so an invocation
may reach another Agent than the one it started. `inv[c]` walks through
starting a child, connecting with retries, the requests of `enroll` or of
`register_and_refresh`, keeping the credential, and killing the child. `Collectors`
are the invocations of `run-once` and the passes of `watch`, whose errors leave the function
before it reaches the kill (`End`). The Agent compares the pairing code under one
lock (`CheckCode`) and mints under the next (`Mint`), so two enrollments with one
code may both be in between; `crossed` remembers those whose code another one
spent meanwhile.
`store` is the secret store per host; `Resolved` is the rule by which the default
token stands for the stored credential. `Deployments` are the ways the parts are
installed: on one machine or two, started with the default token or another,
of one release line or two.

### `CodexTurns`

Every use of the client has an app-server of its own: `stdin` and `stdout` are
its pipes, `queued` the messages a request read while it waited for its answer. For an
ask of the desktop, `registry`, `cancel` and `unseen` are the registry of running
turns and the watch channel of its cancellation. `LoopTop`, `SeeCancellation`
and `TurnMessageSeen` are the turns of the loop, whose `select!` takes either
branch when both are ready. The app-server is external and promises only
what the client relies on: it answers, a turn sends messages and may complete
by itself, and it exits when its input closes, or at any time as a fault.

### `CatalogStore`

`schema` is the catalog's file, tables, recorded versions and columns. Opening
is `BeginOpen` (does the file exist), `Prepare` (create it), `Check` (does it
need a migration), `BackUp`, and then one step per statement of `migrate`, which uses no
transaction: `CreateTable`, `FirstVersion`, `ReadColumns`, `Alter`,
`RecordVersion`. `Legacy` holds the schemas older releases left behind. The
operations on saved searches, aliases, tags and links look something up in one statement
and insert in the next (what is read before the first insert is one step); `rows` holds
what they touch, with the foreign keys and the cascades of the schema. A link is
of a kind, and two artifacts may have one of each.

### `Discovery`

A file is its stamp, new with every write and kept by a rename; `file` says what
is at each place. A pass takes the cursor directory by directory (`LookOn`) and file by
file (`LookAt`), compares it (`AnswerKept`, `GoOn`), lists one directory after another
(`List`) and reads each file, in whatever order the file system gives them, for its
artifact (`ReadArtifact`) and once more for its record or its sessions (`ReadRecord`,
`ReadSessions`); the adapters of other products list everything and read each file once
(`ReadCandidate`). `Write`, `Delete` and `Move` happen in
between. A file that is expected by name may be a symbolic link (`Linked`): it is read
like the others, but the cursor does not count it. What the cursor cannot read it
leaves out (`LookMisses`), as if it were not there. `kept` is the collection with its cursor, as the Agent's cache and the
Controller's catalog hold it when nothing fails: `Collection` has the two apart,
and all failures of their files. Two writes always differ in length or time here;
files that have an artifact only, the fallback from the session index to the history, and
index entries with a path of their own are left out.

## 3. The runs

| Run | Configuration | Shows |
|---|---|---|
| `event_delivery` | `EventDelivery.cfg` | no event is lost that newer ones did not push out; the protocol implements the log |
| `event_delivery_live` | `EventDeliveryLive.cfg` | every event reaches the catalog or is pushed out; no older snapshot returns to the session row, whatever is projected and ingested |
| `event_stream` | `EventStream.cfg` | pages are handled in order, within the window and without repetition; no event leaves the outbox unpersisted; stream, other passes, connector and catalog together implement the log; what stays queued is streamed |
| `change_control` | `ChangeControl.cfg` | an approval is used once; writes replace what they expect and can be taken back, unless the document changes under the Agent's hands; audit events are true; all of it implements documents that are compared and swapped under grants |
| `change_control_ends` | `ChangeControlEnds.cfg` | every invocation ends; while nothing fails the status tells which operation wrote last |
| `collection` | `Collection.cfg` | the cursor is backed by what was ingested; forgotten contents stay away; a collection is not older than its question; the record returns to the current version again and again |
| `discovery` | `Discovery.cfg` | untouched files are collected exactly; the kept collection is exact as long as the files have its cursor; it becomes exact when the files come to rest, each for the files the cursor counts |
| `profile_ignored` | `DiscoveryProfiles.cfg` | *counterexample*: a changed profile is never collected again |
| `projections` | `Projections.cfg` | what is in the catalog can be found; a rebuild that worked alone is exact; an answer cites only what was there since the question |
| `catalog_store` | `CatalogStore.cfg` | processes that migrate one catalog at a time leave its schema complete and its old state in a backup; annotations hold; the catalog opens again |
| `agent_access` | `AgentAccess.cfg` | the credential that is kept is accepted, unless two enrollments with one code crossed; every invocation ends and takes its child with it, unless it was killed or is a collection that failed |
| `codex_turns` | `CodexTurns.cfg` | messages are handled once and in order; failures have a reason; a cancelled ask and every read end |

Run one with `tlc -config EventDelivery.cfg MCEventDelivery.tla`, in general with
the MC module of the component. None takes more than a few minutes.

### Bounds, and why they are enough

* `EventDelivery.cfg`: one Agent (the properties are stated for one), two
  sessions, one thread with one snapshot, two notices, an outbox of two and
  pages of two. Three events against a queue of two make eviction happen with every
  combination of queued, persisted and acknowledged events; two sessions are the least with
  which a late acknowledgement of one meets the page of the other. One fault can
  strike at each step.
* `EventDeliveryLive.cfg`: two snapshots, so that the row can go back to an
  older one, and pages of one event, so that delivery takes several passes; one of
  them has no title, and the thread is one the files name too. The notices add nothing to
  convergence.
* `ChangeControl.cfg`: one file, two contents and absence, one change set, two
  approvals, two Controllers, one connection that repeats a request, one edit
  and one fault. Two approvals of a change set give apply against apply and
  apply against rollback, with every order of their steps; `ReplayCap` is their
  number, as 4096 is more than the approvals alive at a time.
* `ChangeControlEnds.cfg`: a file and a thread, so that both kinds of operation and
  the refusal of a rollback of a thread take part; `StatusTells` is about one
  process at a time, so there is one Controller.
* `Collection.cfg`: one session and three versions of one content or its
  absence, one more than the outbox holds, so that the oldest batch falls out and
  replays of older ones compete with each collection; one fault, and one
  failed write the Agent ignores. With two sessions the outbox file loses updates;
  `CursorBacked` and `TombstonesHold` are theorems for any number of sessions.
* `EventStream.cfg`: a recurring event and two others against a queue of two, a window of
  two, a connection of one frame, one heartbeat, one fault: pages of one
  and two events, a full window, a page that crosses an acknowledgement, and an
  event that is queued again after it was acknowledged or pushed out. A second stream starts
  from the state the first leaves, where only the outbox and the catalog are
  not as at the beginning. With one frame a page and an answer are never in the
  connection at once, only one behind the other; the theorems hold for every `FrameBuffer`.
* `AgentAccess.cfg`: two commands, one of them a collection, and two enrollments, of which
  a deployment has two invocations; the resident started twice, one fault, and six
  deployments: a local Agent of another release with either command and an enrollment,
  a remote one of either release with two enrollments, or with the collection and an
  enrollment and with the default token or another. Two children and the resident can
  take the socket from each other; two enrollments can name one code, cross, and
  one fail after the other.
* `CodexTurns.cfg`: two asks that name the same id, one read, a turn of at most
  one message before it completes, one failure.
* `CatalogStore.cfg`: two processes, three tables, two added columns, three
  versions, no catalog or one of two older ones (before versions were
  recorded, and at version 2 with one of the columns), two operations of any kind, one
  failure. Two processes are the least that can collide on a statement, two operations the
  least that can meet between a look-up and its insert.
* `Discovery.cfg`: a configuration file and a linked instruction file that are not there at
  the start, a profile, the index and one session it lists, a file of another product; two
  writes, removals or moves and one failed read, by the cursor or by the discovery. A session has up to three tellers, and two moves can hide it
  from a pass, or show it twice; with two writes a file comes and goes during one
  collection.
* `Projections.cfg`: two artifacts and chunks of one, so that a rebuild has two
  chunks and a boundary; two rebuilds; one retrieval. The constraint `Apart`
  leaves out states in which a retrieval and a rebuild are both under way. Neither writes
  what the other writes, and a search of a half-filled table only finds less, which
  `Search` allows at any time. The theorems do without the constraint.

Symmetry is used in runs of safety properties only, over sets whose elements no
definition tells apart.

### Fairness

* `EventDelivery`: the connector polls for ever (`runtime_connector_loop`), a
  session starts pass after pass (`watch`), a task that holds the mutex goes on.
  Taking the mutex gets strong fairness: the tasks that compete for it sleep or
  wait for a peer between two uses, so it is free again and again, and a task
  that waits is woken. There is no fairness for changes of threads, notices,
  faults or disconnections, and an event may be pushed out before any session comes.
* `ChangeControl`: a process that was started goes on, and so does each task of
  the Agent; a request in a socket is read by its task. Nothing retries.
* `Collection`: `watch` begins one pass after another and the Agent works on
  what it was asked. The source need not change, nobody need notice, and nothing makes
  the Agent's writes succeed after they have failed once.
* `EventStream`: the ticks of the Agent come again and again, the Controller's loop
  goes on. Its `select!` picks at random among the branches that are ready, so a
  request that can be read at every turn is read: strong fairness. Nothing
  makes an event appear or the deadline of the Controller pass.
* `AgentAccess`: the runtime drives each invocation, and a child that was
  started gets to serve or is lost. Nobody need start the resident.
* `CodexTurns`: the client's task runs, the app-server answers requests and exits
  when its input ends. It need not complete a turn.
* `CatalogStore`: each process is opened again and again, by each command,
  refresh and request, and one that has begun a statement's sequence goes on.
* `Discovery`: `watch` collects for each provider again and again and each pass goes
  on. Nobody need touch a file, and the liveness property speaks of the time after they stopped.

## 4. What is proved

Theorems hold for every value of the constants that meets the assumptions named
in the modules (sets that do not overlap, positive capacities). Assumptions
beyond those are part of the theorem.

| Theorem | Assumes | States |
|---|---|---|
| `EventDeliveryProofs!TypeCorrect` | | `TypeOK` |
| `DeliveryAtLeastOnce`, `AcksArePersisted`, `QueueBounded`, `NothingLost` | one Agent process | `AtLeastOnce`, `AckOnlyPersisted`, `OutboxBounded`, `NothingLostSilently` |
| `Refinement` | one Agent process | `ImplementsLog` |
| `ChangeControlProofs!TypeCorrect` | | `TypeOK` |
| `UsedOnce`, `CanBeReversed`, `AuditsTruthful`, `SwapsExpected` | no more approvals than `ReplayCap` | `ApprovalUsedOnce`, `Reversible`, `AuditTruthful`, `ReplacesExpected` |
| `DocumentsRefinement` | no more approvals than `ReplayCap` | `ImplementsDocuments` |
| `StatusIsTold` | one Controller process, no request repeated | `StatusTells` |
| `CollectionProofs!TypeCorrect`, `CursorIsBacked`, `TombstonesAreKept` | | `TypeOK`, `CursorBacked`, `TombstonesHold` |
| `CollectionIsFresh` | one Controller process | `LiveIsFresh` |
| `DiscoveryTypeCorrect`, `KeptIsExactAlways`, `UntouchedIsReported` | | `DiscoveryTypeOK`, `ExactWhileCursorHolds`, `UntouchedReported` |
| `ProjectionsProofs!TypeCorrect`, `EverythingSearchable`, `QuietRebuildExact` | | `TypeOK`, `Searchable`, `RebuildExact` |
| `AnswersFromCatalog` | one retrieval at a time | `CitesKnown` |
| `CatalogStoreProofs!TypeCorrect`, `MigrationComplete`, `BackupComesFirst`, `AnnotationsConsistent` | | `TypeOK`, `SchemaComplete`, `LegacyKept`, `AnnotationsHold` |
| `EventStreamProofs!TypeCorrect`, `NothingLost`, `PagesInSequence`, `WindowKept` | | `TypeOK`, `NothingLostSilently`, `FramesInOrder`, `WindowHolds` |
| `StreamRefinement` | | `ImplementsLog` |
| `AgentAccessProofs!TypeCorrect`, `KeptCredentialOpens` | | `TypeOK`, `KeptIsAccepted` |
| `TurnsTypeCorrect`, `MessagesStayInOrder`, `FailuresExplained` | | `TurnsTypeOK`, `MessagesInOrder`, `FailureExplained` |

The assumptions are where the code stops keeping its promise, as the
counterexamples of section 5 show: two Agents, two Controllers, two retrievals (each writes the whole chunk table back).

**Event delivery.** `AtLeastOnce` is not inductive: an acknowledgement of
something the catalog lacks would break it, and so would an update computed from a
queue that is no longer the file's. The invariant `IInv` adds `AckOnlyPersisted`
(every acknowledgement, sent, late or in progress, names persisted events),
`NoStaleUpdate` (what an Agent loaded under its mutex is still in the file, the
fact that a second Agent destroys) and `OnlyEmitted`. What `Appended` and
`Without` return is proved in `RuntimeOutboxProofs` from the positions they keep:
lengths, members, order, absence of duplicates. The refinement follows from the
same invariant, one step of the log for each action that writes file or
catalog.

**Change control.** `UsedOnce` needs that the replay store holds each approval that
reached the provider (`UseRecorded`), which in turn needs that the store never drops
one: hence the bound on approvals. `CanBeReversed` and `SwapsExpected` rest on
`WindowOK`: between comparison and rename the document is what was compared,
unless the change set is in `raced`; and on `BackupOK`: a backup that exists is the
content before. `AuditsTruthful` rests on `TasksOK` and `ReceiptsOK`: one
task works under an approval, and a receipt that says Conflict belongs to an approval whose
only use is over. `StatusIsTold` has an invariant of its own, `StatusInv`: with one process
there is one task at most, and it works for what the process waits for (`OneAtATime`), so the
outcome in its hands names the last write (`StatusHolds`). It claims nothing from the first
fault on, as the property does.

`DocumentsRefinement` needs besides that an approval stands for one request (`GrantsOK`): its
process sends it once, whatever reaches the Agent is one that was sent (`TaskGrants`), and a
receipt of success says what its process asked for (`ProcessGrants`), because the task and the process
at the two ends of a connection have the same approval. Then `Write` is `Swap`: the request is
outstanding by `TasksOK` and `ReceiptsOK`, and the document is what it expects by `WindowOK`. The
tasks a write or an edit exposes have outstanding requests of their own (`ExposedGrants`).
`RecordAudit` is `Record` by `ReceiptsOK`. All other steps leave the documents alone.

**Collection.** `CursorBacked` spreads over everything a cursor travels through:
batches in the cache, the outbox, a replay, an answer. `CursorsHonest` says of
each that its cursor is not newer than its version, because `Look` comes before
`Discover`. `LiveIsFresh` needs `CacheFresh`: whatever cursor the catalog can hold, the
cache is at least as new. A single session makes the cache grow only newer.

**Discovery.** A file's stamp is new with each write, so what is true of a stamp stays true until the
stamp is gone, and a gone stamp does not come back (`Lost`) except with the file
that was moved. `PassHolds` says of the pass under way where it has been (`Been`) and that what it
has there is good: of the stamp the file has (`Faithful`), and all of it (`Complete`),
for the places nobody touched (`UntouchedGood`) and for those in its cursor, as long as their stamp
is there (`CursorGood`). `KeptHolds` is the latter for the kept collection, for the rows it
was made from: which of several rows of a session is kept follows from them only. The attempt
at this proof showed that an earlier `ExactWhileCursorHolds`, which TLC had not refuted on
its instance, does not hold: a file that comes after the cursor was taken is
collected, and nothing in the cursor tells when it is gone. The property leaves these files out
(`Came`), and with them those the cursor could not read; `DiscoveryGone.cfg` shows the
behaviour. Linked files are not among those that count (`Counted`), and sessions whose
index is one are left out with it.

**Projections.** `Searchable` needs `Filling`: while a rebuild that emptied the
table is under way, each artifact has its row, or is in the chunk in hand, or
is still ahead. `RebuildExact` needs `ExactInv`, the same with equality, for a rebuild nobody
disturbed. `CitesKnown` needs what a retrieval holds at each phase.

**Opening the catalog.** `SchemaComplete` speaks of what was recorded and of who has the
catalog open; a process in the middle of a migration is neither. `SchemaInv` adds,
for each phase of `migrate`, how far the schema has come when a process is in it
(`Reached`): a statement that finds its table or column there already may rely on
nobody ever taking one away. `LegacyKept` needs `Untouched`: as long as there is no
backup of an older catalog, no process is past the phase that takes it. For
`AnnotationsHold` the lookup and the insert are apart: `Claims` says that no id is
claimed for two names, by the rows and the inserts still waiting together; that no
name gets two ids is left to the insert itself, which keeps the row it finds.

**The stream.** Most of the work is in `Protocol`: one request is unread at most, its
answer comes behind every page pushed before it, nothing but pages and heartbeats
is put aside, and what a request in `acking` names is the page in hand. From it
follows what a step does to the pages (`PagesStay`, `PagePushed`, `PageTaken`):
the unread ones, put aside, pending and in the connection, always continue the handled ones, the
invariant `InOrder`. That `PagesIn` of a concatenation is the concatenation of the
pages is proved from the positions (`PagesInConcat`). `NothingLostSilently` needs `Backed`:
an acknowledgement names persisted events only. `WindowHolds` needs `SentOnce`:
since an acknowledged page and an unread one are two pages of `sent`, they have
no event in common, and the acknowledgement leaves the unread one in flight. `StreamRefinement` adds
`Accepted`: what the outbox holds and what a page names was emitted. The page in hand is a page
that was sent, by `InOrder`, so what the Controller persists was emitted; what an
acknowledgement takes out was delivered (`AckBacked`).

**Credentials.** `KeptIsAccepted` would fail if an enrollment could replace the
credential of another and then fail to store its own. Nothing prevents that when both
stand between the comparison of their code and the new credential: `crossed` has
those that stood there when another one minted, and the property leaves out the time in
which the Agent has a credential of theirs. `Kept` says why it cannot happen otherwise. Every enrollment names a code (`CodesNamed`), an
Agent that has a credential has spent its code, and whoever still stands between is
crossed (`CodeSpent`); what is stored is the Agent's credential or
its token (`StoreKnown`). A restart hangs up every connection (`Connections`) and takes
the stored credential as its token.

**The turns.** `UseHolds` follows one request at a time (`Exchange`: in the pipe, or its answer
on the way back, and never both), how far the turn is when it is answered
(`TurnStarts`), and why it may be refused while nothing fails (`Reasons`): the turn has completed.
`MessagesInOrder` is about a concatenation; `Parts` has it in the three pieces, each
increasing and below the next, that reading a message moves from one to the other.
`FailureExplained` follows from `Reasons` and `AskHolds`: an interrupt is sent only for a
cancellation, and a recorded session has its result.

The type invariants that no run names, `AckOnlyPersisted` and `OutboxBounded` are theorems; they need no
run of their own.

What stays with TLC: the liveness properties, since the prover has no reasoning
about fairness and `ENABLED` (`EventuallyDelivered`, `RowsConverge`, `InvocationEnds` of
`ChangeControl` and of `AgentAccess`, `CatchesUp`, `EventuallyStreamed`, `EventuallyOpens`,
`EventuallyExact`, `UsesEnd`), and the counterexamples. Every safety property that a
run checks is a theorem.

## 5. Findings

**Profiles are not in the cursor** (`profile_ignored`). A discovery collects the
root-level `*.config.toml` profiles of the Codex home as configuration layers
(`README.md` 15), and "source changes trigger a fresh scan" (`README.md` 213).
`is_cursor_file` (`crates/amcp-codex/src/lib.rs` 1838) does not name them: a profile
that is changed, added or removed leaves the cursor as it is, and the kept
collection is answered, with the old profile, until another file changes.

Further counterexamples can be run by hand, each with the MC module of its
component (`EventStream`, `CodexTurns` and `Collection` have none). Those in the first part
are at odds with what a document of the repository says:

| Configuration | Property | Shows |
|---|---|---|
| `EventDeliveryTwoAgents.cfg` | `AtLeastOnce` | the outbox mutex is a static of one process; two Agents on one state directory read, change and rename over each other, and an event is lost (`HLD` 657: "Events are at-least-once.") |
| `ChangeControlBackup.cfg` | `AlwaysReversible` | the backup is named by the change set alone; of two approvals served at the same time both pass the comparison, and the later copy is of what the first one wrote (`HLD` 31: "Make all writes [...] reversible where technically possible.") |
| `CollectionStaleCache.cfg` | `LiveIsFresh` | the cache is overwritten whatever its age; after two concurrent discoveries the next collection may serve the older contents under the new cursor (`README.md` 213) |
| `CollectionForget.cfg` | `ForgottenStaysGone` | a tombstone names one source hash; the record returns in the older version that a batch of the outbox holds (`README.md` 236) |
| `ProjectionsForgotten.cfg` | `ForgottenErased` | a rebuild inserts the row of what was forgotten since it read it, and so does a retrieval with the chunk table (`README.md` 236) |
| `DiscoveryLinked.cfg` | `LinksFollowed` | the walk of the cursor does not follow symbolic links and counts regular files only (`crates/amcp-codex/src/lib.rs` 1166, 1171), while a discovery reads `config.toml` and `AGENTS.md` through a link (557): a changed link is never collected again (`README.md` 213) |
| `AgentAccessCrossed.cfg` | `CodeUsedOnce` | the pairing code is compared under one lock and spent under the next; two enrollments that cross there get a credential each for one code, and only the later credential is accepted (`README.md` 44, 331, 361: "one-time") |
| `AgentAccessStops.cfg` | `EnrollmentStopsAgent` | the enrollment reached another Agent than its child, which goes on (`README.md` 363: "The temporary Agent is stopped by a successful enrollment.") |

For the others no document is contradicted, or its reading is open:

| Configuration | Property | Shows |
|---|---|---|
| `EventDeliveryManyThreads.cfg` | `EveryThreadDelivered` | with more threads than the outbox holds, each poll pushes out its own first events, and those threads may never be delivered |
| `EventStreamOvertaken.cfg` | `EveryEventStreamed` | the event of the cursor is queued again behind another; the page starts after it and the other one waits for ever |
| `ChangeControlRace.cfg` | `NeverOverwritesOthers` | an edit between comparison and rename is overwritten |
| `ChangeControlAudit.cfg` | `WritesAudited` | a lost answer leaves a write without an audit event |
| `CollectionReplay.cfg` | `ReplayIdempotent` | a replay takes the record back to an older version, until the pass has collected |
| `AgentAccessOrphan.cfg` | `NothingLeftBehind` | an error returns from `run_once` before the kill (`crates/amcp-controller/src/main.rs` 1075, 1078), and the child Agent goes on serving the socket |
| `AgentAccessReach.cfg` | `ResidentReachable` | a child took the socket of the resident Agent and left the file behind: the resident serves and cannot be reached until it starts again |
| `CodexTurnsCompleted.cfg` | `CompletedTurnRecorded` | a turn completes while its cancellation is on the way: the interrupt is refused and the answer is not recorded |
| `CodexTurnsRegistered.cfg` | `ActiveTurnRegistered` | an ask that is refused as a duplicate has already replaced the entry of the running turn, and removes it: that turn can no longer be cancelled |
| `DiscoveryMissed.cfg` | `NoSessionMissed` | a session that is unarchived during a pass, behind it, and archived again later is missing as long as the cursor holds |
| `DiscoveryGone.cfg` | `NothingOutlivesItsFile` | a file that came after the cursor was taken, was collected, and is gone again is shown as long as the cursor holds |
| `DiscoveryUnread.cfg` | `EveryRecordInTheEnd` | a second read that fails leaves the record out without a word, and the collection is kept and answered for ever |

## 6. What is not modelled

* Parsing, redaction, normalisation, ranking, embedding, exports, reports and
  the user interfaces: functions of text without shared state.
* Frames and serialisation; the models exchange decoded values.
* SQLite itself. A transaction is one step; that a crash leaves all or nothing of
  it is assumed.
* In `Collection`, several sources and roots: each has records of its own, and the
  cursor hashes all of them together, as one source's does there. `Discovery` has
  them apart.
* In `Discovery`, the projects found in the sessions, the edges between guidance files,
  two writes with the same length and modification time, and links that are made or
  replaced: a place is a link or is not.
* In `AgentAccess`, clients other than the Controller. Its `enroll` always names a code; a
  client that names none would pass the comparison once the code is spent, until it
  expires.
* What becomes of the artifact of a replaced content in the catalog: it stays as it
  was, and no document says what it should be.
* Several Agents in `ChangeControl` and `Collection`. What the second process
  does to a file that is read whole and renamed is what it does to the event
  outbox, which `EventDelivery` shows.
* Change sets of several operations: the type allows them, no code builds them.
* The backoff of the connector, and the coalescing and the fingerprint of the watcher: a
  notice comes at any time in `EventDelivery` and `Collection`, and no property
  depends on its coming, because every pass collects anyway.
* Diagnostics, collection metrics and search telemetry: they are written beside the
  work and read by nobody but a report.

## 7. Plan

The components that keep state are modelled. What would add most, in this order:

1. `Watcher` (`crates/amcp-agent/src/main.rs` 229-331): bursts, the trailing edge
   and the fingerprint, with the stale marks that a suppressed notice does not set.
2. A further abstract specification: a register with monotonic reads that `Collection`
   implements for one session.
3. Two Agents in `ChangeControl`, whose replay stores are renamed over each other.
