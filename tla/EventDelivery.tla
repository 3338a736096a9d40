--------------------------- MODULE EventDelivery ---------------------------
(***************************************************************************)
(* How a runtime event travels from an Agent to the Controller's catalog.  *)
(*                                                                         *)
(* An Agent process queues events in a file of its state directory: the    *)
(* runtime connector queues one session event per thread that the Codex    *)
(* app-server lists (its id is a hash of the thread's snapshot), and the   *)
(* watcher and the collector queue notices (their ids are random).  A      *)
(* Controller session asks an Agent for a page of the queue, persists it   *)
(* in one SQLite transaction, and only then acknowledges the ids, which    *)
(* the Agent removes from the file.  Then it collects the provider's files *)
(* and ingests the batches: the second writer of the catalog's sessions    *)
(* table, beside the projection of session events.                         *)
(*                                                                         *)
(* Every write of the file is a read of the whole queue followed by a      *)
(* rename, made under a mutex of the Agent process; readers take no lock.  *)
(* Agents is the set of Agent processes that share one state directory.    *)
(***************************************************************************)
EXTENDS RuntimeOutbox

CONSTANTS
  Agents,       \* Agent processes on one state directory
  NoAgent,      \* no connection
  Sessions,     \* Controller passes (run-once, one round of watch)
  Threads,      \* Codex threads the app-server lists
  Snapshots,    \* contents a thread's metadata can have
  Untitled,     \* snapshots without a title, working directory or model
  NoSnapshot,   \* NULL, or no row for the thread
  Filed,        \* threads whose session the files of the provider name too
  FromFile,     \* what a collection writes of such a session
  Notices,      \* events with a random id: watcher, inventory, diagnostics
  PageLimit,    \* events per SubscribeEvents page, 256 in run_once
  MaxFaults     \* bound on crashes, disconnections and failed writes

ASSUME ConstantsAssumption ==
  /\ NoAgent \notin Agents
  /\ NoSnapshot \notin Snapshots
  /\ Untitled \subseteq Snapshots
  /\ Filed \subseteq Threads
  /\ FromFile \notin Snapshots
  /\ Notices \cap (Threads \X Snapshots) = {}
  /\ PageLimit \in Nat \ {0}
  /\ MaxFaults \in Nat

SessionEvents(t) == {<<t, sn>> : sn \in Snapshots}
Event == Notices \cup UNION {SessionEvents(t) : t \in Threads}

VARIABLES
  thread,     \* [Threads -> Snapshots], what the app-server would answer now
  outbox,     \* the queue in runtime-events-outbox.json
  polled,     \* per Agent, the session events of the poll in progress
  work,       \* per Agent, the outbox update made under its mutex
  conn,       \* per session, the Agent at the other end
  phase,      \* per session, how far its pass has come
  page,       \* per session, the page it works on
  acks,       \* AckEvents requests no Agent has read yet
  persisted,  \* event ids in the catalog's runtime_events
  row,        \* per thread, where the columns of its sessions row come from
  emitted,    \* history: the events ever written to the outbox
  evicted,    \* history: the events ever dropped because the outbox was full
  faults      \* history: crashes, disconnections and failed writes so far

agentVars   == <<outbox, polled, work>>
sessionVars == <<conn, phase, page>>
catalogVars == <<persisted, row>>
history     == <<emitted, evicted>>
vars == <<thread, agentVars, sessionVars, acks, catalogVars, history, faults>>

Idle == [op |-> "idle", events |-> << >>, loaded |-> << >>, from |-> {}]

Work == [op     : {"idle", "poll", "notice", "ack"},
         events : Seq(Event),     \* what to append, or what to remove
         loaded : Seq(Event),     \* the queue read from the file
         from   : SUBSET Sessions]

(* title stands for the columns an event only sets when it has a value for *)
(* them (title, cwd, model), rest for those it always sets (archived,      *)
(* source_reference, source_hash, metadata_json).                          *)
Column == Snapshots \cup {NoSnapshot, FromFile}
Row == [title : Column, rest : Column]

Ack == [from : Sessions, agent : Agents, page : Seq(Event)]

TypeOK ==
  /\ thread \in [Threads -> Snapshots]
  /\ outbox \in Seq(Event)
  /\ polled \in [Agents -> Seq(Event)]
  /\ work \in [Agents -> Work]
  /\ conn \in [Sessions -> Agents \cup {NoAgent}]
  /\ phase \in [Sessions -> {"idle", "fetched", "persisted", "acking"}]
  /\ page \in [Sessions -> Seq(Event)]
  /\ acks \in SUBSET Ack
  /\ persisted \in SUBSET Event
  /\ row \in [Threads -> Row]
  /\ emitted \in SUBSET Event
  /\ evicted \in SUBSET Event
  /\ faults \in 0..MaxFaults

Init ==
  /\ thread \in [Threads -> Snapshots]
  /\ outbox = << >>
  /\ polled = [a \in Agents |-> << >>]
  /\ work = [a \in Agents |-> Idle]
  /\ conn = [s \in Sessions |-> NoAgent]
  /\ phase = [s \in Sessions |-> "idle"]
  /\ page = [s \in Sessions |-> << >>]
  /\ acks = {}
  /\ persisted = {}
  /\ row = [t \in Threads |-> [title |-> NoSnapshot, rest |-> NoSnapshot]]
  /\ emitted = {}
  /\ evicted = {}
  /\ faults = 0
-----------------------------------------------------------------------------
(* The environment: Codex changes a thread.                                *)
ThreadChanges(t, sn) ==
  /\ thread[t] # sn
  /\ thread' = [thread EXCEPT ![t] = sn]
  /\ UNCHANGED <<agentVars, sessionVars, acks, catalogVars, history, faults>>

(* The mutex of the Agent process is free: take it and read the file.      *)
Load(a, op, events, from) ==
  /\ work[a].op = "idle"
  /\ work' = [work EXCEPT ![a] = [op |-> op, events |-> events,
                                  loaded |-> outbox, from |-> from]]

(* One page of thread/list; pages are separate requests, so the threads of *)
(* one poll are read at different times.                                   *)
Listed(a) == {t \in Threads : Range(polled[a]) \cap SessionEvents(t) # {}}

PollThread(a, t) ==
  /\ work[a].op # "poll"
  /\ t \notin Listed(a)
  /\ polled' = [polled EXCEPT ![a] = Append(@, <<t, thread[t]>>)]
  /\ UNCHANGED <<thread, outbox, work, sessionVars, acks, catalogVars, history, faults>>

BeginPollAppend(a) ==
  /\ Listed(a) = Threads
  /\ polled[a] # << >>
  /\ Load(a, "poll", polled[a], {})
  /\ UNCHANGED <<thread, outbox, polled, sessionVars, acks, catalogVars, history, faults>>

BeginNoticeAppend(a, n) ==
  /\ n \notin emitted
  /\ \A b \in Agents : n \notin Range(work[b].events)
  /\ Load(a, "notice", <<n>>, {})
  /\ UNCHANGED <<thread, outbox, polled, sessionVars, acks, catalogVars, history, faults>>

BeginAck(a, m) ==
  /\ m \in acks
  /\ m.agent = a
  /\ Load(a, "ack", m.page, {m.from})
  /\ acks' = acks \ {m}
  /\ UNCHANGED <<thread, outbox, polled, sessionVars, catalogVars, history, faults>>

(* Rename the new queue into place and release the mutex.                  *)
Release(a) ==
  /\ work' = [work EXCEPT ![a] = Idle]
  /\ polled' = IF work[a].op = "poll" THEN [polled EXCEPT ![a] = << >>] ELSE polled

StoreAppend(a) ==
  LET w == work[a] IN
  /\ w.op \in {"poll", "notice"}
  /\ outbox' = Appended(w.loaded, w.events)
  /\ emitted' = emitted \cup Range(w.events)
  /\ evicted' = evicted \cup ((Range(w.loaded) \cup Range(w.events)) \ Range(outbox'))
  /\ Release(a)
  /\ UNCHANGED <<thread, sessionVars, acks, catalogVars, faults>>

(* Nothing is written when the queue holds none of the ids.                *)
StoreAck(a) ==
  LET w == work[a]
      q == Without(w.loaded, Range(w.events)) IN
  /\ w.op = "ack"
  /\ outbox' = IF Len(q) = Len(w.loaded) THEN outbox ELSE q
  /\ Release(a)
  /\ UNCHANGED <<thread, sessionVars, acks, catalogVars, history, faults>>
-----------------------------------------------------------------------------
(* A Controller pass: subscribe from the front, persist, acknowledge.  An  *)
(* empty page leaves nothing to do.                                        *)
Subscribe(s, a) ==
  /\ phase[s] = "idle"
  /\ outbox # << >>
  /\ conn' = [conn EXCEPT ![s] = a]
  /\ page' = [page EXCEPT ![s] = EventPage(outbox, 1, PageLimit)]
  /\ phase' = [phase EXCEPT ![s] = "fetched"]
  /\ UNCHANGED <<thread, agentVars, acks, catalogVars, history, faults>>

(* The last snapshot among S that the page has of the thread, else old.    *)
About(p, t, S) == {i \in DOMAIN p : p[i] \in {t} \X S}
Latest(p, t, S, old) ==
  IF About(p, t, S) = {} THEN old
  ELSE p[CHOOSE i \in About(p, t, S) : \A j \in About(p, t, S) : j <= i][2]

(* Event after event, a value the event lacks leaves its column alone.     *)
Projected(r, p) ==
  [t \in Threads |-> [title |-> Latest(p, t, Snapshots \ Untitled, r[t].title),
                       rest  |-> Latest(p, t, Snapshots, r[t].rest)]]

(* Bug: project only the events that were not in the catalog.              *)
PersistProjectingNew(s) ==
  /\ phase[s] = "fetched"
  /\ persisted' = persisted \cup Range(page[s])
  /\ row' = Projected(row, Without(page[s], persisted))
  /\ phase' = [phase EXCEPT ![s] = "persisted"]
  /\ UNCHANGED <<thread, agentVars, conn, page, acks, history, faults>>

(* One transaction: INSERT OR IGNORE every event, and project every        *)
(* session event, also one that is already there.                          *)
Persist(s) ==
  /\ phase[s] = "fetched"
  /\ persisted' = persisted \cup Range(page[s])
  /\ row' = Projected(row, page[s])
  /\ phase' = [phase EXCEPT ![s] = "persisted"]
  /\ UNCHANGED <<thread, agentVars, conn, page, acks, history, faults>>

EndPass(s) ==
  /\ phase' = [phase EXCEPT ![s] = "idle"]
  /\ conn' = [conn EXCEPT ![s] = NoAgent]
  /\ page' = [page EXCEPT ![s] = << >>]

SendAck(s) ==
  /\ phase[s] = "persisted"
  /\ conn[s] # NoAgent
  /\ acks' = acks \cup {[from |-> s, agent |-> conn[s], page |-> page[s]]}
  /\ phase' = [phase EXCEPT ![s] = "acking"]
  /\ UNCHANGED <<thread, agentVars, conn, page, catalogVars, history, faults>>

(* The Agent answered; a connection it dropped fails the request instead,  *)
(* which the Controller logs before it goes on.                            *)
AckEnds(s) ==
  /\ \/ /\ phase[s] = "persisted"
        /\ conn[s] = NoAgent
     \/ /\ phase[s] = "acking"
        /\ \A m \in acks : m.from # s
        /\ \A a \in Agents : s \notin work[a].from
  /\ EndPass(s)
  /\ UNCHANGED <<thread, agentVars, acks, catalogVars, history, faults>>

(* The rest of the pass, also of one whose page was empty or refused: it   *)
(* ingests the batches it is replayed and the one it collects.  The upsert *)
(* of a session that a batch names sets every column, the missing ones to  *)
(* NULL.                                                                   *)
Ingest(s, named) ==
  /\ phase[s] = "idle"
  /\ row' = [t \in Threads |-> IF t \in named THEN [title |-> FromFile, rest |-> FromFile]
                               ELSE row[t]]
  /\ UNCHANGED <<thread, agentVars, sessionVars, acks, persisted, history, faults>>
-----------------------------------------------------------------------------
(* Faults.  A request the Controller gave up on may still be read.         *)
Fault == faults < MaxFaults /\ faults' = faults + 1

Disconnect(s) ==
  /\ Fault
  /\ phase[s] # "idle"
  /\ EndPass(s)
  /\ acks' \in {acks, {m \in acks : m.from # s}}
  /\ UNCHANGED <<thread, agentVars, catalogVars, history>>

(* A failed read, write or rename leaves the file as it was.               *)
StoreFails(a) ==
  /\ Fault
  /\ work[a].op # "idle"
  /\ Release(a)
  /\ UNCHANGED <<thread, outbox, sessionVars, acks, catalogVars, history>>

(* The app-server connection breaks: the connector drops what it listed.   *)
PollFails(a) ==
  /\ Fault
  /\ work[a].op # "poll"
  /\ polled[a] # << >>
  /\ polled' = [polled EXCEPT ![a] = << >>]
  /\ UNCHANGED <<thread, outbox, work, sessionVars, acks, catalogVars, history>>

(* Bug: the queue lives in memory and dies with the process.               *)
AgentCrashForgets(a) ==
  /\ Fault
  /\ outbox' = << >>
  /\ work' = [work EXCEPT ![a] = Idle]
  /\ polled' = [polled EXCEPT ![a] = << >>]
  /\ acks' = {m \in acks : m.agent # a}
  /\ conn' = [s \in Sessions |-> IF conn[s] = a THEN NoAgent ELSE conn[s]]
  /\ UNCHANGED <<thread, phase, page, catalogVars, history>>

(* The process dies and is started again; the file survives.               *)
AgentCrash(a) ==
  /\ Fault
  /\ work' = [work EXCEPT ![a] = Idle]
  /\ polled' = [polled EXCEPT ![a] = << >>]
  /\ acks' = {m \in acks : m.agent # a}
  /\ conn' = [s \in Sessions |-> IF conn[s] = a THEN NoAgent ELSE conn[s]]
  /\ UNCHANGED <<thread, outbox, phase, page, catalogVars, history>>
-----------------------------------------------------------------------------
Next ==
  \/ \E t \in Threads, sn \in Snapshots : ThreadChanges(t, sn)
  \/ \E a \in Agents :
       \/ \E t \in Threads : PollThread(a, t)
       \/ BeginPollAppend(a)
       \/ \E n \in Notices : BeginNoticeAppend(a, n)
       \/ \E m \in acks : BeginAck(a, m)
       \/ StoreAppend(a)
       \/ StoreAck(a)
       \/ StoreFails(a)
       \/ PollFails(a)
       \/ AgentCrash(a)
  \/ \E s \in Sessions :
       \/ \E a \in Agents : Subscribe(s, a)
       \/ Persist(s)
       \/ SendAck(s)
       \/ AckEnds(s)
       \/ \E named \in SUBSET Filed : Ingest(s, named)
       \/ Disconnect(s)

Spec == Init /\ [][Next]_vars

(* The connector polls forever, a session in watch starts one pass after   *)
(* the other, and every started step ends.  Taking the mutex competes with *)
(* the other tasks of the Agent, each of which sleeps between two uses, so *)
(* a waiting task gets it when it is free again and again: strong fairness.*)
Fairness ==
  /\ \A a \in Agents :
       /\ WF_vars(\E t \in Threads : PollThread(a, t))
       /\ SF_vars(BeginPollAppend(a))
       /\ \A s \in Sessions : SF_vars(\E m \in acks : m.from = s /\ BeginAck(a, m))
       /\ WF_vars(StoreAppend(a) \/ StoreAck(a))
  /\ \A s \in Sessions :
       /\ WF_vars(\E a \in Agents : Subscribe(s, a))
       /\ WF_vars(Persist(s) \/ SendAck(s) \/ AckEnds(s))

FairSpec == Spec /\ Fairness
-----------------------------------------------------------------------------
(* One process owns the state directory, as the LaunchAgent does.          *)
SingleAgent == \A a, b \in Agents : a = b

(* At-least-once: an event that reached the outbox is still queued there,  *)
(* or is in the catalog, or was pushed out by newer events.  Every event   *)
(* acknowledged was persisted before, whatever was lost on the way.        *)
AtLeastOnce == emitted \subseteq Range(outbox) \cup persisted \cup evicted

(* The outbox never exceeds its bound nor holds one id twice, so a page    *)
(* never repeats an event.                                                 *)
OutboxBounded == Len(outbox) <= OutboxCap /\ NoDuplicates(outbox)

(* What any acknowledgement names, sent, late or in progress, is in the    *)
(* catalog: a crash of either side between persisting and acknowledging    *)
(* costs a repetition, never an event.                                     *)
AckOnlyPersisted ==
  /\ \A s \in Sessions : phase[s] \in {"persisted", "acking"} => Range(page[s]) \subseteq persisted
  /\ \A m \in acks : Range(m.page) \subseteq persisted
  /\ \A a \in Agents : work[a].op = "ack" => Range(work[a].events) \subseteq persisted

(* A step removes an event that is not in the catalog only by filling the  *)
(* outbox with newer events.                                               *)
NothingLostSilently ==
  [][\A e \in Range(outbox) \ Range(outbox') :
       e \in persisted \/ Len(outbox') = OutboxCap]_vars

(* Every emitted event is eventually persisted or evicted.                 *)
EventuallyDelivered ==
  \A e \in Event : e \in emitted ~> e \in persisted \cup evicted

(* Once a thread stops changing, no older snapshot of it is put back,      *)
(* although sessions project repeated and late pages and a collection may  *)
(* write the row between any two of them: the row is the last snapshot's   *)
(* again and again, and otherwise only what a collection found in the      *)
(* thread's file.  A title that the last snapshot lacks may be an older    *)
(* one, which the projection keeps.                                        *)
RowsConverge ==
  \A t \in Threads, sn \in Snapshots :
    LET latest == {sn} \cup (IF t \in Filed THEN {FromFile} ELSE {})
    IN  <>[](thread[t] = sn) =>
          /\ <>[](row[t].rest \in latest /\ (sn \notin Untitled => row[t].title \in latest))
          /\ []<>(row[t].rest = sn)

(* Seen from outside, the protocol is a bounded at-least-once log: the file *)
(* holds what is kept for delivery, the catalog what was delivered.        *)
Log == INSTANCE AtLeastOnceLog WITH
         Bound <- OutboxCap, queued <- Range(outbox),
         delivered <- persisted, dropped <- evicted

ImplementsLog == Log!Spec

(* Every listed thread is delivered at least once.                         *)
EveryThreadDelivered == \A t \in Threads : <>(row[t].rest # NoSnapshot)
=============================================================================
