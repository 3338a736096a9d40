------------------------ MODULE EventDeliveryProofs ------------------------
(***************************************************************************)
(* Theorems about EventDelivery, for every set of sessions, threads,       *)
(* snapshots and notices, every bound of the outbox and of the pages, and  *)
(* any number of faults.                                                   *)
(***************************************************************************)
EXTENDS EventDelivery, RuntimeOutboxProofs

(* The last event of a page about a thread is one of its snapshots.        *)
LEMMA LatestType ==
  ASSUME NEW p \in Seq(Event), NEW t \in Threads, NEW S \in SUBSET Snapshots,
         NEW old \in Column
  PROVE  Latest(p, t, S, old) \in Column
<1> SUFFICES ASSUME About(p, t, S) # {}
             PROVE  p[CHOOSE i \in About(p, t, S) : \A j \in About(p, t, S) : j <= i][2] \in S
  BY DEF Latest, Column
<1>1. Len(p) \in Nat /\ DOMAIN p = 1..Len(p)
  BY LenProperties
<1>2. About(p, t, S) \in SUBSET (1..Len(p))
  BY <1>1 DEF About
<1>3. \E i \in About(p, t, S) : \A j \in About(p, t, S) : j <= i
  BY <1>1, <1>2, ExtremePositions
<1>4. \A i \in About(p, t, S) : p[i][2] \in S
  BY DEF About
<1> QED
  BY <1>3, <1>4

(* What the projection of a page computes is again a row per thread.       *)
LEMMA ProjectedType ==
  ASSUME NEW r \in [Threads -> Row], NEW p \in Seq(Event)
  PROVE  Projected(r, p) \in [Threads -> Row]
<1> SUFFICES ASSUME NEW t \in Threads
             PROVE  [title |-> Latest(p, t, Snapshots \ Untitled, r[t].title),
                     rest  |-> Latest(p, t, Snapshots, r[t].rest)] \in Row
  BY DEF Projected
<1>1. r[t].title \in Column /\ r[t].rest \in Column
  BY DEF Row
<1>2. Latest(p, t, Snapshots \ Untitled, r[t].title) \in Column
  <2>1. Snapshots \ Untitled \in SUBSET Snapshots
    OBVIOUS
  <2> QED
    BY <1>1, <2>1, LatestType
<1>3. Latest(p, t, Snapshots, r[t].rest) \in Column
  <2>1. Snapshots \in SUBSET Snapshots
    OBVIOUS
  <2> QED
    BY <1>1, <2>1, LatestType
<1> QED
  BY <1>2, <1>3 DEF Row

LEMMA SessionEventType ==
  \A t \in Threads, sn \in Snapshots : <<t, sn>> \in Event
BY DEF Event, SessionEvents

(* A step that stutters on everything.                                     *)
LEMMA TypeStutter == TypeOK /\ UNCHANGED vars => TypeOK'
BY DEF TypeOK, vars, agentVars, sessionVars, catalogVars, history

(* Reading the file under the mutex gives a well-typed piece of work.      *)
LEMMA LoadType ==
  ASSUME TypeOK, NEW a \in Agents, NEW op \in {"poll", "notice", "ack"},
         NEW events \in Seq(Event), NEW from \in SUBSET Sessions,
         Load(a, op, events, from)
  PROVE  work' \in [Agents -> Work]
<1>1. [op |-> op, events |-> events, loaded |-> outbox, from |-> from] \in Work
  BY DEF TypeOK, Work
<1> QED
  BY <1>1 DEF TypeOK, Load

LEMMA IdleType == Idle \in Work
<1>1. << >> \in Seq(Event)
  BY EmptySeq
<1> QED
  BY <1>1 DEF Idle, Work

LEMMA ReleaseType ==
  ASSUME TypeOK, NEW a \in Agents, Release(a)
  PROVE  work' \in [Agents -> Work] /\ polled' \in [Agents -> Seq(Event)]
<1>1. << >> \in Seq(Event)
  BY EmptySeq
<1> QED
  BY <1>1, IdleType DEF TypeOK, Release

LEMMA EndPassType ==
  ASSUME TypeOK, NEW s \in Sessions, EndPass(s)
  PROVE  /\ phase' \in [Sessions -> {"idle", "fetched", "persisted", "acking"}]
         /\ conn' \in [Sessions -> Agents \cup {NoAgent}]
         /\ page' \in [Sessions -> Seq(Event)]
<1>1. << >> \in Seq(Event)
  BY EmptySeq
<1> QED
  BY <1>1 DEF TypeOK, EndPass

LEMMA FaultType == TypeOK /\ Fault => faults' \in 0..MaxFaults
BY ConstantsAssumption DEF TypeOK, Fault

(* Every action keeps every variable in its type.                          *)
LEMMA TypeStep ==
  ASSUME TypeOK, Next
  PROVE  TypeOK'
<1> USE DEF agentVars, sessionVars, catalogVars, history
<1>1. ASSUME NEW t \in Threads, NEW sn \in Snapshots, ThreadChanges(t, sn)
      PROVE  TypeOK'
  BY <1>1 DEF TypeOK, ThreadChanges
<1>2. ASSUME NEW a \in Agents, NEW t \in Threads, PollThread(a, t)
      PROVE  TypeOK'
  <2>1. <<t, thread[t]>> \in Event
    BY SessionEventType DEF TypeOK
  <2>2. Append(polled[a], <<t, thread[t]>>) \in Seq(Event)
    BY <2>1, AppendProperties DEF TypeOK
  <2> QED
    BY <1>2, <2>2 DEF TypeOK, PollThread
<1>3. ASSUME NEW a \in Agents, BeginPollAppend(a)
      PROVE  TypeOK'
  <2>1. work' \in [Agents -> Work]
    BY <1>3, LoadType DEF TypeOK, BeginPollAppend
  <2> QED
    BY <1>3, <2>1 DEF TypeOK, BeginPollAppend
<1>4. ASSUME NEW a \in Agents, NEW n \in Notices, BeginNoticeAppend(a, n)
      PROVE  TypeOK'
  <2>1. <<n>> \in Seq(Event)
    BY DEF Event
  <2>2. work' \in [Agents -> Work]
    <3>1. Load(a, "notice", <<n>>, {})
      BY <1>4 DEF BeginNoticeAppend
    <3>2. {} \in SUBSET Sessions
      OBVIOUS
    <3> QED
      BY <2>1, <3>1, <3>2, LoadType
  <2> QED
    BY <1>4, <2>2 DEF TypeOK, BeginNoticeAppend
<1>5. ASSUME NEW a \in Agents, NEW m \in acks, BeginAck(a, m)
      PROVE  TypeOK'
  <2>1. m.page \in Seq(Event) /\ {m.from} \in SUBSET Sessions
    BY DEF TypeOK, Ack
  <2>2. work' \in [Agents -> Work]
    BY <1>5, <2>1, LoadType DEF BeginAck
  <2> QED
    BY <1>5, <2>2 DEF TypeOK, BeginAck
<1>6. ASSUME NEW a \in Agents, StoreAppend(a)
      PROVE  TypeOK'
  <2>1. work[a].loaded \in Seq(Event) /\ work[a].events \in Seq(Event)
    BY DEF TypeOK, Work
  <2>2. outbox' \in Seq(Event)
    BY <1>6, <2>1, AppendedProperties DEF StoreAppend
  <2>3. Range(work[a].events) \subseteq Event /\ Range(work[a].loaded) \subseteq Event
    BY <2>1, RangeOfSeq
  <2>4. work' \in [Agents -> Work] /\ polled' \in [Agents -> Seq(Event)]
    BY <1>6, ReleaseType DEF StoreAppend
  <2>5. emitted' \subseteq Event /\ evicted' \subseteq Event
    BY <1>6, <2>3 DEF TypeOK, StoreAppend
  <2> QED
    BY <1>6, <2>2, <2>4, <2>5 DEF TypeOK, StoreAppend
<1>7. ASSUME NEW a \in Agents, StoreAck(a)
      PROVE  TypeOK'
  <2>1. work[a].loaded \in Seq(Event)
    BY DEF TypeOK, Work
  <2>2. outbox' \in Seq(Event)
    BY <1>7, <2>1, WithoutProperties DEF TypeOK, StoreAck
  <2>3. work' \in [Agents -> Work] /\ polled' \in [Agents -> Seq(Event)]
    BY <1>7, ReleaseType DEF StoreAck
  <2> QED
    BY <1>7, <2>2, <2>3 DEF TypeOK, StoreAck
<1>8. ASSUME NEW a \in Agents, StoreFails(a)
      PROVE  TypeOK'
  <2>1. work' \in [Agents -> Work] /\ polled' \in [Agents -> Seq(Event)]
    BY <1>8, ReleaseType DEF StoreFails
  <2> QED
    BY <1>8, <2>1, FaultType DEF TypeOK, StoreFails
<1>9. ASSUME NEW a \in Agents, PollFails(a)
      PROVE  TypeOK'
  <2>1. << >> \in Seq(Event)
    BY EmptySeq
  <2> QED
    BY <1>9, <2>1, FaultType DEF TypeOK, PollFails
<1>10. ASSUME NEW a \in Agents, AgentCrash(a)
       PROVE  TypeOK'
  <2>1. << >> \in Seq(Event)
    BY EmptySeq
  <2> QED
    BY <1>10, <2>1, IdleType, FaultType DEF TypeOK, AgentCrash
<1>11. ASSUME NEW s \in Sessions, NEW a \in Agents, Subscribe(s, a)
       PROVE  TypeOK'
  <2>1. EventPage(outbox, 1, PageLimit) \in Seq(Event)
    BY EventPageProperties, ConstantsAssumption DEF TypeOK
  <2> QED
    BY <1>11, <2>1 DEF TypeOK, Subscribe
<1>12. ASSUME NEW s \in Sessions, Persist(s)
       PROVE  TypeOK'
  <2>1. page[s] \in Seq(Event)
    BY DEF TypeOK
  <2>2. persisted' \subseteq Event
    BY <1>12, <2>1, RangeOfSeq DEF TypeOK, Persist
  <2>3. row' \in [Threads -> Row]
    BY <1>12, <2>1, ProjectedType DEF TypeOK, Persist
  <2> QED
    BY <1>12, <2>2, <2>3 DEF TypeOK, Persist
<1>13. ASSUME NEW s \in Sessions, SendAck(s)
       PROVE  TypeOK'
  <2>1. [from |-> s, agent |-> conn[s], page |-> page[s]] \in Ack
    BY <1>13 DEF TypeOK, Ack, SendAck
  <2> QED
    BY <1>13, <2>1 DEF TypeOK, SendAck
<1>14. ASSUME NEW s \in Sessions, AckEnds(s)
       PROVE  TypeOK'
  BY <1>14, EndPassType DEF TypeOK, AckEnds
<1>15. ASSUME NEW s \in Sessions, Disconnect(s)
       PROVE  TypeOK'
  BY <1>15, EndPassType, FaultType DEF TypeOK, Disconnect
<1>16. ASSUME NEW s \in Sessions, NEW named \in SUBSET Filed, Ingest(s, named)
       PROVE  TypeOK'
  <2>1. [title |-> FromFile, rest |-> FromFile] \in Row
    BY DEF Row, Column
  <2>2. row' \in [Threads -> Row]
    BY <1>16, <2>1 DEF TypeOK, Ingest
  <2> QED
    BY <1>16, <2>2 DEF TypeOK, Ingest
<1> QED
  BY <1>1, <1>2, <1>3, <1>4, <1>5, <1>6, <1>7, <1>8, <1>9, <1>10, <1>11, <1>12,
     <1>13, <1>14, <1>15, <1>16 DEF Next

LEMMA TypeInit == Init => TypeOK
<1>1. << >> \in Seq(Event)
  BY EmptySeq
<1>2. [title |-> NoSnapshot, rest |-> NoSnapshot] \in Row
  BY DEF Row, Column
<1> QED
  BY <1>1, <1>2, IdleType, ConstantsAssumption DEF Init, TypeOK

(* The state of the protocol is well-formed after every history of polls,  *)
(* notices, passes, lost requests and crashes.                             *)
THEOREM TypeCorrect == Spec => []TypeOK
<1>1. TypeOK /\ [Next]_vars => TypeOK'
  BY TypeStep, TypeStutter
<1> QED
  BY TypeInit, <1>1, PTL DEF Spec

-----------------------------------------------------------------------------
(***************************************************************************)
(* Safety, for one Agent process per state directory.  Two facts make the  *)
(* claims inductive: what an Agent has read under its mutex is still what  *)
(* the file holds, and whatever an acknowledgement names is persisted.     *)
(***************************************************************************)
(* An Agent only ever works from the queue that is in the file: no other   *)
(* process has written since it took its mutex (the lost-update hazard).   *)
NoStaleUpdate == \A a \in Agents : work[a].op # "idle" => work[a].loaded = outbox

(* What is queued or on a page was emitted.                                *)
OnlyEmitted ==
  /\ Range(outbox) \subseteq emitted
  /\ \A s \in Sessions : Range(page[s]) \subseteq emitted

IInv == /\ TypeOK
        /\ OutboxBounded
        /\ NoStaleUpdate
        /\ AckOnlyPersisted
        /\ AtLeastOnce
        /\ OnlyEmitted

LEMMA EmptyQueue == Range(<< >>) = {} /\ NoDuplicates(<< >>) /\ Len(<< >>) = 0
BY DEF Range, NoDuplicates

LEMMA SafetyInit == Init => IInv
<1> SUFFICES ASSUME Init PROVE IInv
  OBVIOUS
<1>1. TypeOK
  BY TypeInit
<1>2. OutboxBounded
  BY EmptyQueue, OutboxCapAssumption DEF Init, OutboxBounded
<1>3. NoStaleUpdate /\ AckOnlyPersisted
  BY DEF Init, Idle, NoStaleUpdate, AckOnlyPersisted
<1>4. AtLeastOnce /\ OnlyEmitted
  BY EmptyQueue DEF Init, AtLeastOnce, OnlyEmitted
<1> QED
  BY <1>1, <1>2, <1>3, <1>4 DEF IInv

(* Steps that leave the file, the history and the catalog alone and only   *)
(* take the mutex or give it back.                                         *)
LEMMA QuietStep ==
  ASSUME IInv, TypeOK', UNCHANGED <<outbox, persisted, emitted, evicted>>,
         NoStaleUpdate', AckOnlyPersisted',
         \A s \in Sessions : page'[s] \in {page[s], << >>}
  PROVE  IInv'
<1>1. OutboxBounded' /\ AtLeastOnce'
  BY DEF IInv, OutboxBounded, NoDuplicates, AtLeastOnce, Range
<1>2. OnlyEmitted'
  <2>1. \A s \in Sessions : Range(page'[s]) \subseteq emitted
    BY EmptyQueue DEF IInv, OnlyEmitted
  <2> QED
    BY <2>1 DEF IInv, OnlyEmitted
<1> QED
  BY <1>1, <1>2 DEF IInv

(* Taking the mutex: what was read is what the file holds.                 *)
LEMMA LoadStep ==
  ASSUME IInv, TypeOK', NEW a \in Agents, NEW op \in {"poll", "notice", "ack"},
         NEW events, NEW from, Load(a, op, events, from),
         op = "ack" => Range(events) \subseteq persisted,
         acks' \subseteq acks,
         UNCHANGED <<outbox, persisted, emitted, evicted, phase, page>>
  PROVE  IInv'
<1>1. \A b \in Agents :
        \/ work'[b] = work[b]
        \/ work'[b].op = op /\ work'[b].events = events /\ work'[b].loaded = outbox
  BY DEF IInv, TypeOK, Load
<1>2. NoStaleUpdate'
  BY <1>1 DEF IInv, NoStaleUpdate
<1>3. AckOnlyPersisted'
  BY <1>1 DEF IInv, AckOnlyPersisted
<1> QED
  BY <1>2, <1>3, QuietStep

(* Giving up the mutex without writing, and dropping requests.             *)
LEMMA GiveUpStep ==
  ASSUME IInv, TypeOK',
         \A b \in Agents : work'[b] \in {work[b], Idle},
         acks' \subseteq acks,
         \A s \in Sessions :
           \/ page'[s] = page[s] /\ phase'[s] = phase[s]
           \/ page'[s] = << >> /\ phase'[s] = "idle",
         outbox' = outbox, persisted' = persisted, emitted' = emitted, evicted' = evicted
  PROVE  IInv'
<1>1. NoStaleUpdate'
  BY DEF IInv, NoStaleUpdate, Idle
<1>2. AckOnlyPersisted'
  BY DEF IInv, AckOnlyPersisted, Idle
<1> QED
  BY <1>1, <1>2, QuietStep

(* Writing an append: nothing queued is lost unless the queue is full.     *)
LEMMA StoreAppendStep ==
  ASSUME SingleAgent, IInv, TypeOK', NEW a \in Agents, StoreAppend(a)
  PROVE  /\ IInv'
         /\ Range(outbox') \subseteq Range(outbox) \cup Range(work[a].events)
         /\ \/ Range(outbox') = Range(outbox) \cup Range(work[a].events)
            \/ Len(outbox') = OutboxCap
         /\ evicted' = evicted \cup ((Range(outbox) \cup Range(work[a].events)) \ Range(outbox'))
<1> DEFINE ev == work[a].events
<1>1. work[a].loaded = outbox /\ ev \in Seq(Event) /\ outbox \in Seq(Event)
  BY DEF IInv, TypeOK, Work, NoStaleUpdate, StoreAppend
<1>2. outbox' = Appended(outbox, ev)
  BY <1>1 DEF StoreAppend
<1>3. /\ Len(outbox') \in 0..OutboxCap
      /\ Range(outbox') \subseteq Range(outbox) \cup Range(ev)
      /\ \/ Range(outbox') = Range(outbox) \cup Range(ev)
         \/ Len(outbox') = OutboxCap
      /\ NoDuplicates(outbox) => NoDuplicates(outbox')
  BY <1>1, <1>2, AppendedProperties
<1>4. evicted' = evicted \cup ((Range(outbox) \cup Range(ev)) \ Range(outbox'))
  BY <1>1 DEF StoreAppend
<1>5. emitted' = emitted \cup Range(ev) /\ UNCHANGED <<persisted, phase, page, acks>>
  BY DEF StoreAppend, sessionVars, catalogVars
<1>6. OutboxBounded'
  <2>1. Len(outbox') <= OutboxCap
    BY <1>3, OutboxCapAssumption
  <2> QED
    BY <1>3, <2>1 DEF IInv, OutboxBounded, NoDuplicates
<1>7. \A b \in Agents : work'[b] = Idle
  BY DEF SingleAgent, StoreAppend, Release, IInv, TypeOK
<1>8. NoStaleUpdate'
  BY <1>7 DEF NoStaleUpdate, Idle
<1>9. AckOnlyPersisted'
  BY <1>5, <1>7 DEF IInv, AckOnlyPersisted, Idle
<1>10. AtLeastOnce'
  BY <1>3, <1>4, <1>5 DEF IInv, AtLeastOnce
<1>11. OnlyEmitted'
  BY <1>3, <1>5 DEF IInv, OnlyEmitted
<1> QED
  BY <1>3, <1>4, <1>6, <1>8, <1>9, <1>10, <1>11 DEF IInv

(* Writing an acknowledgement removes persisted events and no other.       *)
LEMMA StoreAckStep ==
  ASSUME SingleAgent, IInv, TypeOK', NEW a \in Agents, StoreAck(a)
  PROVE  /\ IInv'
         /\ Range(work[a].events) \subseteq persisted
         /\ outbox' = outbox \/ Range(outbox') = Range(outbox) \ Range(work[a].events)
<1> DEFINE ev == work[a].events
           q == Without(outbox, Range(ev))
<1>1. work[a].loaded = outbox /\ outbox \in Seq(Event)
  BY DEF IInv, TypeOK, NoStaleUpdate, StoreAck
<1>2. outbox' = outbox \/ outbox' = q
  BY <1>1 DEF StoreAck
<1>3. /\ Range(q) = Range(outbox) \ Range(ev)
      /\ Len(q) <= Len(outbox)
      /\ q \in Seq(Event)
      /\ NoDuplicates(outbox) => NoDuplicates(q)
  BY <1>1, WithoutProperties
<1> HIDE DEF q
<1>4. Range(ev) \subseteq persisted
  BY DEF StoreAck, IInv, AckOnlyPersisted
<1>5. UNCHANGED <<persisted, phase, page, acks, emitted, evicted>>
  BY DEF StoreAck, sessionVars, catalogVars, history
<1>6. OutboxBounded'
  <2>1. Len(q) \in Nat /\ Len(outbox) \in Nat
    BY <1>1, <1>3, LenProperties
  <2>2. Len(outbox) <= OutboxCap /\ NoDuplicates(outbox)
    BY DEF IInv, OutboxBounded
  <2>3. Len(q) <= OutboxCap
    BY <1>3, <2>1, <2>2, OutboxCapAssumption
  <2> QED
    BY <1>2, <1>3, <2>2, <2>3 DEF OutboxBounded, NoDuplicates
<1>7. \A b \in Agents : work'[b] = Idle
  BY DEF SingleAgent, StoreAck, Release, IInv, TypeOK
<1>8. NoStaleUpdate'
  BY <1>7 DEF NoStaleUpdate, Idle
<1>9. AckOnlyPersisted'
  BY <1>5, <1>7 DEF IInv, AckOnlyPersisted, Idle
<1>10. AtLeastOnce'
  BY <1>2, <1>3, <1>4, <1>5 DEF IInv, AtLeastOnce
<1>11. OnlyEmitted'
  BY <1>2, <1>3, <1>5 DEF IInv, OnlyEmitted
<1> QED
  BY <1>2, <1>3, <1>4, <1>6, <1>8, <1>9, <1>10, <1>11 DEF IInv

LEMMA SubscribeStep ==
  ASSUME IInv, TypeOK', NEW s \in Sessions, NEW a \in Agents, Subscribe(s, a)
  PROVE  IInv'
<1> USE DEF agentVars, catalogVars, history
<1>1. Range(EventPage(outbox, 1, PageLimit)) \subseteq Range(outbox)
  BY EventPageProperties, ConstantsAssumption DEF IInv, TypeOK
<1>2. \A r \in Sessions : \/ page'[r] = page[r] /\ phase'[r] = phase[r]
                          \/ Range(page'[r]) \subseteq Range(outbox) /\ phase'[r] = "fetched"
  BY <1>1 DEF Subscribe, IInv, TypeOK
<1>3. UNCHANGED <<outbox, work, acks, persisted, emitted, evicted>>
  BY DEF Subscribe
<1>4. OutboxBounded' /\ NoStaleUpdate' /\ AtLeastOnce'
  BY <1>3 DEF IInv, OutboxBounded, NoDuplicates, NoStaleUpdate, AtLeastOnce
<1>5. AckOnlyPersisted'
  BY <1>2, <1>3 DEF IInv, AckOnlyPersisted
<1>6. OnlyEmitted'
  BY <1>2, <1>3 DEF IInv, OnlyEmitted
<1> QED
  BY <1>4, <1>5, <1>6 DEF IInv

LEMMA PersistStep ==
  ASSUME IInv, TypeOK', NEW s \in Sessions, Persist(s)
  PROVE  IInv'
<1> USE DEF agentVars, catalogVars, history
<1>1. UNCHANGED <<outbox, work, acks, page, emitted, evicted>>
  BY DEF Persist
<1>2. persisted' = persisted \cup Range(page[s])
  BY DEF Persist
<1>3. \A r \in Sessions : r = s \/ phase'[r] = phase[r]
  BY DEF Persist, IInv, TypeOK
<1>4. OutboxBounded' /\ NoStaleUpdate' /\ AtLeastOnce' /\ OnlyEmitted'
  BY <1>1, <1>2 DEF IInv, OutboxBounded, NoDuplicates, NoStaleUpdate, AtLeastOnce, OnlyEmitted
<1>5. AckOnlyPersisted'
  BY <1>1, <1>2, <1>3 DEF IInv, AckOnlyPersisted
<1> QED
  BY <1>4, <1>5 DEF IInv

LEMMA SendAckStep ==
  ASSUME IInv, TypeOK', NEW s \in Sessions, SendAck(s)
  PROVE  IInv'
<1> USE DEF agentVars, catalogVars, history
<1>1. UNCHANGED <<outbox, work, page, persisted, emitted, evicted>>
  BY DEF SendAck
<1>2. NoStaleUpdate'
  BY <1>1 DEF IInv, NoStaleUpdate
<1>3. \A r \in Sessions : r = s \/ phase'[r] = phase[r]
  BY DEF SendAck, IInv, TypeOK
<1>4. phase[s] = "persisted" /\ acks' = acks \cup {[from |-> s, agent |-> conn[s], page |-> page[s]]}
  BY DEF SendAck
<1>5. Range(page[s]) \subseteq persisted
  BY <1>4 DEF IInv, AckOnlyPersisted
<1>6. AckOnlyPersisted'
  BY <1>1, <1>3, <1>4, <1>5 DEF IInv, AckOnlyPersisted
<1> QED
  BY <1>1, <1>2, <1>6, QuietStep

(* Every step preserves the invariant.                                     *)
LEMMA SafetyStep ==
  ASSUME SingleAgent, IInv, [Next]_vars
  PROVE  IInv'
<1> USE DEF agentVars, sessionVars, catalogVars, history
<1>0. TypeOK'
  BY TypeStep, TypeStutter DEF IInv
<1>1. ASSUME NEW t \in Threads, NEW sn \in Snapshots, ThreadChanges(t, sn)
      PROVE  IInv'
  <2>1. \A b \in Agents : work'[b] \in {work[b], Idle}
    BY <1>1 DEF ThreadChanges
  <2>2. \A r \in Sessions : \/ page'[r] = page[r] /\ phase'[r] = phase[r]
                            \/ page'[r] = << >> /\ phase'[r] = "idle"
    BY <1>1 DEF ThreadChanges
  <2>3. /\ acks' \subseteq acks
        /\ outbox' = outbox /\ persisted' = persisted /\ emitted' = emitted /\ evicted' = evicted
    BY <1>1 DEF ThreadChanges
  <2> QED
    BY <1>0, <2>1, <2>2, <2>3, GiveUpStep
<1>2. ASSUME NEW a \in Agents, NEW t \in Threads, PollThread(a, t)
      PROVE  IInv'
  <2>1. \A b \in Agents : work'[b] \in {work[b], Idle}
    BY <1>2 DEF PollThread
  <2>2. \A r \in Sessions : \/ page'[r] = page[r] /\ phase'[r] = phase[r]
                            \/ page'[r] = << >> /\ phase'[r] = "idle"
    BY <1>2 DEF PollThread
  <2>3. /\ acks' \subseteq acks
        /\ outbox' = outbox /\ persisted' = persisted /\ emitted' = emitted /\ evicted' = evicted
    BY <1>2 DEF PollThread
  <2> QED
    BY <1>0, <2>1, <2>2, <2>3, GiveUpStep
<1>3. ASSUME NEW a \in Agents, BeginPollAppend(a)
      PROVE  IInv'
  <2>1. Load(a, "poll", polled[a], {})
    BY <1>3 DEF BeginPollAppend
  <2> QED
    BY <1>0, <1>3, <2>1, LoadStep DEF BeginPollAppend
<1>4. ASSUME NEW a \in Agents, NEW n \in Notices, BeginNoticeAppend(a, n)
      PROVE  IInv'
  <2>1. Load(a, "notice", <<n>>, {})
    BY <1>4 DEF BeginNoticeAppend
  <2> QED
    BY <1>0, <1>4, <2>1, LoadStep DEF BeginNoticeAppend
<1>5. ASSUME NEW a \in Agents, NEW m \in acks, BeginAck(a, m)
      PROVE  IInv'
  <2>1. Load(a, "ack", m.page, {m.from})
    BY <1>5 DEF BeginAck
  <2>2. Range(m.page) \subseteq persisted
    BY DEF IInv, AckOnlyPersisted
  <2> QED
    BY <1>0, <1>5, <2>1, <2>2, LoadStep DEF BeginAck
<1>6. ASSUME NEW a \in Agents, StoreAppend(a)
      PROVE  IInv'
  BY <1>0, <1>6, StoreAppendStep
<1>7. ASSUME NEW a \in Agents, StoreAck(a)
      PROVE  IInv'
  BY <1>0, <1>7, StoreAckStep
<1>8. ASSUME NEW a \in Agents, StoreFails(a)
      PROVE  IInv'
  <2>1. \A b \in Agents : work'[b] \in {work[b], Idle}
    BY <1>8 DEF StoreFails, Release, IInv, TypeOK
  <2>2. \A r \in Sessions : \/ page'[r] = page[r] /\ phase'[r] = phase[r]
                            \/ page'[r] = << >> /\ phase'[r] = "idle"
    BY <1>8 DEF StoreFails
  <2>3. /\ acks' \subseteq acks
        /\ outbox' = outbox /\ persisted' = persisted /\ emitted' = emitted /\ evicted' = evicted
    BY <1>8 DEF StoreFails
  <2> QED
    BY <1>0, <2>1, <2>2, <2>3, GiveUpStep
<1>9. ASSUME NEW a \in Agents, PollFails(a)
      PROVE  IInv'
  <2>1. \A b \in Agents : work'[b] \in {work[b], Idle}
    BY <1>9 DEF PollFails
  <2>2. \A r \in Sessions : \/ page'[r] = page[r] /\ phase'[r] = phase[r]
                            \/ page'[r] = << >> /\ phase'[r] = "idle"
    BY <1>9 DEF PollFails
  <2>3. /\ acks' \subseteq acks
        /\ outbox' = outbox /\ persisted' = persisted /\ emitted' = emitted /\ evicted' = evicted
    BY <1>9 DEF PollFails
  <2> QED
    BY <1>0, <2>1, <2>2, <2>3, GiveUpStep
<1>10. ASSUME NEW a \in Agents, AgentCrash(a)
       PROVE  IInv'
  <2>1. \A b \in Agents : work'[b] \in {work[b], Idle}
    BY <1>10 DEF AgentCrash, IInv, TypeOK
  <2>2. \A r \in Sessions : \/ page'[r] = page[r] /\ phase'[r] = phase[r]
                            \/ page'[r] = << >> /\ phase'[r] = "idle"
    BY <1>10 DEF AgentCrash
  <2>3. /\ acks' \subseteq acks
        /\ outbox' = outbox /\ persisted' = persisted /\ emitted' = emitted /\ evicted' = evicted
    BY <1>10 DEF AgentCrash
  <2> QED
    BY <1>0, <2>1, <2>2, <2>3, GiveUpStep
<1>11. ASSUME NEW s \in Sessions, NEW a \in Agents, Subscribe(s, a)
       PROVE  IInv'
  BY <1>0, <1>11, SubscribeStep
<1>12. ASSUME NEW s \in Sessions, Persist(s)
       PROVE  IInv'
  BY <1>0, <1>12, PersistStep
<1>13. ASSUME NEW s \in Sessions, SendAck(s)
       PROVE  IInv'
  BY <1>0, <1>13, SendAckStep
<1>14. ASSUME NEW s \in Sessions, AckEnds(s)
       PROVE  IInv'
  <2>1. \A b \in Agents : work'[b] \in {work[b], Idle}
    BY <1>14 DEF AckEnds
  <2>2. \A r \in Sessions : \/ page'[r] = page[r] /\ phase'[r] = phase[r]
                            \/ page'[r] = << >> /\ phase'[r] = "idle"
    BY <1>14 DEF AckEnds, EndPass, IInv, TypeOK
  <2>3. /\ acks' \subseteq acks
        /\ outbox' = outbox /\ persisted' = persisted /\ emitted' = emitted /\ evicted' = evicted
    BY <1>14 DEF AckEnds
  <2> QED
    BY <1>0, <2>1, <2>2, <2>3, GiveUpStep
<1>15. ASSUME NEW s \in Sessions, Disconnect(s)
       PROVE  IInv'
  <2>1. \A b \in Agents : work'[b] \in {work[b], Idle}
    BY <1>15 DEF Disconnect
  <2>2. \A r \in Sessions : \/ page'[r] = page[r] /\ phase'[r] = phase[r]
                            \/ page'[r] = << >> /\ phase'[r] = "idle"
    BY <1>15 DEF Disconnect, EndPass, IInv, TypeOK
  <2>3. /\ acks' \subseteq acks
        /\ outbox' = outbox /\ persisted' = persisted /\ emitted' = emitted /\ evicted' = evicted
    BY <1>15 DEF Disconnect
  <2> QED
    BY <1>0, <2>1, <2>2, <2>3, GiveUpStep
<1>16. ASSUME NEW s \in Sessions, NEW named \in SUBSET Filed, Ingest(s, named)
       PROVE  IInv'
  <2>1. \A b \in Agents : work'[b] \in {work[b], Idle}
    BY <1>16 DEF Ingest
  <2>2. \A r \in Sessions : \/ page'[r] = page[r] /\ phase'[r] = phase[r]
                            \/ page'[r] = << >> /\ phase'[r] = "idle"
    BY <1>16 DEF Ingest
  <2>3. /\ acks' \subseteq acks
        /\ outbox' = outbox /\ persisted' = persisted /\ emitted' = emitted /\ evicted' = evicted
    BY <1>16 DEF Ingest
  <2> QED
    BY <1>0, <2>1, <2>2, <2>3, GiveUpStep
<1>17. ASSUME UNCHANGED vars
       PROVE  IInv'
  <2>1. \A b \in Agents : work'[b] \in {work[b], Idle}
    BY <1>17 DEF vars
  <2>2. \A r \in Sessions : \/ page'[r] = page[r] /\ phase'[r] = phase[r]
                            \/ page'[r] = << >> /\ phase'[r] = "idle"
    BY <1>17 DEF vars
  <2>3. /\ acks' \subseteq acks
        /\ outbox' = outbox /\ persisted' = persisted /\ emitted' = emitted /\ evicted' = evicted
    BY <1>17 DEF vars
  <2> QED
    BY <1>0, <2>1, <2>2, <2>3, GiveUpStep
<1> QED
  BY <1>1, <1>2, <1>3, <1>4, <1>5, <1>6, <1>7, <1>8, <1>9, <1>10, <1>11, <1>12,
     <1>13, <1>14, <1>15, <1>16, <1>17 DEF Next

(* The inductive invariant holds in every reachable state.                 *)
THEOREM InvariantHolds == ASSUME SingleAgent PROVE Spec => []IInv
BY SafetyInit, SafetyStep, PTL DEF Spec

(* With one Agent process on the state directory, no emitted event is ever *)
(* missing from the outbox, the catalog and the evicted events at once,    *)
(* however many sessions, disconnections, failed writes and crashes.       *)
THEOREM DeliveryAtLeastOnce == ASSUME SingleAgent PROVE Spec => []AtLeastOnce
<1>1. IInv => AtLeastOnce
  BY DEF IInv
<1> QED
  BY InvariantHolds, <1>1, PTL

(* Every acknowledgement, on its way or in progress, names persisted       *)
(* events only.                                                            *)
THEOREM AcksArePersisted == ASSUME SingleAgent PROVE Spec => []AckOnlyPersisted
<1>1. IInv => AckOnlyPersisted
  BY DEF IInv
<1> QED
  BY InvariantHolds, <1>1, PTL

(* The queue file respects its bound and never repeats an id.              *)
THEOREM QueueBounded == ASSUME SingleAgent PROVE Spec => []OutboxBounded
<1>1. IInv => OutboxBounded
  BY DEF IInv
<1> QED
  BY InvariantHolds, <1>1, PTL

(* The actions that write neither the file nor its history.                *)
LEMMA OtherSteps ==
  ASSUME [Next]_vars
  PROVE  \/ \E a \in Agents : StoreAppend(a)
         \/ \E a \in Agents : StoreAck(a)
         \/ /\ outbox' = outbox /\ emitted' = emitted /\ evicted' = evicted
            /\ \/ persisted' = persisted
               \/ \E s \in Sessions : Persist(s)
<1> USE DEF agentVars, sessionVars, catalogVars, history
<1>1. ASSUME NEW t \in Threads, NEW sn \in Snapshots, ThreadChanges(t, sn)
      PROVE  outbox' = outbox /\ emitted' = emitted /\ evicted' = evicted /\ persisted' = persisted
  BY <1>1 DEF ThreadChanges
<1>2. ASSUME NEW a \in Agents,
             \/ \E t \in Threads : PollThread(a, t)
             \/ BeginPollAppend(a)
             \/ \E n \in Notices : BeginNoticeAppend(a, n)
             \/ \E m \in acks : BeginAck(a, m)
             \/ StoreFails(a)
             \/ PollFails(a)
             \/ AgentCrash(a)
      PROVE  outbox' = outbox /\ emitted' = emitted /\ evicted' = evicted /\ persisted' = persisted
  BY <1>2 DEF PollThread, BeginPollAppend, BeginNoticeAppend, BeginAck, StoreFails,
              PollFails, AgentCrash
<1>3. ASSUME NEW s \in Sessions,
             \/ \E a \in Agents : Subscribe(s, a)
             \/ SendAck(s)
             \/ AckEnds(s)
             \/ Disconnect(s)
             \/ \E named \in SUBSET Filed : Ingest(s, named)
      PROVE  outbox' = outbox /\ emitted' = emitted /\ evicted' = evicted /\ persisted' = persisted
  BY <1>3 DEF Subscribe, SendAck, AckEnds, Disconnect, Ingest
<1>4. ASSUME NEW s \in Sessions, Persist(s)
      PROVE  outbox' = outbox /\ emitted' = emitted /\ evicted' = evicted
  BY <1>4 DEF Persist
<1>5. ASSUME UNCHANGED vars
      PROVE  outbox' = outbox /\ emitted' = emitted /\ evicted' = evicted /\ persisted' = persisted
  BY <1>5 DEF vars
<1> QED
  BY <1>1, <1>2, <1>3, <1>4, <1>5 DEF Next

(* No step drops an unpersisted event from the queue unless newer events   *)
(* fill it to its bound.                                                   *)
THEOREM NothingLost == ASSUME SingleAgent PROVE Spec => NothingLostSilently
<1>1. ASSUME SingleAgent, IInv, [Next]_vars
      PROVE  [\A e \in Range(outbox) \ Range(outbox') :
                e \in persisted \/ Len(outbox') = OutboxCap]_vars
  <2>1. TypeOK'
    BY <1>1, SafetyStep DEF IInv
  <2>2. CASE \E a \in Agents : StoreAppend(a)
    BY <1>1, <2>1, <2>2, StoreAppendStep
  <2>3. CASE \E a \in Agents : StoreAck(a)
    BY <1>1, <2>1, <2>3, StoreAckStep
  <2>4. CASE outbox' = outbox
    BY <2>4
  <2> QED
    BY <1>1, <2>2, <2>3, <2>4, OtherSteps
<1> QED
  BY <1>1, InvariantHolds, PTL DEF Spec, NothingLostSilently
-----------------------------------------------------------------------------
(* Every step of the protocol is a step of the bounded log, or none.       *)
LEMMA LogInit == Init => Log!Init
BY EmptyQueue DEF Init, Log!Init

LEMMA LogStep ==
  ASSUME SingleAgent, IInv, [Next]_vars
  PROVE  [Log!Next]_(Log!vars)
<1>1. IInv'
  BY SafetyStep
<1>2. CASE \E a \in Agents : StoreAppend(a)
  <2>1. PICK a \in Agents : StoreAppend(a)
    BY <1>2
  <2> DEFINE E == Range(work[a].events)
             D == (Range(outbox) \cup E) \ Range(outbox')
  <2>2. /\ Range(outbox') \subseteq Range(outbox) \cup E
        /\ \/ Range(outbox') = Range(outbox) \cup E
           \/ Len(outbox') = OutboxCap
        /\ evicted' = evicted \cup D
    BY <1>1, <2>1, StoreAppendStep DEF IInv
  <2>3. emitted' = emitted \cup E /\ persisted' = persisted
    BY <2>1 DEF StoreAppend, catalogVars
  <2>4. outbox' \in Seq(Event) /\ outbox \in Seq(Event) /\ work[a].events \in Seq(Event)
    BY <1>1 DEF IInv, TypeOK, Work
  <2>5. Cardinality(Range(outbox')) = Len(outbox') /\ Len(outbox') <= OutboxCap
    BY <1>1, <2>4, QueueCardinality DEF IInv, OutboxBounded
  <2>6. E \in SUBSET Event /\ D \in SUBSET Event
    BY <2>4, RangeOfSeq
  <2>7. Range(outbox') = (Range(outbox) \cup E) \ D /\ D \subseteq Range(outbox) \cup E
    BY <2>2
  <2>8. D # {} => Cardinality(Range(outbox')) = OutboxCap
    BY <2>2, <2>5
  <2> HIDE DEF E, D
  <2>9. Log!Emit(E, D)
    <3>1. Cardinality(Range(outbox')) <= OutboxCap
      BY <2>5
    <3>2. evicted' = evicted \cup D
      BY <2>2
    <3> QED
      BY <2>3, <2>7, <2>8, <3>1, <3>2 DEF Log!Emit, Log!Cardinality, Cardinality
  <2> QED
    BY <2>6, <2>9 DEF Log!Next
<1>3. CASE \E a \in Agents : StoreAck(a)
  <2>1. PICK a \in Agents : StoreAck(a)
    BY <1>3
  <2>2. /\ Range(work[a].events) \subseteq persisted
        /\ outbox' = outbox \/ Range(outbox') = Range(outbox) \ Range(work[a].events)
    BY <1>1, <2>1, StoreAckStep DEF IInv
  <2>3. UNCHANGED <<emitted, evicted, persisted>>
    BY <2>1 DEF StoreAck, catalogVars, history
  <2>4. CASE outbox' = outbox
    BY <2>3, <2>4 DEF Log!vars
  <2>5. CASE Range(outbox') = Range(outbox) \ Range(work[a].events)
    <3>1. Log!Acknowledge(Range(work[a].events))
      BY <2>2, <2>3, <2>5 DEF Log!Acknowledge
    <3> QED
      BY <2>2, <3>1 DEF Log!Next
  <2> QED
    BY <2>2, <2>4, <2>5
<1>4. CASE /\ outbox' = outbox /\ emitted' = emitted /\ evicted' = evicted
           /\ \E s \in Sessions : Persist(s)
  <2>1. PICK s \in Sessions : Persist(s)
    BY <1>4
  <2>2. Range(page[s]) \subseteq emitted
    BY DEF IInv, OnlyEmitted
  <2>3. Log!Deliver(Range(page[s]))
    BY <1>4, <2>1, <2>2 DEF Log!Deliver, Persist
  <2> QED
    BY <2>2, <2>3 DEF Log!Next
<1>5. CASE /\ outbox' = outbox /\ emitted' = emitted /\ evicted' = evicted
           /\ persisted' = persisted
  BY <1>5 DEF Log!vars
<1> QED
  BY <1>2, <1>3, <1>4, <1>5, OtherSteps

(* With one Agent process, the outbox file, the mutex, the sessions and    *)
(* the catalog together implement a bounded at-least-once log.             *)
THEOREM Refinement == ASSUME SingleAgent PROVE Spec => ImplementsLog
<1>1. IInv /\ [Next]_vars => [Log!Next]_(Log!vars)
  BY LogStep
<1> QED
  BY LogInit, <1>1, InvariantHolds, PTL DEF Spec, Log!Spec, ImplementsLog
=============================================================================
