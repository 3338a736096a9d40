---------------------------- MODULE EventStream ----------------------------
(***************************************************************************)
(* The long-lived event subscription (OpenEventStream): serve_event_stream *)
(* of the Agent and stream_events of the Controller, with the client that  *)
(* multiplexes pushed pages and answers on one connection.                 *)
(*                                                                         *)
(* Every 100 ms the Agent pushes a page of queued events, never more than  *)
(* max_in_flight unacknowledged ones and never one it already sent on this *)
(* stream.  The Controller persists a page, acknowledges it and waits for  *)
(* the answer; pages that arrive meanwhile are put aside.  The outbox file *)
(* is shared with the connector and with other Controller passes; its      *)
(* updates are atomic here, EventDelivery has their interleavings.         *)
(***************************************************************************)
EXTENDS RuntimeOutbox

CONSTANTS
  Events,        \* event ids in the stream's scope
  Recurring,     \* ids the connector queues again at every poll
  NoEvent,       \* no cursor
  MaxInFlight,   \* clamped to 1..64 by open_event_stream
  FrameBuffer,   \* frames the connection holds before a write blocks
  MaxHeartbeats, \* bound on heartbeats the Controller has not looked at
  MaxStreams,    \* bound on streams opened one after the other
  MaxFaults      \* bound on failures of either side

ASSUME StreamAssumption ==
  /\ Recurring \subseteq Events
  /\ NoEvent \notin Events
  /\ MaxInFlight \in Nat \ {0}
  /\ FrameBuffer \in Nat \ {0}
  /\ MaxHeartbeats \in Nat
  /\ MaxStreams \in Nat
  /\ MaxFaults \in Nat

VARIABLES
  outbox,     \* the queue in runtime-events-outbox.json
  serving,    \* whether the Agent is in serve_event_stream
  cursor,     \* the last event sent
  inFlight,   \* in_flight: sent and not acknowledged
  sentIds,    \* sent_ids: sent on this stream
  requests,   \* Controller to Agent, not yet read
  frames,     \* Agent to Controller, not yet read
  pc,         \* where the Controller's loop stands
  page,       \* the page it works on
  pending,    \* AgentClient.pending
  aside,      \* unrelated: frames put aside while waiting for an answer
  persisted,  \* event ids in the catalog
  sent,       \* history: the pages pushed on this stream
  handled,    \* history: the pages acknowledged on this stream
  emitted,    \* history: the events ever queued
  evicted,    \* history: the events dropped because the outbox was full
  streams,    \* history: streams opened so far
  faults      \* history: failures so far

agentVars  == <<serving, cursor, inFlight, sentIds>>
clientVars == <<pc, page, pending, aside>>
queueVars  == <<outbox, emitted, evicted>>
vars == <<queueVars, agentVars, requests, frames, clientVars, persisted,
          sent, handled, streams, faults>>

Frame(kind, events) == [kind |-> kind, events |-> events]
PageFrame  == [kind : {"page"}, events : Seq(Events)]
OtherFrame == [kind : {"heartbeat", "acked", "closed", "refused"}, events : {<< >>}]
Frames  == PageFrame \cup OtherFrame
Request == [kind : {"ack", "close"}, events : Seq(Events)]

TypeOK ==
  /\ outbox \in Seq(Events)
  /\ serving \in BOOLEAN
  /\ cursor \in Events \cup {NoEvent}
  /\ inFlight \in SUBSET Events
  /\ sentIds \in SUBSET Events
  /\ requests \in Seq(Request) /\ Len(requests) <= 1
  /\ frames \in Seq(Frames) /\ Len(frames) <= FrameBuffer
  /\ pc \in {"off", "reading", "ingesting", "persisted", "acking", "closing"}
  /\ page \in Seq(Events)
  /\ page # << >> <=> pc \in {"ingesting", "persisted", "acking"}
  /\ pending \in Seq(Frames)
  /\ aside \in Seq(Frames)
  /\ aside # << >> => pc \in {"acking", "closing"}
  /\ persisted \in SUBSET Events
  /\ sent \in Seq(Seq(Events))
  /\ handled \in Seq(Seq(Events))
  /\ emitted \in SUBSET Events
  /\ evicted \in SUBSET Events
  /\ streams \in 0..MaxStreams
  /\ faults \in 0..MaxFaults

Init ==
  /\ outbox = << >> /\ emitted = {} /\ evicted = {}
  /\ serving = FALSE /\ cursor = NoEvent /\ inFlight = {} /\ sentIds = {}
  /\ requests = << >> /\ frames = << >>
  /\ pc = "off" /\ page = << >> /\ pending = << >> /\ aside = << >>
  /\ persisted = {}
  /\ sent = << >> /\ handled = << >>
  /\ streams = 0 /\ faults = 0
-----------------------------------------------------------------------------
(* The connector queues a recurring event again and again, the watcher and *)
(* the collector queue each of theirs once.                                *)
Queue(e) ==
  /\ e \in Recurring \/ e \notin emitted
  /\ outbox' = Appended(outbox, <<e>>)
  /\ emitted' = emitted \cup {e}
  /\ evicted' = evicted \cup ((Range(outbox) \cup {e}) \ Range(outbox'))
  /\ UNCHANGED <<agentVars, requests, frames, clientVars, persisted, sent, handled,
                 streams, faults>>

(* Another Controller pass reads a page from the front of the queue and    *)
(* persists it, in one transaction.                                        *)
OtherPersists(n) ==
  /\ n \in 1..Len(outbox)
  /\ persisted' = persisted \cup Range(SubSeq(outbox, 1, n))
  /\ UNCHANGED <<queueVars, agentVars, requests, frames, clientVars, sent, handled,
                 streams, faults>>

(* It acknowledges what it persisted; the queue may have changed since.    *)
OtherAcks(ids) ==
  /\ ids # {} /\ ids \subseteq persisted \cap Range(outbox)
  /\ outbox' = Without(outbox, ids)
  /\ UNCHANGED <<emitted, evicted, agentVars, requests, frames, clientVars, persisted, sent,
                 handled, streams, faults>>

(* The Controller connects and opens the stream, naming no cursor.         *)
Open ==
  /\ pc = "off" /\ ~serving
  /\ streams < MaxStreams
  /\ streams' = streams + 1
  /\ serving' = TRUE /\ cursor' = NoEvent /\ inFlight' = {} /\ sentIds' = {}
  /\ requests' = << >> /\ frames' = << >>
  /\ pc' = "reading" /\ page' = << >> /\ pending' = << >> /\ aside' = << >>
  /\ sent' = << >> /\ handled' = << >>
  /\ UNCHANGED <<queueVars, persisted, faults>>
-----------------------------------------------------------------------------
(* The Agent's side.                                                       *)

(* runtime_event_stream_page: unsent events after the cursor's position,   *)
(* at most as many as the window has room for.                             *)
StreamPage(available) ==
  EventPage(AtPositions(outbox, {i \in DOMAIN outbox :
                                   /\ i >= StartAfter(outbox, cursor)
                                   /\ outbox[i] \notin sentIds}),
            1, available)

Available == IF Cardinality(inFlight) < MaxInFlight
             THEN MaxInFlight - Cardinality(inFlight) ELSE 0

(* A write waits while the connection is full.                             *)
CanWrite == serving /\ Len(frames) < FrameBuffer

(* Bug: a full page whatever is in flight.                                 *)
PushPageWide ==
  LET p == StreamPage(MaxInFlight) IN
  /\ CanWrite
  /\ p # << >>
  /\ inFlight' = inFlight \cup Range(p)
  /\ sentIds' = sentIds \cup Range(p)
  /\ cursor' = p[Len(p)]
  /\ frames' = Append(frames, Frame("page", p))
  /\ sent' = Append(sent, p)
  /\ UNCHANGED <<queueVars, serving, requests, clientVars, persisted, handled, streams, faults>>

(* A tick with something to send.                                          *)
PushPage ==
  LET p == StreamPage(Available) IN
  /\ CanWrite
  /\ Available > 0
  /\ p # << >>
  /\ inFlight' = inFlight \cup Range(p)
  /\ sentIds' = sentIds \cup Range(p)
  /\ cursor' = p[Len(p)]
  /\ frames' = Append(frames, Frame("page", p))
  /\ sent' = Append(sent, p)
  /\ UNCHANGED <<queueVars, serving, requests, clientVars, persisted, handled, streams, faults>>

Heartbeats(fs) == Cardinality({i \in DOMAIN fs : fs[i].kind = "heartbeat"})

(* A tick with nothing to send, a heartbeat interval after the last frame. *)
PushHeartbeat ==
  /\ CanWrite
  /\ Heartbeats(aside \o pending \o frames) < MaxHeartbeats
  /\ Available = 0 \/ StreamPage(Available) = << >>
  /\ frames' = Append(frames, Frame("heartbeat", << >>))
  /\ UNCHANGED <<queueVars, agentVars, requests, clientVars, persisted, sent, handled,
                 streams, faults>>

(* Bug: the events stay in flight.                                         *)
HandleAckKeepingWindow ==
  LET allowed == Range(Head(requests).events) \cap inFlight IN
  /\ CanWrite
  /\ requests # << >> /\ Head(requests).kind = "ack"
  /\ requests' = Tail(requests)
  /\ outbox' = Without(outbox, allowed)
  /\ frames' = Append(frames, Frame("acked", << >>))
  /\ UNCHANGED <<emitted, evicted, agentVars, clientVars, persisted, sent,
                 handled, streams, faults>>

(* Bug: the whole window is removed, acknowledged or not.                  *)
HandleAckWholeWindow ==
  /\ CanWrite
  /\ requests # << >> /\ Head(requests).kind = "ack"
  /\ requests' = Tail(requests)
  /\ outbox' = Without(outbox, inFlight)
  /\ inFlight' = {}
  /\ frames' = Append(frames, Frame("acked", << >>))
  /\ UNCHANGED <<emitted, evicted, serving, cursor, sentIds, clientVars, persisted, sent,
                 handled, streams, faults>>

(* Only events in flight are removed from the outbox and from the window.  *)
HandleAck ==
  LET allowed == Range(Head(requests).events) \cap inFlight IN
  /\ CanWrite
  /\ requests # << >> /\ Head(requests).kind = "ack"
  /\ requests' = Tail(requests)
  /\ outbox' = Without(outbox, allowed)
  /\ inFlight' = inFlight \ allowed
  /\ frames' = Append(frames, Frame("acked", << >>))
  /\ UNCHANGED <<emitted, evicted, serving, cursor, sentIds, clientVars, persisted, sent,
                 handled, streams, faults>>

(* The credential is no longer accepted: an error, and the stream goes on. *)
Refuse ==
  /\ CanWrite
  /\ faults < MaxFaults /\ faults' = faults + 1
  /\ requests # << >>
  /\ requests' = Tail(requests)
  /\ frames' = Append(frames, Frame("refused", << >>))
  /\ UNCHANGED <<queueVars, agentVars, clientVars, persisted, sent, handled, streams>>

HandleClose ==
  /\ CanWrite
  /\ requests # << >> /\ Head(requests).kind = "close"
  /\ requests' = Tail(requests)
  /\ frames' = Append(frames, Frame("closed", << >>))
  /\ serving' = FALSE
  /\ UNCHANGED <<queueVars, cursor, inFlight, sentIds, clientVars, persisted, sent, handled,
                 streams, faults>>

(* The Controller is gone: once what it wrote is read, the stream ends;    *)
(* a write to the closed connection ends it earlier.                       *)
SeeEof ==
  /\ serving /\ pc = "off"
  /\ serving' = FALSE
  /\ UNCHANGED <<queueVars, cursor, inFlight, sentIds, requests, frames, clientVars,
                 persisted, sent, handled, streams, faults>>

(* The outbox cannot be read or written, or the process stops: every error *)
(* leaves serve_event_stream and the connection closes.                    *)
StreamFails ==
  /\ faults < MaxFaults /\ faults' = faults + 1
  /\ serving
  /\ serving' = FALSE
  /\ requests' = << >>
  /\ UNCHANGED <<queueVars, cursor, inFlight, sentIds, frames, clientVars, persisted, sent,
                 handled, streams>>
-----------------------------------------------------------------------------
(* The Controller's side.                                                  *)

(* next_response: what was put aside earlier comes before the connection.  *)
HasNext == pending # << >> \/ frames # << >>
NextFrame == IF pending # << >> THEN Head(pending) ELSE Head(frames)
TakeFrame ==
  IF pending # << >>
  THEN pending' = Tail(pending) /\ frames' = frames
  ELSE pending' = pending /\ frames' = Tail(frames)

(* Bug: read the connection first.                                         *)
ReadFrameNewestFirst ==
  LET f == IF frames # << >> THEN Head(frames) ELSE Head(pending) IN
  /\ pc = "reading"
  /\ HasNext
  /\ IF frames # << >>
     THEN pending' = pending /\ frames' = Tail(frames)
     ELSE pending' = Tail(pending) /\ frames' = frames
  /\ \/ /\ f.kind = "page"
        /\ pc' = "ingesting"
        /\ page' = f.events
     \/ /\ f.kind = "heartbeat"
        /\ UNCHANGED <<pc, page>>
  /\ UNCHANGED <<queueVars, agentVars, requests, aside, persisted, sent, handled, streams, faults>>

ReadFrame ==
  LET f == NextFrame IN
  /\ pc = "reading"
  /\ HasNext
  /\ TakeFrame
  /\ \/ /\ f.kind = "page"
        /\ pc' = "ingesting"
        /\ page' = f.events
     \/ /\ f.kind = "heartbeat"
        /\ UNCHANGED <<pc, page>>
  /\ UNCHANGED <<queueVars, agentVars, requests, aside, persisted, sent, handled, streams, faults>>

(* One transaction of ingest_runtime_events.                               *)
Ingest ==
  /\ pc = "ingesting"
  /\ persisted' = persisted \cup Range(page)
  /\ pc' = "persisted"
  /\ UNCHANGED <<queueVars, agentVars, requests, frames, page, pending, aside, sent, handled,
                 streams, faults>>

(* Bug: acknowledge before the page is persisted.                          *)
SendAckFirst ==
  /\ pc \in {"ingesting", "persisted"}
  /\ requests' = Append(requests, [kind |-> "ack", events |-> page])
  /\ pc' = "acking"
  /\ UNCHANGED <<queueVars, agentVars, frames, page, pending, aside, persisted, sent, handled,
                 streams, faults>>

SendAck ==
  /\ pc = "persisted"
  /\ requests' = Append(requests, [kind |-> "ack", events |-> page])
  /\ pc' = "acking"
  /\ UNCHANGED <<queueVars, agentVars, frames, page, pending, aside, persisted, sent, handled,
                 streams, faults>>

(* The deadline passes in the loop: ask the Agent to close the stream.     *)
SendClose ==
  /\ pc = "reading"
  /\ requests' = Append(requests, [kind |-> "close", events |-> << >>])
  /\ pc' = "closing"
  /\ UNCHANGED <<queueVars, agentVars, frames, page, pending, aside, persisted, sent, handled,
                 streams, faults>>

(* A frame that answers something else is put aside.                       *)
PutAside ==
  /\ pc \in {"acking", "closing"}
  /\ HasNext
  /\ NextFrame.kind \in {"page", "heartbeat"}
  /\ TakeFrame
  /\ aside' = Append(aside, NextFrame)
  /\ UNCHANGED <<queueVars, agentVars, requests, pc, page, persisted, sent, handled,
                 streams, faults>>

(* The answer: what was put aside is read next.                            *)
AckAnswered ==
  /\ pc = "acking"
  /\ HasNext
  /\ NextFrame.kind = "acked"
  /\ frames' = Tail(frames)
  /\ pending' = pending \o aside
  /\ aside' = << >>
  /\ handled' = Append(handled, page)
  /\ pc' = "reading"
  /\ page' = << >>
  /\ UNCHANGED <<queueVars, agentVars, requests, persisted, sent, streams, faults>>

(* stream_events returns, and what the client holds is gone with it.       *)
Finish ==
  /\ pc' = "off"
  /\ page' = << >> /\ pending' = << >> /\ aside' = << >>
  /\ UNCHANGED <<queueVars, agentVars, requests, frames, persisted, sent, handled, streams>>

(* The stream closed, the acknowledgement was refused, or the connection   *)
(* ended before the answer or the next frame.                              *)
Return ==
  /\ \/ pc = "closing" /\ HasNext /\ NextFrame.kind = "closed"
     \/ pc \in {"acking", "closing"} /\ HasNext /\ NextFrame.kind = "refused"
     \/ pc \in {"reading", "acking", "closing"} /\ ~HasNext /\ ~serving
     \/ pc = "persisted" /\ ~serving
  /\ Finish
  /\ UNCHANGED faults

(* The catalog cannot be written, or the Controller is killed.             *)
ControllerFails ==
  /\ faults < MaxFaults /\ faults' = faults + 1
  /\ pc # "off"
  /\ Finish
-----------------------------------------------------------------------------
Next ==
  \/ \E e \in Events : Queue(e)
  \/ \E n \in 1..OutboxCap : OtherPersists(n)
  \/ \E ids \in SUBSET Events : OtherAcks(ids)
  \/ Open
  \/ PushPage \/ PushHeartbeat
  \/ HandleAck \/ Refuse \/ HandleClose
  \/ SeeEof \/ StreamFails
  \/ ReadFrame \/ Ingest \/ SendAck \/ SendClose
  \/ PutAside \/ AckAnswered \/ Return \/ ControllerFails

Spec == Init /\ [][Next]_vars

(* The ticks go on, a request that can be read is read, and the Controller *)
(* does what it can.  Nothing makes an event appear or a deadline pass.    *)
(* The select! of the Agent picks at random among the ready branches, so   *)
(* a request that is there at every turn of the loop is read.              *)
Fairness ==
  /\ WF_vars(PushPage)
  /\ SF_vars(HandleAck \/ Refuse)
  /\ SF_vars(HandleClose \/ Refuse)
  /\ WF_vars(SeeEof)
  /\ WF_vars(ReadFrame \/ Ingest \/ SendAck \/ PutAside \/ AckAnswered \/ Return)

FairSpec == Spec /\ Fairness
-----------------------------------------------------------------------------
(* At-least-once on a stream: whatever fails, an event leaves the outbox   *)
(* only when the catalog has it or newer events fill the outbox.           *)
NothingLostSilently ==
  [][\A e \in Range(outbox) \ Range(outbox') :
       e \in persisted' \/ Len(outbox') = OutboxCap]_vars

(* Seen from outside, streams, other passes, connector and catalog together *)
(* are the log that polling passes implement.                              *)
Log == INSTANCE AtLeastOnceLog WITH
         Event <- Events, Bound <- OutboxCap, queued <- Range(outbox),
         delivered <- persisted, dropped <- evicted

ImplementsLog == Log!Spec

(* The pages the Controller has handled, works on, has put aside and has   *)
(* not read are, in this order, the pages the Agent pushed: the client     *)
(* loses, repeats and reorders none, however pages and answers cross.      *)
PagesIn(fs) ==
  LET P == {i \in DOMAIN fs : fs[i].kind = "page"}
  IN  [n \in 1..Cardinality(P) |-> fs[Nth(P, n)].events]

FramesInOrder ==
  pc # "off" =>
    sent = handled \o (IF page = << >> THEN << >> ELSE <<page>>)
                   \o PagesIn(aside) \o PagesIn(pending) \o PagesIn(frames)

(* While the stream is served, what the Controller has still to handle     *)
(* counts against the window, and the window is never exceeded; no two     *)
(* pages of a stream share an event.                                       *)
WindowHolds ==
  /\ Cardinality(inFlight) <= MaxInFlight
  /\ serving /\ pc # "off" =>
       \A p \in Range(PagesIn(aside \o pending \o frames)) : Range(p) \subseteq inFlight
  /\ \A i, j \in DOMAIN sent : i # j => Range(sent[i]) \cap Range(sent[j]) = {}

(* The cursor's event was queued again, behind e.                          *)
Overtaken(e) == \E i \in DOMAIN outbox : outbox[i] = e /\ i < StartAfter(outbox, cursor)

(* An event the stream has not sent is sent, leaves the outbox, or the     *)
(* stream ends; except that an event in front of a re-queued cursor waits. *)
EventuallyStreamed ==
  \A e \in Events :
    serving /\ e \in Range(outbox) \ sentIds
      ~> e \in sentIds \/ e \notin Range(outbox) \/ ~serving \/ Overtaken(e)

(* Every event is streamed, overtaken or not.                              *)
EveryEventStreamed ==
  \A e \in Events :
    serving /\ e \in Range(outbox) \ sentIds
      ~> e \in sentIds \/ e \notin Range(outbox) \/ ~serving
=============================================================================
