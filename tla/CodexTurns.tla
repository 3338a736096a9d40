---------------------------- MODULE CodexTurns ----------------------------
(***************************************************************************)
(* The clients of a Codex app-server process: the desktop's ask_codex,     *)
(* which runs one cancellable turn, and the Agent's runtime reads.         *)
(*                                                                         *)
(* Each use spawns a process of its own and talks to it over stdio: a      *)
(* request carries an id, and every message read before the answer with    *)
(* that id is put on a queue, from which the turn loop takes messages      *)
(* before it reads again.  The desktop keeps, per request id, the sender   *)
(* that cancels the turn.  The app-server is modelled by what the client   *)
(* relies on: it answers a request, and a turn it runs sends messages      *)
(* until it completes, by itself or interrupted.                           *)
(***************************************************************************)
EXTENDS Integers, Sequences

CONSTANTS
  AskCalls,    \* ask_codex invocations
  Reads,       \* RuntimeListThreads and RuntimeReadThread requests
  Ids,         \* request ids the desktop names
  NoAsk,       \* no entry in the registry
  MaxMessages, \* bound on messages a turn sends before it completes
  MaxFailures  \* bound on failures

ASSUME TurnsAssumption ==
  /\ AskCalls \cap Reads = {}
  /\ NoAsk \notin AskCalls
  /\ MaxMessages \in Nat
  /\ MaxFailures \in Nat

Clients == AskCalls \cup Reads

VARIABLES
  id,       \* per ask, the request id it names
  registry, \* CodexTurnRegistry: per request id, whose sender it holds
  cancel,   \* per ask, what its watch channel holds
  unseen,   \* per ask, whether that value has not been looked at
  client,   \* per client, where it stands
  server,   \* per client, its app-server process
  stdin,    \* per client, requests the app-server has not read
  stdout,   \* per client, messages the client has not read
  queued,   \* AppServerClient.notifications
  observed, \* per ask, the turn messages handed to on_event
  recorded, \* asks whose session is in the catalog
  failures  \* history: failures so far

deskVars == <<id, registry, cancel, unseen>>
wire == <<stdin, stdout>>
turnsVars == <<deskVars, client, server, wire, queued, observed, recorded, failures>>

Methods == {"initialize", "thread/start", "turn/start", "turn/interrupt", "thread/list"}
Answer(method, ok) == [kind |-> "answer", method |-> method, ok |-> ok, n |-> 0]
TurnMessage(kind, n) == [kind |-> kind, method |-> "turn/start", ok |-> TRUE, n |-> n]
Messages == [kind : {"answer", "item", "completed"}, method : Methods, ok : BOOLEAN,
             n : 0..(MaxMessages + 1)]
Use == [pc     : {"idle", "asking", "top", "select", "complete", "shutdown", "unregister", "done"},
        method : Methods,
        interrupted : BOOLEAN,
        result : {"none", "ok", "failed", "duplicate"}]
Server == [up : BOOLEAN, stdin : BOOLEAN,
           turn : {"none", "running", "completed", "interrupted"}, n : 0..(MaxMessages + 1)]

TurnsTypeOK ==
  /\ id \in [AskCalls -> Ids]
  /\ registry \in [Ids -> AskCalls \cup {NoAsk}]
  /\ cancel \in [AskCalls -> BOOLEAN]
  /\ unseen \in [AskCalls -> BOOLEAN]
  /\ client \in [Clients -> Use]
  /\ \A c \in Clients : client[c].pc = "done" => client[c].result # "none"
  /\ server \in [Clients -> Server]
  /\ stdin \in [Clients -> Seq(Methods)]
  /\ stdout \in [Clients -> Seq(Messages)]
  /\ queued \in [Clients -> Seq(Messages)]
  /\ observed \in [Clients -> Seq(Messages)]
  /\ recorded \in SUBSET AskCalls
  /\ failures \in 0..MaxFailures

TurnsInit ==
  /\ id \in [AskCalls -> Ids]
  /\ registry = [q \in Ids |-> NoAsk]
  /\ cancel = [a \in AskCalls |-> FALSE]
  /\ unseen = [a \in AskCalls |-> FALSE]
  /\ client = [c \in Clients |-> [pc |-> "idle", method |-> "initialize",
                                  interrupted |-> FALSE, result |-> "none"]]
  /\ server = [c \in Clients |-> [up |-> FALSE, stdin |-> FALSE, turn |-> "none", n |-> 0]]
  /\ stdin = [c \in Clients |-> << >>]
  /\ stdout = [c \in Clients |-> << >>]
  /\ queued = [c \in Clients |-> << >>]
  /\ observed = [c \in Clients |-> << >>]
  /\ recorded = {}
  /\ failures = 0

Failure == failures < MaxFailures /\ failures' = failures + 1
-----------------------------------------------------------------------------
(* The app-server.                                                         *)

(* What it writes for a request; only a running turn can be interrupted.   *)
Serves(c) ==
  LET m == Head(stdin[c]) IN
  /\ server[c].up
  /\ stdin[c] # << >>
  /\ stdin' = [stdin EXCEPT ![c] = Tail(@)]
  /\ \/ /\ m = "turn/start"
        /\ server' = [server EXCEPT ![c].turn = "running"]
        /\ stdout' = [stdout EXCEPT ![c] = Append(@, Answer(m, TRUE))]
        /\ UNCHANGED failures
     \/ /\ m = "turn/interrupt"
        /\ IF server[c].turn = "running"
           THEN /\ server' = [server EXCEPT ![c].turn = "interrupted", ![c].n = @ + 1]
                /\ stdout' = [stdout EXCEPT ![c] =
                     @ \o <<Answer(m, TRUE), TurnMessage("completed", server[c].n + 1)>>]
           ELSE /\ server' = server
                /\ stdout' = [stdout EXCEPT ![c] = Append(@, Answer(m, FALSE))]
        /\ UNCHANGED failures
     \/ /\ m \notin {"turn/start", "turn/interrupt"}
        /\ server' = server
        /\ stdout' = [stdout EXCEPT ![c] = Append(@, Answer(m, TRUE))]
        /\ UNCHANGED failures
     \/ /\ Failure
        /\ server' = server
        /\ stdout' = [stdout EXCEPT ![c] = Append(@, Answer(m, FALSE))]
  /\ UNCHANGED <<deskVars, client, queued, observed, recorded>>

TurnSends(c) ==
  /\ server[c].up
  /\ server[c].turn = "running"
  /\ \/ /\ server[c].n < MaxMessages
        /\ stdout' = [stdout EXCEPT ![c] = Append(@, TurnMessage("item", server[c].n + 1))]
        /\ server' = [server EXCEPT ![c].n = @ + 1]
     \/ /\ stdout' = [stdout EXCEPT ![c] = Append(@, TurnMessage("completed", server[c].n + 1))]
        /\ server' = [server EXCEPT ![c].n = @ + 1, ![c].turn = "completed"]
  /\ UNCHANGED <<deskVars, client, stdin, queued, observed, recorded, failures>>

(* It stops, or it sees the end of its standard input.                     *)
ServerEnds(c) ==
  /\ server[c].up
  /\ \/ Failure
     \/ ~server[c].stdin /\ UNCHANGED failures
  /\ server' = [server EXCEPT ![c].up = FALSE]
  /\ UNCHANGED <<deskVars, client, wire, queued, observed, recorded>>
-----------------------------------------------------------------------------
(* The desktop's registry.                                                 *)

(* insert returns the sender it replaced: the second ask with an id that   *)
(* is active fails, and the first one's sender is gone from the map.       *)
BeginAsk(a) ==
  /\ client[a].pc = "idle"
  /\ registry' = [registry EXCEPT ![id[a]] = a]
  /\ IF registry[id[a]] # NoAsk
     THEN /\ client' = [client EXCEPT ![a].pc = "done", ![a].result = "duplicate"]
          /\ UNCHANGED <<server, stdin>>
     ELSE /\ client' = [client EXCEPT ![a].pc = "asking"]
          /\ server' = [server EXCEPT ![a].up = TRUE, ![a].stdin = TRUE]
          /\ stdin' = [stdin EXCEPT ![a] = <<"initialize">>]
  /\ UNCHANGED <<id, cancel, unseen, stdout, queued, observed, recorded, failures>>

BeginRead(c) ==
  /\ c \in Reads
  /\ client[c].pc = "idle"
  /\ client' = [client EXCEPT ![c].pc = "asking"]
  /\ server' = [server EXCEPT ![c].up = TRUE, ![c].stdin = TRUE]
  /\ stdin' = [stdin EXCEPT ![c] = <<"initialize">>]
  /\ UNCHANGED <<deskVars, stdout, queued, observed, recorded, failures>>

(* The process cannot be started.                                          *)
SpawnFails(c) ==
  /\ Failure
  /\ client[c].pc = "idle"
  /\ c \in AskCalls => registry[id[c]] = NoAsk
  /\ client' = [client EXCEPT ![c].pc = IF c \in AskCalls THEN "unregister" ELSE "done",
                              ![c].result = "failed"]
  /\ registry' = IF c \in AskCalls THEN [registry EXCEPT ![id[c]] = c] ELSE registry
  /\ UNCHANGED <<id, cancel, unseen, server, wire, queued, observed, recorded>>

(* cancel_codex_turn: the registered sender, if its receiver still lives.  *)
Cancel(q) ==
  LET a == registry[q] IN
  /\ a # NoAsk
  /\ client[a].pc # "done"
  /\ ~cancel[a]
  /\ cancel' = [cancel EXCEPT ![a] = TRUE]
  /\ unseen' = [unseen EXCEPT ![a] = TRUE]
  /\ UNCHANGED <<id, registry, client, server, wire, queued, observed, recorded, failures>>
-----------------------------------------------------------------------------
(* AppServerClient.                                                        *)

Send(c, method) ==
  /\ stdin' = [stdin EXCEPT ![c] = Append(@, method)]

(* Bug: the error is swallowed.                                            *)
FailsSilently(c) ==
  /\ client' = [client EXCEPT ![c].pc = IF c \in AskCalls THEN "shutdown" ELSE "done"]
  /\ server' = [server EXCEPT ![c].stdin = c \in AskCalls]

(* An error leaves through the shutdown in ask_codex; the Agent's reads    *)
(* drop the client instead, which closes the process's standard input.     *)
Fails(c) ==
  /\ client' = [client EXCEPT ![c].pc = IF c \in AskCalls THEN "shutdown" ELSE "done",
                              ![c].result = "failed"]
  /\ server' = [server EXCEPT ![c].stdin = c \in AskCalls]

(* Bug: messages that are no answer are dropped while a request waits.     *)
ReadOtherDropping(c) ==
  /\ client[c].pc = "asking"
  /\ stdout[c] # << >>
  /\ ~(Head(stdout[c]).kind = "answer" /\ Head(stdout[c]).method = client[c].method)
  /\ stdout' = [stdout EXCEPT ![c] = Tail(@)]
  /\ UNCHANGED <<deskVars, client, server, stdin, queued, observed, recorded, failures>>

(* request: a message that is not the answer goes to the queue.            *)
ReadOther(c) ==
  /\ client[c].pc = "asking"
  /\ stdout[c] # << >>
  /\ ~(Head(stdout[c]).kind = "answer" /\ Head(stdout[c]).method = client[c].method)
  /\ queued' = [queued EXCEPT ![c] = Append(@, Head(stdout[c]))]
  /\ stdout' = [stdout EXCEPT ![c] = Tail(@)]
  /\ UNCHANGED <<deskVars, client, server, stdin, observed, recorded, failures>>

(* What the answer to a request leads to: the next request, the turn loop, *)
(* or the end of a read.                                                   *)
NextRequest(c) ==
  CASE client[c].method = "initialize" /\ c \in AskCalls -> "thread/start"
    [] client[c].method = "initialize" /\ c \in Reads -> "thread/list"
    [] client[c].method = "thread/start" -> "turn/start"
    [] OTHER -> "none"

Answered(c) ==
  LET m == Head(stdout[c]) IN
  /\ client[c].pc = "asking"
  /\ stdout[c] # << >>
  /\ m.kind = "answer" /\ m.method = client[c].method
  /\ stdout' = [stdout EXCEPT ![c] = Tail(@)]
  /\ \/ ~m.ok /\ Fails(c) /\ UNCHANGED stdin
     \/ /\ m.ok /\ NextRequest(c) # "none"
        /\ Send(c, NextRequest(c))
        /\ client' = [client EXCEPT ![c].method = NextRequest(c)]
        /\ UNCHANGED server
     \/ /\ m.ok /\ m.method \in {"turn/start", "turn/interrupt"}
        /\ client' = [client EXCEPT ![c].pc = "top",
                                    ![c].interrupted = m.method = "turn/interrupt"]
        /\ UNCHANGED <<stdin, server>>
     \/ /\ m.ok /\ m.method = "thread/list"
        /\ client' = [client EXCEPT ![c].pc = "shutdown", ![c].result = "ok"]
        /\ UNCHANGED <<stdin, server>>
  /\ UNCHANGED <<deskVars, queued, observed, recorded, failures>>

(* The end of the process's output, wherever it is read.                   *)
Closed(c) ==
  /\ client[c].pc \in {"asking", "select"}
  /\ client[c].pc = "select" => queued[c] = << >>
  /\ stdout[c] = << >> /\ ~server[c].up
  /\ Fails(c)
  /\ UNCHANGED <<deskVars, wire, queued, observed, recorded, failures>>

Interrupt(a) ==
  /\ Send(a, "turn/interrupt")
  /\ client' = [client EXCEPT ![a].pc = "asking", ![a].method = "turn/interrupt"]

(* Bug: the loop waits for the channel to change, and looks at it first.   *)
LoopTopOnlyChanges(a) ==
  /\ client[a].pc = "top"
  /\ client' = [client EXCEPT ![a].pc = "select"]
  /\ unseen' = [unseen EXCEPT ![a] = FALSE]
  /\ UNCHANGED <<id, registry, cancel, server, wire, queued, observed, recorded, failures>>

(* Bug: the interrupt is sent at every turn of the loop.                   *)
LoopTopAgain(a) ==
  /\ client[a].pc = "top"
  /\ IF cancel[a]
     THEN Interrupt(a)
     ELSE client' = [client EXCEPT ![a].pc = "select"] /\ UNCHANGED stdin
  /\ UNCHANGED <<deskVars, server, stdout, queued, observed, recorded, failures>>

(* The loop looks at the channel first, also for a cancellation that came  *)
(* before the turn.                                                        *)
LoopTop(a) ==
  /\ client[a].pc = "top"
  /\ IF cancel[a] /\ ~client[a].interrupted
     THEN Interrupt(a)
     ELSE client' = [client EXCEPT ![a].pc = "select"] /\ UNCHANGED stdin
  /\ UNCHANGED <<deskVars, server, stdout, queued, observed, recorded, failures>>

(* changed() resolves: the value is marked as seen.                        *)
SeeCancellation(a) ==
  /\ client[a].pc = "select"
  /\ queued[a] = << >>
  /\ unseen[a]
  /\ unseen' = [unseen EXCEPT ![a] = FALSE]
  /\ IF client[a].interrupted
     THEN client' = [client EXCEPT ![a].pc = "top"] /\ UNCHANGED stdin
     ELSE Interrupt(a)
  /\ UNCHANGED <<id, registry, cancel, server, stdout, queued, observed, recorded, failures>>

(* One message, from the queue first; the completion of the turn ends the  *)
(* loop.                                                                   *)
TurnMessageSeen(a) ==
  LET m == IF queued[a] # << >> THEN Head(queued[a]) ELSE Head(stdout[a]) IN
  /\ client[a].pc = "select"
  /\ IF queued[a] # << >>
     THEN queued' = [queued EXCEPT ![a] = Tail(@)] /\ UNCHANGED stdout
     ELSE /\ stdout[a] # << >>
          /\ stdout' = [stdout EXCEPT ![a] = Tail(@)]
          /\ UNCHANGED queued
  /\ observed' = [observed EXCEPT ![a] = Append(@, m)]
  /\ client' = [client EXCEPT ![a].pc = IF m.kind = "completed" THEN "complete" ELSE "top"]
  /\ UNCHANGED <<deskVars, server, stdin, recorded, failures>>

(* persist_embedded_session, in one transaction.                           *)
Record(a) ==
  /\ client[a].pc = "complete"
  /\ \/ /\ recorded' = recorded \cup {a}
        /\ client' = [client EXCEPT ![a].pc = "shutdown", ![a].result = "ok"]
        /\ UNCHANGED failures
     \/ /\ Failure
        /\ client' = [client EXCEPT ![a].pc = "shutdown", ![a].result = "failed"]
        /\ UNCHANGED recorded
  /\ UNCHANGED <<deskVars, server, wire, queued, observed>>

(* The process is killed and awaited.                                      *)
Shutdown(c) ==
  /\ client[c].pc = "shutdown"
  /\ server' = [server EXCEPT ![c].up = FALSE, ![c].stdin = FALSE]
  /\ client' = [client EXCEPT ![c].pc = IF c \in AskCalls THEN "unregister" ELSE "done"]
  /\ UNCHANGED <<deskVars, wire, queued, observed, recorded, failures>>

(* Whatever the id's entry is now is removed.                              *)
Unregister(a) ==
  /\ client[a].pc = "unregister"
  /\ registry' = [registry EXCEPT ![id[a]] = NoAsk]
  /\ client' = [client EXCEPT ![a].pc = "done"]
  /\ UNCHANGED <<id, cancel, unseen, server, wire, queued, observed, recorded, failures>>
-----------------------------------------------------------------------------
ClientStep(c) ==
  \/ ReadOther(c) \/ Answered(c) \/ Closed(c) \/ Shutdown(c)
  \/ /\ c \in AskCalls
     /\ \/ LoopTop(c) \/ SeeCancellation(c) \/ TurnMessageSeen(c)
        \/ Record(c) \/ Unregister(c)

TurnsNext ==
  \/ \E a \in AskCalls : BeginAsk(a)
  \/ \E q \in Ids : Cancel(q)
  \/ \E c \in Clients :
       \/ BeginRead(c) \/ SpawnFails(c)
       \/ Serves(c) \/ TurnSends(c) \/ ServerEnds(c)
       \/ ClientStep(c)

TurnsSpec == TurnsInit /\ [][TurnsNext]_turnsVars

(* The client's task runs, the app-server answers what it is asked and     *)
(* exits when its input ends.  A turn may run for ever.  A select! between *)
(* the cancellation and a message that are both there picks either.        *)
TurnsFairness ==
  \A c \in Clients :
    /\ WF_turnsVars(ClientStep(c))
    /\ WF_turnsVars(Serves(c))
    /\ WF_turnsVars(~server[c].stdin /\ ServerEnds(c))

TurnsFairSpec == TurnsSpec /\ TurnsFairness
-----------------------------------------------------------------------------
(* The messages of a turn reach on_event in the order they were sent and   *)
(* none is lost, although those that arrive while a request waits are read *)
(* by the request and taken up by the loop later.                          *)
OfTurn(s) == {i \in DOMAIN s : s[i].kind # "answer"}

InOrder(s, n) ==
  /\ {s[i].n : i \in OfTurn(s)} = 1..n
  /\ \A i, j \in OfTurn(s) : i < j => s[i].n < s[j].n

MessagesInOrder ==
  \A a \in AskCalls :
    client[a].pc \in {"asking", "top", "select", "complete"} =>
      InOrder(observed[a] \o queued[a] \o stdout[a], server[a].n)

(* An ask fails only on a failure, as a duplicate, or because the turn     *)
(* completed by itself while its cancellation was on the way: the answer   *)
(* of that turn is then lost.                                              *)
FailureExplained ==
  \A a \in AskCalls :
    client[a].result = "failed" /\ failures = 0
      => cancel[a] /\ server[a].turn = "completed" /\ a \notin recorded

(* A cancellation that was accepted ends the ask, whenever it comes: with  *)
(* the process starting, before the turn, during it or as it completes;    *)
(* the turn itself might never end.  A read ends by itself.  Either leaves *)
(* no app-server process behind.                                           *)
Ended(c) == client[c].pc = "done" /\ ~server[c].up

UsesEnd ==
  /\ \A a \in AskCalls : cancel[a] ~> Ended(a)
  /\ \A c \in Reads : client[c].pc # "idle" ~> Ended(c)

(* A turn that completed by itself is recorded.                            *)
CompletedTurnRecorded ==
  \A a \in AskCalls :
    client[a].pc = "done" /\ server[a].turn = "completed" /\ failures = 0 => a \in recorded

(* The running turn of a request id can be cancelled.                      *)
ActiveTurnRegistered ==
  \A a \in AskCalls :
    client[a].pc \notin {"idle", "unregister", "done"} => registry[id[a]] = a
=============================================================================
