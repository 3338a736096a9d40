---------------------------- MODULE AgentAccess ----------------------------
(***************************************************************************)
(* How Controller commands reach an Agent and are accepted by it:          *)
(* starting a child Agent, the Unix socket, the connection retries,        *)
(* registration, enrollment with a pairing code, and the credential each   *)
(* side keeps in its platform secret store.                                *)
(*                                                                         *)
(* A resident Agent (the LaunchAgent, or a remote host's) may be running.  *)
(* Every local invocation may start an Agent of its own, which removes the *)
(* socket file it finds and binds the path itself, and kills it at its     *)
(* end, unless it is a collection that fails.  The child Agent of          *)
(* invocation c is named c, and so is the credential that enrollment c     *)
(* obtains.                                                                *)
(***************************************************************************)
EXTENDS Integers

CONSTANTS
  Commands,     \* invocations that use a credential: run-once, events, ...
  Collectors,   \* the commands among them that are a run-once or a watch pass
  Enrollers,    \* invocations of enroll
  Resident,     \* the Agent process that is not a child
  None,         \* no token, no code, no Agent
  Dev,          \* the default --token, replaced by the stored credential
  Own,          \* a --token the operator chose
  Deployments,  \* the deployments considered, and who calls in them
  MaxStarts,    \* bound on starts of the resident
  MaxFaults     \* bound on failures and expirations

ASSUME AccessAssumption ==
  /\ Commands \cap Enrollers = {}
  /\ Collectors \subseteq Commands
  /\ Resident \notin Commands \cup Enrollers
  /\ {None, Dev, Own} \cap (Commands \cup Enrollers \cup {Resident}) = {}
  /\ None \notin (Commands \cup Enrollers \cup {Resident}) \X (0..MaxStarts)
  /\ Dev # None /\ Own # None /\ Dev # Own
  /\ Deployments \subseteq
       [endpoint : {"unix", "tls"}, arg : {Dev, Own}, release : {"same", "other"},
        callers : SUBSET (Commands \cup Enrollers)]
  /\ MaxStarts \in Nat
  /\ MaxFaults \in Nat

Invocations == Commands \cup Enrollers
Agents == Invocations \cup {Resident}
Hosts  == {"agent", "controller"}
Tokens == Enrollers \cup {Dev, Own}
Codes  == Agents \X (0..MaxStarts)

VARIABLES
  setting,   \* the deployment: the resident's endpoint, a socket or that of
             \* another machine, behind TLS; the --token it is started
             \* with; whether it is of the Controller's release line
  store,     \* per host, the credential in its secret store
  agent,     \* per Agent process, its state and its AgentAuth
  socket,    \* the process that bound the socket path last
  inv,       \* per invocation, where it stands
  hosts,     \* whether the catalog knows the host's connection
  expired,   \* credentials whose credential_expires_at has passed
  crossed,   \* history: enrollments that had passed the comparison with a
             \* code when another one spent it
  killed,    \* history: invocations killed before their end
  starts,    \* history: starts of the resident
  faults     \* history: failures and expirations

vars == <<setting, store, agent, socket, inv, hosts, expired, crossed, killed, starts, faults>>

Agent == [up : {"down", "starting", "serving"}, bootstrap : Tokens \cup {None},
          enrolled : Enrollers \cup {None}, code : Codes \cup {None},
          late : BOOLEAN]   \* pairing_expires_at has passed
Down == [up |-> "down", bootstrap |-> None, enrolled |-> None, code |-> None, late |-> FALSE]

Asks == {"register", "enroll", "mint", "capabilities", "heartbeat", "keep", "working"}
Invocation ==
  [pc     : {"idle", "connecting", "ending", "done"} \cup Asks,
   token  : Tokens \cup {None},
   code   : Codes \cup {None},
   child  : Invocations \cup {None},
   peer   : Agents \cup {None},   \* None also when the connection was closed
   result : {"none", "ok", "refused", "unreachable", "incompatible", "failed"}]

TypeOK ==
  /\ setting \in Deployments
  /\ expired \in SUBSET Enrollers
  /\ crossed \in SUBSET Enrollers
  /\ store \in [Hosts -> Enrollers \cup {None}]
  /\ agent \in [Agents -> Agent]
  /\ socket \in Agents \cup {None}
  /\ inv \in [Invocations -> Invocation]
  /\ \A c \in Invocations :
       /\ inv[c].peer # None => inv[c].pc \in Asks
       /\ inv[c].pc \in {"ending", "done"} <=> inv[c].result # "none"
       /\ agent[c].up # "down" => inv[c].child = c
  /\ hosts \in BOOLEAN
  /\ killed \in SUBSET Invocations
  /\ starts \in 0..MaxStarts
  /\ faults \in 0..MaxFaults

Init ==
  /\ setting \in Deployments
  /\ store = [h \in Hosts |-> None]
  /\ agent = [a \in Agents |-> Down]
  /\ socket = None
  /\ inv = [c \in Invocations |->
              [pc |-> "idle", token |-> None, code |-> None, child |-> None,
               peer |-> None, result |-> "none"]]
  /\ hosts = FALSE
  /\ expired = {} /\ crossed = {} /\ killed = {} /\ starts = 0 /\ faults = 0
-----------------------------------------------------------------------------
(* The secret store of one machine: the Controller's is the Agent's own    *)
(* when they share a host.                                                 *)
Remote == setting.endpoint = "tls"
ControllerHost == IF Remote THEN "controller" ELSE "agent"

(* resolve_agent_token: the default token stands for the stored one.       *)
Resolved(token, host) ==
  IF token = Dev /\ store[host] # None THEN store[host] ELSE token

(* AgentAuth::accepts: the bootstrap token is good for ever, the enrolled  *)
(* credential until it expires.                                            *)
Accepts(a, token) ==
  /\ token # None
  /\ \/ token = agent[a].bootstrap
     \/ token = agent[a].enrolled /\ token \notin expired

(* serve: a fresh AgentAuth; a local Agent removes the socket file it      *)
(* finds and binds the path.                                               *)
Serve(a, token, code) ==
  /\ agent' = [agent EXCEPT ![a] = [up |-> "serving", bootstrap |-> Resolved(token, "agent"),
                                    enrolled |-> None, code |-> code, late |-> FALSE]]
  /\ socket' = IF Remote THEN socket ELSE a

ResidentStarts ==
  /\ starts < MaxStarts /\ starts' = starts + 1
  /\ agent[Resident].up = "down"
  /\ Serve(Resident, setting.arg, <<Resident, starts>>)
  /\ UNCHANGED <<setting, store, inv, hosts, expired, crossed, killed, faults>>

(* The process a is gone, and its connections with it.                     *)
HungUp(a) == 
  [c \in Invocations |-> IF inv[c].peer = a THEN [inv[c] EXCEPT !.peer = None] ELSE inv[c]]

ResidentStops ==
  /\ agent[Resident].up = "serving"
  /\ agent' = [agent EXCEPT ![Resident] = Down]
  /\ inv' = HungUp(Resident)
  /\ UNCHANGED <<setting, store, socket, hosts, expired, crossed, killed, starts, faults>>

Fault == faults < MaxFaults /\ faults' = faults + 1

(* The pairing code is good for minutes, the credential for a year.  Each  *)
(* keeps its value when its time has passed.                               *)
Expire(a) ==
  /\ Fault
  /\ agent[a].up = "serving"
  /\ \/ /\ ~agent[a].late
        /\ agent' = [agent EXCEPT ![a].late = TRUE]
        /\ UNCHANGED expired
     \/ /\ agent[a].enrolled \notin expired \cup {None}
        /\ expired' = expired \cup {agent[a].enrolled}
        /\ UNCHANGED agent
  /\ UNCHANGED <<setting, store, socket, inv, hosts, crossed, killed, starts>>
-----------------------------------------------------------------------------
(* An invocation resolves its token and, unless told not to, starts a      *)
(* child Agent.  enroll takes no token of its own; it names the code of    *)
(* the child it starts, or one the resident displayed: this start's or an  *)
(* earlier one's, unused, in use or spent.                                 *)
Begin(c, token, code, child) ==
  /\ inv[c].pc = "idle" /\ c \in setting.callers
  /\ child => ~Remote
  /\ inv' = [inv EXCEPT ![c].pc = "connecting", ![c].token = token, ![c].code = code,
                        ![c].child = IF child THEN c ELSE None]
  /\ agent' = IF child THEN [agent EXCEPT ![c].up = "starting"] ELSE agent
  /\ UNCHANGED <<setting, store, socket, hosts, expired, crossed, killed, starts, faults>>

BeginCommand(c, token, child) ==
  /\ c \in Commands
  /\ Begin(c, Resolved(token, ControllerHost), None, child)

BeginEnroll(e, child) ==
  /\ e \in Enrollers
  /\ \/ child /\ Begin(e, Dev, <<e, 0>>, child)
     \/ ~child /\ \E n \in 0..MaxStarts : n < starts /\ Begin(e, Dev, <<Resident, n>>, child)

ChildServes(c) ==
  /\ agent[c].up = "starting"
  /\ Serve(c, inv[c].token, IF inv[c].code = None THEN <<c, 0>> ELSE inv[c].code)
  /\ UNCHANGED <<setting, store, inv, hosts, expired, crossed, killed, starts, faults>>

(* The child cannot bind, or exits.                                        *)
ChildFails(c) ==
  /\ Fault
  /\ agent[c].up # "down"
  /\ agent' = [agent EXCEPT ![c] = Down]
  /\ inv' = HungUp(c)
  /\ UNCHANGED <<setting, store, socket, hosts, expired, crossed, killed, starts>>
-----------------------------------------------------------------------------
(* Whoever listens on the endpoint now: the path's last owner, alive.      *)
Listener ==
  LET a == IF Remote THEN Resident ELSE socket
  IN  IF a # None /\ agent[a].up = "serving" THEN a ELSE None

GoOn(c, pc) == inv' = [inv EXCEPT ![c].pc = pc]

Return(c, pc, result) ==
  inv' = [inv EXCEPT ![c].pc = pc, ![c].peer = None, ![c].result = result]

(* The other commands and enroll kill their child whatever the result; an  *)
(* error of run_once leaves it with ?, past the kill.                      *)
End(c, result) ==
  Return(c, IF c \in Collectors /\ result # "ok" THEN "done" ELSE "ending", result)

Connect(c) ==
  /\ inv[c].pc = "connecting"
  /\ Listener # None
  /\ inv' = [inv EXCEPT ![c].pc = IF c \in Enrollers THEN "enroll" ELSE "register",
                        ![c].peer = Listener]
  /\ UNCHANGED <<setting, store, agent, socket, hosts, expired, crossed, killed, starts, faults>>

(* Bug: the retries never end.                                             *)
GiveUpNever(c) == FALSE

(* 40 attempts 100 ms apart found no listener.                             *)
GiveUp(c) ==
  /\ inv[c].pc = "connecting"
  /\ Listener = None
  /\ End(c, "unreachable")
  /\ UNCHANGED <<setting, store, agent, socket, hosts, expired, crossed, killed, starts, faults>>

(* register_and_refresh, and the same two requests of enroll: each is      *)
(* authorized on its own, and the release line is checked in between.      *)
AfterAsk(c) ==
  CASE inv[c].pc = "register"     -> "capabilities"
    [] inv[c].pc = "capabilities" -> "heartbeat"
    [] inv[c].pc = "heartbeat"    -> IF c \in Enrollers THEN "keep" ELSE "working"

Ask(c) ==
  LET a == inv[c].peer IN
  /\ inv[c].pc \in {"register", "capabilities", "heartbeat"}
  /\ a # None
  /\ CASE ~Accepts(a, inv[c].token) -> End(c, "refused")
       [] /\ Accepts(a, inv[c].token) /\ inv[c].pc = "capabilities"
          /\ a = Resident /\ setting.release = "other" -> End(c, "incompatible")
       [] OTHER -> GoOn(c, AfterAsk(c))
  /\ UNCHANGED <<setting, store, agent, socket, hosts, expired, crossed, killed, starts, faults>>

(* The command's own work, which other modules model, ends or fails; for   *)
(* run_once also because no provider was collected, after the kill.        *)
Work(c) ==
  /\ inv[c].pc = "working"
  /\ \/ \E r \in {"ok", "failed"} : End(c, r)
     \/ Return(c, "ending", "failed")
  /\ UNCHANGED <<setting, store, agent, socket, hosts, expired, crossed, killed, starts, faults>>

(* Enroll, first lock of the mutex: the code is compared, as an Option,    *)
(* and the time.  An enroll of the Controller always names a code, so a    *)
(* code that is spent equals none of theirs.                               *)
CheckCode(c) ==
  /\ inv[c].pc = "enroll"
  /\ inv[c].peer # None
  /\ LET a == agent[inv[c].peer] IN
       IF a.code = inv[c].code /\ ~a.late THEN GoOn(c, "mint") ELSE End(c, "refused")
  /\ UNCHANGED <<setting, store, agent, socket, hosts, expired, crossed, killed, starts, faults>>

(* The enrollments that stand between their two locks of Agent a.          *)
Crossing(c, a) == {e \in Enrollers \ {c} : inv[e].pc = "mint" /\ inv[e].peer = a}

(* Bug: the code stays good.                                               *)
MintKeepingCode(c) ==
  LET a == inv[c].peer IN
  /\ inv[c].pc = "mint"
  /\ a # None
  /\ agent' = [agent EXCEPT ![a].enrolled = c]
  /\ crossed' = crossed \cup Crossing(c, a)
  /\ \/ /\ store' = [store EXCEPT !["agent"] = c]
        /\ inv' = [inv EXCEPT ![c].pc = "capabilities", ![c].token = c]
        /\ UNCHANGED faults
     \/ /\ Fault
        /\ End(c, "failed")
        /\ UNCHANGED store
  /\ UNCHANGED <<setting, socket, hosts, expired, killed, starts>>

(* Second lock, without another comparison: a new credential, the code is  *)
(* spent, and the credential is written to the Agent's secret store, which *)
(* may fail.                                                               *)
Mint(c) ==
  LET a == inv[c].peer IN
  /\ inv[c].pc = "mint"
  /\ a # None
  /\ agent' = [agent EXCEPT ![a].enrolled = c, ![a].code = None]
  /\ crossed' = crossed \cup Crossing(c, a)
  /\ \/ /\ store' = [store EXCEPT !["agent"] = c]
        /\ inv' = [inv EXCEPT ![c].pc = "capabilities", ![c].token = c]
        /\ UNCHANGED faults
     \/ /\ Fault
        /\ End(c, "failed")
        /\ UNCHANGED store
  /\ UNCHANGED <<setting, socket, hosts, expired, killed, starts>>

(* The Controller keeps the credential and records the connection; then    *)
(* Shutdown, which only closes this connection.                            *)
Keep(c) ==
  /\ inv[c].pc = "keep"
  /\ \/ /\ store' = [store EXCEPT ![ControllerHost] = c]
        /\ \/ hosts' = TRUE /\ End(c, "ok") /\ UNCHANGED faults
           \/ Fault /\ hosts' = hosts /\ End(c, "failed")
     \/ /\ Fault
        /\ End(c, "failed")
        /\ UNCHANGED <<store, hosts>>
  /\ UNCHANGED <<setting, agent, socket, expired, crossed, killed, starts>>

(* The Agent at the other end is gone: the request fails.                  *)
Lost(c) ==
  /\ inv[c].pc \in {"register", "enroll", "mint", "capabilities", "heartbeat"}
  /\ inv[c].peer = None
  /\ End(c, "failed")
  /\ UNCHANGED <<setting, store, agent, socket, hosts, expired, crossed, killed, starts, faults>>

(* The child is killed; the socket file stays.                             *)
KillChild(c) ==
  /\ inv[c].pc = "ending"
  /\ IF inv[c].child = c
     THEN agent' = [agent EXCEPT ![c] = Down] /\ inv' = [HungUp(c) EXCEPT ![c].pc = "done"]
     ELSE agent' = agent /\ GoOn(c, "done")
  /\ UNCHANGED <<setting, store, socket, hosts, expired, crossed, killed, starts, faults>>

(* The Controller is killed: its child, if any, is left running.           *)
Killed(c) ==
  /\ Fault
  /\ inv[c].pc \notin {"idle", "done"}
  /\ inv' = [inv EXCEPT ![c].pc = "done", ![c].peer = None, ![c].result = "failed"]
  /\ killed' = killed \cup {c}
  /\ UNCHANGED <<setting, store, agent, socket, hosts, expired, crossed, starts>>
-----------------------------------------------------------------------------
InvocationStep(c) ==
  \/ Connect(c) \/ GiveUp(c) \/ Ask(c) \/ Work(c)
  \/ CheckCode(c) \/ Mint(c) \/ Keep(c) \/ Lost(c) \/ KillChild(c)

Next ==
  \/ ResidentStarts \/ ResidentStops
  \/ \E a \in Agents : Expire(a)
  \/ \E c \in Invocations :
       \/ \E token \in {Dev, Own}, child \in BOOLEAN : BeginCommand(c, token, child)
       \/ \E child \in BOOLEAN : BeginEnroll(c, child)
       \/ ChildServes(c) \/ ChildFails(c)
       \/ InvocationStep(c)
       \/ Killed(c)

Spec == Init /\ [][Next]_vars

(* The runtime drives each invocation, and a started child gets to serve.  *)
Fairness == \A c \in Invocations : WF_vars(InvocationStep(c)) /\ WF_vars(ChildServes(c))

FairSpec == Spec /\ Fairness
-----------------------------------------------------------------------------
(* The credential in a remote Agent's secret store opens the resident      *)
(* Agent: the process that minted it and, with the default token, every    *)
(* later start.  An enrollment that fails half-way, at either side, does   *)
(* not take it away, but for one whose code another enrollment spent       *)
(* between its comparison and its own credential: the code is compared     *)
(* under one lock and spent under the next.                                *)
KeptIsAccepted ==
  Remote /\ setting.arg = Dev /\ agent[Resident].up = "serving" /\ store["agent"] # None
    => \/ Accepts(Resident, store["agent"])
       \/ store["agent"] \in expired
       \/ agent[Resident].enrolled \in crossed

(* Every invocation ends, also when no Agent ever listens, when the one it *)
(* talks to stops, and when it is refused; and it leaves no Agent process  *)
(* behind, unless it was killed itself or is a collection that failed.     *)
InvocationEnds ==
  \A c \in Invocations :
    inv[c].pc # "idle"
      ~> /\ inv[c].pc = "done"
         /\ \/ agent[c].up = "down"
            \/ c \in killed
            \/ c \in Collectors /\ inv[c].result # "ok"

(* "The temporary Agent is stopped by a successful enrollment."            *)
EnrollmentStopsAgent ==
  \A e \in Enrollers :
    inv[e].pc = "done" /\ inv[e].result = "ok"
      => \A a \in Agents : agent[a].enrolled = e => agent[a].up # "serving"

(* "One-time pairing code": two enrollments do not get credentials for one *)
(* code.                                                                   *)
CodeUsedOnce ==
  \A e, f \in Enrollers :
    e # f /\ inv[e].token = e /\ inv[f].token = f => inv[e].code # inv[f].code

(* An invocation that ends by itself leaves no Agent process behind.       *)
NothingLeftBehind ==
  \A c \in Invocations : inv[c].pc = "done" => agent[c].up = "down" \/ c \in killed

(* A resident Agent that serves on this machine can be reached.            *)
ResidentReachable == agent[Resident].up = "serving" => Listener = Resident
=============================================================================
