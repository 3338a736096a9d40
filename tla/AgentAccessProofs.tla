------------------------- MODULE AgentAccessProofs -------------------------
(***************************************************************************)
(* Theorems about AgentAccess, for any number of commands, enrollments,    *)
(* starts and failures, and for all deployments; and, in the second part,  *)
(* about CodexTurns.  The two have their names apart, and no theorem is    *)
(* about both.                                                             *)
(***************************************************************************)
EXTENDS AgentAccess, CodexTurns, SequenceTheorems, TLAPS

Results == {"none", "ok", "refused", "unreachable", "incompatible", "failed"}
PCs == {"idle", "connecting", "ending", "done"} \cup Asks

(* The type of an invocation, with what only an enrollment does.           *)
InvocationOK(c, i) ==
  /\ i \in Invocation
  /\ i.child \in {None, c}
  /\ i.peer # None => i.pc \in Asks
  /\ i.pc \in {"ending", "done"} <=> i.result # "none"
  /\ i.pc = "idle" => i.child = None
  /\ i.pc \in {"enroll", "mint", "keep"} => c \in Enrollers

Types ==
  /\ setting \in Deployments
  /\ expired \in SUBSET Enrollers
  /\ crossed \in SUBSET Enrollers
  /\ store \in [Hosts -> Enrollers \cup {None}]
  /\ agent \in [Agents -> Agent]
  /\ socket \in Agents \cup {None}
  /\ inv \in [Invocations -> Invocation]
  /\ \A c \in Invocations : InvocationOK(c, inv[c])
  /\ \A c \in Invocations : agent[c].up # "down" => inv[c].child = c
  /\ hosts \in BOOLEAN
  /\ killed \in SUBSET Invocations
  /\ starts \in 0..MaxStarts
  /\ faults \in 0..MaxFaults

LEMMA SetsApart ==
  /\ Commands \subseteq Invocations /\ Enrollers \subseteq Invocations
  /\ Invocations \subseteq Agents /\ Resident \in Agents /\ Resident \notin Invocations
  /\ None \notin Agents /\ None \notin Enrollers /\ Dev # None /\ Own # None
  /\ Commands \cap Enrollers = {} /\ None \notin Codes
BY AccessAssumption DEF Invocations, Agents, Codes

LEMMA FaultType == Types /\ Fault => faults' \in 0..MaxFaults
BY AccessAssumption DEF Types, Fault

LEMMA ResolvedType ==
  ASSUME Types, NEW t \in Tokens \cup {None}, NEW h \in Hosts
  PROVE  Resolved(t, h) \in Tokens \cup {None}
BY DEF Types, Resolved, Tokens

(* A step of one invocation that leaves the Agents alone.                  *)
LEMMA OneChanges ==
  ASSUME Types, NEW c \in Invocations, NEW i, InvocationOK(c, i),
         inv' = [inv EXCEPT ![c] = i],
         i.child = inv[c].child, UNCHANGED agent
  PROVE  /\ inv' \in [Invocations -> Invocation]
         /\ \A x \in Invocations : InvocationOK(x, inv'[x])
         /\ \A x \in Invocations : agent'[x].up # "down" => inv'[x].child = x
<1>1. i \in Invocation
  BY DEF InvocationOK
<1>2. \A x \in Invocations : inv'[x] = IF x = c THEN i ELSE inv[x]
  BY DEF Types
<1> QED
  BY <1>1, <1>2 DEF Types

LEMMA HungUpType ==
  ASSUME Types, NEW a
  PROVE  /\ HungUp(a) \in [Invocations -> Invocation]
         /\ \A x \in Invocations : /\ InvocationOK(x, HungUp(a)[x])
                                   /\ HungUp(a)[x].child = inv[x].child
                                   /\ HungUp(a)[x].pc = inv[x].pc
                                   /\ HungUp(a)[x].code = inv[x].code
                                   /\ HungUp(a)[x].result = inv[x].result
                                   /\ HungUp(a)[x].token = inv[x].token
                                   /\ HungUp(a)[x].peer = IF inv[x].peer = a THEN None ELSE inv[x].peer
<1>1. ASSUME NEW x \in Invocations
      PROVE  /\ InvocationOK(x, HungUp(a)[x])
             /\ HungUp(a)[x].child = inv[x].child
             /\ HungUp(a)[x].pc = inv[x].pc
             /\ HungUp(a)[x].code = inv[x].code
             /\ HungUp(a)[x].result = inv[x].result
             /\ HungUp(a)[x].token = inv[x].token
             /\ HungUp(a)[x].peer = IF inv[x].peer = a THEN None ELSE inv[x].peer
  <2>1. HungUp(a)[x] = IF inv[x].peer = a THEN [inv[x] EXCEPT !.peer = None] ELSE inv[x]
    BY DEF HungUp
  <2>2. InvocationOK(x, inv[x]) /\ inv[x] \in Invocation
    BY DEF Types
  <2>3. CASE inv[x].peer = a
    <3>1. HungUp(a)[x] = [inv[x] EXCEPT !.peer = None]
      BY <2>1, <2>3
    <3> QED
      BY <2>2, <2>3, <3>1 DEF Invocation, InvocationOK
  <2>4. CASE inv[x].peer # a
    BY <2>1, <2>2, <2>4
  <2> QED
    BY <2>3, <2>4
<1>2. \A x \in Invocations : HungUp(a)[x] \in Invocation
  BY <1>1 DEF InvocationOK
<1>3. HungUp(a) = [x \in Invocations |-> HungUp(a)[x]]
  BY DEF HungUp
<1> QED
  BY <1>1, <1>2, <1>3

LEMMA AskType ==
  ASSUME Types, NEW c \in Invocations, inv[c].pc \in Asks, NEW p \in Asks,
         p \in {"enroll", "mint", "keep"} => c \in Enrollers
  PROVE  InvocationOK(c, [inv[c] EXCEPT !.pc = p])
<1>1. InvocationOK(c, inv[c]) /\ inv[c] \in Invocation
  BY DEF Types
<1> QED
  BY <1>1 DEF InvocationOK, Invocation, Asks

LEMMA EndType ==
  ASSUME Types, NEW c \in Invocations, NEW p \in {"ending", "done"}, NEW r \in Results \ {"none"}
  PROVE  InvocationOK(c, [inv[c] EXCEPT !.pc = p, !.peer = None, !.result = r])
<1>1. InvocationOK(c, inv[c]) /\ inv[c] \in Invocation
  BY DEF Types
<1>2. inv[c].pc = "idle" => inv[c].child = None
  BY <1>1 DEF InvocationOK
<1> QED
  BY <1>1 DEF InvocationOK, Invocation, Asks, Results

(* What GoOn and End do to the table of invocations.                       *)
LEMMA GoOnType ==
  ASSUME Types, NEW c \in Invocations, inv[c].pc \in Asks, NEW p \in Asks,
         p \in {"enroll", "mint", "keep"} => c \in Enrollers, GoOn(c, p), UNCHANGED agent
  PROVE  /\ inv' \in [Invocations -> Invocation]
         /\ \A x \in Invocations : InvocationOK(x, inv'[x])
         /\ \A x \in Invocations : agent'[x].up # "down" => inv'[x].child = x
<1>1. inv' = [inv EXCEPT ![c] = [inv[c] EXCEPT !.pc = p]]
  BY DEF GoOn
<1>2. [inv[c] EXCEPT !.pc = p].child = inv[c].child
  BY DEF Types, Invocation
<1> QED
  BY <1>1, <1>2, AskType, OneChanges

LEMMA EndedType ==
  ASSUME Types, NEW c \in Invocations, NEW p \in {"ending", "done"},
         NEW r \in Results \ {"none"}, Return(c, p, r), UNCHANGED agent
  PROVE  /\ inv' \in [Invocations -> Invocation]
         /\ \A x \in Invocations : InvocationOK(x, inv'[x])
         /\ \A x \in Invocations : agent'[x].up # "down" => inv'[x].child = x
<1>1. inv' = [inv EXCEPT ![c] = [inv[c] EXCEPT !.pc = p, !.peer = None, !.result = r]]
  BY DEF Return
<1>2. [inv[c] EXCEPT !.pc = p, !.peer = None, !.result = r].child = inv[c].child
  BY DEF Types, Invocation
<1> QED
  BY <1>1, <1>2, EndType, OneChanges

LEMMA EndReturns ==
  ASSUME NEW c, NEW r, End(c, r)
  PROVE  \E p \in {"ending", "done"} : Return(c, p, r)
BY DEF End

(* An Agent serves.                                                        *)
LEMMA ServeType ==
  ASSUME Types, NEW a \in Agents, NEW t \in Tokens \cup {None},
         NEW code \in Codes \cup {None},
         Serve(a, t, code)
  PROVE  /\ agent' \in [Agents -> Agent]
         /\ socket' \in Agents \cup {None}
         /\ \A x \in Agents : x # a => agent'[x] = agent[x]
<1>1. Resolved(t, "agent") \in Tokens \cup {None}
  BY ResolvedType DEF Hosts
<1>2. [up |-> "serving", bootstrap |-> Resolved(t, "agent"), enrolled |-> None, code |-> code,
       late |-> FALSE] \in Agent
  BY <1>1 DEF Agent
<1>3. agent' = [agent EXCEPT ![a] = [up |-> "serving", bootstrap |-> Resolved(t, "agent"),
                                     enrolled |-> None, code |-> code,
                                     late |-> FALSE]]
  BY DEF Serve
<1>4. socket' = socket \/ socket' = a
  BY DEF Serve
<1> QED
  BY <1>2, <1>3, <1>4 DEF Types

LEMMA DownType == Down \in Agent /\ Down.up = "down"
BY DEF Down, Agent

LEMMA ResidentType ==
  ASSUME Types, ResidentStarts \/ ResidentStops \/ \E a \in Agents : Expire(a)
  PROVE  Types'
<1>1. CASE ResidentStarts
  <2>1. setting.arg \in Tokens \cup {None}
    BY AccessAssumption DEF Types, Tokens
  <2>2. starts \in 0..MaxStarts /\ starts < MaxStarts /\ starts' = starts + 1
    BY <1>1 DEF ResidentStarts, Types
  <2>3. <<Resident, starts>> \in Codes \cup {None} /\ starts' \in 0..MaxStarts
    BY <2>2, SetsApart, AccessAssumption DEF Codes
  <2>4. Serve(Resident, setting.arg, <<Resident, starts>>)
    BY <1>1 DEF ResidentStarts
  <2>5. /\ agent' \in [Agents -> Agent] /\ socket' \in Agents \cup {None}
        /\ \A x \in Agents : x # Resident => agent'[x] = agent[x]
    BY <2>1, <2>3, <2>4, SetsApart, ServeType
  <2>6. UNCHANGED <<setting, store, inv, hosts, expired, crossed, killed, faults>>
    BY <1>1 DEF ResidentStarts
  <2>7. \A c \in Invocations : agent'[c].up # "down" => inv'[c].child = c
    BY <2>5, <2>6, SetsApart DEF Types
  <2> QED
    BY <2>3, <2>5, <2>6, <2>7 DEF Types
<1>2. CASE ResidentStops
  <2>1. agent' = [agent EXCEPT ![Resident] = Down] /\ inv' = HungUp(Resident)
        /\ UNCHANGED <<setting, store, socket, hosts, expired, crossed, killed, starts, faults>>
    BY <1>2 DEF ResidentStops
  <2>2. agent' \in [Agents -> Agent]
    BY <2>1, DownType DEF Types
  <2>3. \A c \in Invocations : agent'[c].up # "down" => inv'[c].child = c
    BY <2>1, SetsApart, HungUpType DEF Types
  <2>4. inv' \in [Invocations -> Invocation] /\ \A c \in Invocations : InvocationOK(c, inv'[c])
    BY <2>1, HungUpType
  <2> QED
    BY <2>1, <2>2, <2>3, <2>4 DEF Types
<1>3. ASSUME NEW a \in Agents, Expire(a)
      PROVE  Types'
  <2>1. /\ \/ agent' = [agent EXCEPT ![a].late = TRUE] /\ expired' = expired
           \/ /\ agent' = agent
              /\ agent[a].enrolled # None /\ expired' = expired \cup {agent[a].enrolled}
        /\ UNCHANGED <<setting, store, socket, inv, hosts, crossed, killed, starts>>
        /\ Fault
    BY <1>3 DEF Expire
  <2>2. agent \in [Agents -> Agent]
    BY DEF Types
  <2>3. agent' \in [Agents -> Agent] /\ \A x \in Agents : agent'[x].up = agent[x].up
    <3>1. CASE agent' = [agent EXCEPT ![a].late = TRUE]
      <4> DEFINE late == [agent[a] EXCEPT !.late = TRUE]
      <4>1. late \in Agent /\ late.up = agent[a].up
        BY <2>2 DEF Agent
      <4>2. agent' = [agent EXCEPT ![a] = late]
        BY <3>1
      <4> HIDE DEF late
      <4> QED
        BY <2>2, <4>1, <4>2
    <3>2. CASE agent' = agent
      BY <2>2, <3>2
    <3> QED
      BY <2>1, <3>1, <3>2
  <2>4. expired' \in SUBSET Enrollers
    BY <2>1, <2>2 DEF Agent, Types
  <2>5. \A c \in Invocations : agent'[c].up # "down" => inv'[c].child = c
    BY <2>1, <2>3, SetsApart DEF Types
  <2>6. faults' \in 0..MaxFaults
    BY <2>1, FaultType
  <2> QED
    BY <2>1, <2>3, <2>4, <2>5, <2>6 DEF Types
<1> QED
  BY <1>1, <1>2, <1>3

LEMMA BeginType ==
  ASSUME Types, NEW c \in Invocations, NEW t \in Tokens \cup {None},
         NEW code \in Codes \cup {None},
         NEW child \in BOOLEAN, Begin(c, t, code, child)
  PROVE  Types'
<1> DEFINE own == IF child THEN c ELSE None
           i == [inv[c] EXCEPT !.pc = "connecting", !.token = t, !.code = code, !.child = own]
<1>1. own \in {None, c} /\ (child => own = c) /\ (~child => own = None)
  OBVIOUS
<1>2. /\ inv[c].pc = "idle"
      /\ UNCHANGED <<setting, store, socket, hosts, expired, crossed, killed, starts, faults>>
      /\ inv' = [inv EXCEPT ![c] = i]
  BY DEF Begin
<1>3. IF child THEN agent' = [agent EXCEPT ![c].up = "starting"] ELSE agent' = agent
  BY DEF Begin
<1> HIDE DEF own
<1>4. InvocationOK(c, inv[c]) /\ inv[c] \in Invocation
  BY DEF Types
<1>5. inv[c].result = "none" /\ inv[c].peer = None
  BY <1>2, <1>4 DEF InvocationOK, Asks
<1>6. InvocationOK(c, i) /\ i \in Invocation /\ i.child = own
  BY <1>1, <1>4, <1>5 DEF InvocationOK, Invocation, Asks
<1> HIDE DEF i
<1>7. \A x \in Invocations : inv'[x] = IF x = c THEN i ELSE inv[x]
  BY <1>2 DEF Types
<1>8. inv' \in [Invocations -> Invocation] /\ \A x \in Invocations : InvocationOK(x, inv'[x])
  BY <1>2, <1>6, <1>7 DEF Types
<1>9. /\ agent' \in [Agents -> Agent]
      /\ \A x \in Invocations : x # c => agent'[x] = agent[x]
      /\ ~child => agent'[c] = agent[c]
  <2>1. CASE child
    <3>1. agent' = [agent EXCEPT ![c].up = "starting"]
      BY <1>3, <2>1
    <3> QED
      BY <2>1, <3>1, SetsApart DEF Types, Agent
  <2>2. CASE ~child
    BY <1>3, <2>2 DEF Types
  <2> QED
    BY <2>1, <2>2
<1>10. ~child => agent[c].up = "down"
  <2> SUFFICES ASSUME ~child, agent[c].up # "down" PROVE FALSE
    OBVIOUS
  <2>1. inv[c].child = c
    BY DEF Types
  <2>2. inv[c].child = None
    BY <1>2, <1>4 DEF InvocationOK
  <2> QED
    BY <2>1, <2>2, SetsApart
<1>11. \A x \in Invocations : agent'[x].up # "down" => inv'[x].child = x
  <2>1. CASE child
    BY <1>1, <1>6, <1>7, <1>9, <2>1 DEF Types
  <2>2. CASE ~child
    BY <1>7, <1>9, <1>10, <2>2 DEF Types
  <2> QED
    BY <2>1, <2>2
<1> QED
  BY <1>2, <1>8, <1>9, <1>11 DEF Types

LEMMA BeginsType ==
  ASSUME Types, NEW c \in Invocations,
         \/ \E token \in {Dev, Own}, child \in BOOLEAN : BeginCommand(c, token, child)
         \/ \E child \in BOOLEAN : BeginEnroll(c, child)
  PROVE  Types'
<1>1. ASSUME NEW token \in {Dev, Own}, NEW child \in BOOLEAN, BeginCommand(c, token, child)
      PROVE  Types'
  <2>1. Resolved(token, ControllerHost) \in Tokens \cup {None}
    BY ResolvedType DEF Tokens, Hosts, ControllerHost
  <2>2. Begin(c, Resolved(token, ControllerHost), None, child)
    BY <1>1 DEF BeginCommand
  <2> QED
    BY <2>1, <2>2, BeginType
<1>2. ASSUME NEW child \in BOOLEAN, BeginEnroll(c, child)
      PROVE  Types'
  <2>1. PICK code \in Codes : Begin(c, Dev, code, child)
    <3>1. <<c, 0>> \in Codes /\ \A n \in 0..MaxStarts : <<Resident, n>> \in Codes
      BY SetsApart, AccessAssumption DEF Codes
    <3> QED
      BY <1>2, <3>1 DEF BeginEnroll
  <2>3. Dev \in Tokens
    BY DEF Tokens
  <2> QED
    BY <2>1, <2>3, BeginType
<1> QED
  BY <1>1, <1>2

LEMMA ChildType ==
  ASSUME Types, NEW c \in Invocations, ChildServes(c) \/ ChildFails(c)
  PROVE  Types'
<1>1. CASE ChildServes(c)
  <2> DEFINE code == IF inv[c].code = None THEN <<c, 0>> ELSE inv[c].code
  <2>1. inv[c] \in Invocation
    BY DEF Types
  <2>2. code \in Codes \cup {None} /\ inv[c].token \in Tokens \cup {None}
    <3>1. <<c, 0>> \in Codes
      BY SetsApart, AccessAssumption DEF Codes
    <3> QED
      BY <2>1, <3>1 DEF Invocation
  <2>3. /\ Serve(c, inv[c].token, code) /\ agent[c].up = "starting"
        /\ UNCHANGED <<setting, store, inv, hosts, expired, crossed, killed, starts, faults>>
    BY <1>1 DEF ChildServes
  <2> HIDE DEF code
  <2>4. /\ agent' \in [Agents -> Agent] /\ socket' \in Agents \cup {None}
        /\ \A x \in Agents : x # c => agent'[x] = agent[x]
    BY <2>2, <2>3, SetsApart, ServeType
  <2>5. \A x \in Invocations : agent'[x].up # "down" => inv'[x].child = x
    BY <2>3, <2>4, SetsApart DEF Types
  <2> QED
    BY <2>3, <2>4, <2>5 DEF Types
<1>2. CASE ChildFails(c)
  <2>1. agent' = [agent EXCEPT ![c] = Down] /\ inv' = HungUp(c) /\ Fault
        /\ UNCHANGED <<setting, store, socket, hosts, expired, crossed, killed, starts>>
    BY <1>2 DEF ChildFails
  <2>2. agent' \in [Agents -> Agent]
    BY <2>1, DownType DEF Types
  <2>3. \A x \in Invocations : agent'[x].up # "down" => inv'[x].child = x
    BY <2>1, SetsApart, HungUpType, DownType DEF Types
  <2>4. inv' \in [Invocations -> Invocation] /\ \A x \in Invocations : InvocationOK(x, inv'[x])
    BY <2>1, HungUpType
  <2>5. faults' \in 0..MaxFaults
    BY <2>1, FaultType
  <2> QED
    BY <2>1, <2>2, <2>3, <2>4, <2>5 DEF Types
<1> QED
  BY <1>1, <1>2

(* The steps of an invocation.                                             *)
LEMMA ListenerType == Types => Listener \in Agents \cup {None}
BY SetsApart DEF Types, Listener

LEMMA ConnectType ==
  ASSUME Types, NEW c \in Invocations, Connect(c)
  PROVE  Types'
<1> DEFINE p == IF c \in Enrollers THEN "enroll" ELSE "register"
           i == [inv[c] EXCEPT !.pc = p, !.peer = Listener]
<1>1. /\ inv[c].pc = "connecting" /\ Listener # None /\ inv' = [inv EXCEPT ![c] = i]
      /\ UNCHANGED <<setting, store, agent, socket, hosts, expired, crossed, killed, starts, faults>>
  BY DEF Connect
<1>2. p \in Asks /\ (p \in {"enroll", "mint", "keep"} => c \in Enrollers)
  BY DEF Asks
<1> HIDE DEF p
<1>3. InvocationOK(c, inv[c]) /\ inv[c] \in Invocation
  BY DEF Types
<1>4. InvocationOK(c, i) /\ i.child = inv[c].child
  BY <1>1, <1>2, <1>3, ListenerType DEF InvocationOK, Invocation, Asks
<1> HIDE DEF i
<1>5. /\ inv' \in [Invocations -> Invocation]
      /\ \A x \in Invocations : InvocationOK(x, inv'[x])
      /\ \A x \in Invocations : agent'[x].up # "down" => inv'[x].child = x
  BY <1>1, <1>4, OneChanges
<1> QED
  BY <1>1, <1>5 DEF Types

LEMMA TalkType ==
  ASSUME Types, NEW c \in Invocations,
         GiveUp(c) \/ Ask(c) \/ Work(c) \/ CheckCode(c) \/ Lost(c)
  PROVE  Types'
<1>1. UNCHANGED <<setting, store, agent, socket, hosts, expired, crossed, killed, starts, faults>>
  BY DEF GiveUp, Ask, Work, CheckCode, Lost
<1>2. \/ \E p \in {"ending", "done"}, r \in Results \ {"none"} : Return(c, p, r)
      \/ /\ inv[c].pc \in Asks
         /\ \E p \in Asks : GoOn(c, p) /\ (p \in {"enroll", "mint", "keep"} => c \in Enrollers)
  <2>1. CASE GiveUp(c) \/ Work(c) \/ Lost(c)
    BY <2>1, EndReturns DEF GiveUp, Work, Lost, Results
  <2>2. CASE CheckCode(c)
    <3>1. InvocationOK(c, inv[c]) /\ inv[c].pc = "enroll"
      BY <2>2 DEF Types, CheckCode
    <3>2. End(c, "refused") \/ GoOn(c, "mint")
      BY <2>2 DEF CheckCode
    <3> QED
      BY <3>1, <3>2, EndReturns DEF InvocationOK, Asks, Results
  <2>3. CASE Ask(c)
    <3>1. inv[c].pc \in {"register", "capabilities", "heartbeat"}
      BY <2>3 DEF Ask
    <3>2. AfterAsk(c) \in Asks /\ (AfterAsk(c) \in {"enroll", "mint", "keep"} => c \in Enrollers)
      BY <3>1 DEF AfterAsk, Asks
    <3>3. End(c, "refused") \/ End(c, "incompatible") \/ GoOn(c, AfterAsk(c))
      BY <2>3 DEF Ask
    <3> QED
      BY <3>1, <3>2, <3>3, EndReturns DEF Asks, Results
  <2> QED
    BY <2>1, <2>2, <2>3
<1>3. /\ inv' \in [Invocations -> Invocation]
      /\ \A x \in Invocations : InvocationOK(x, inv'[x])
      /\ \A x \in Invocations : agent'[x].up # "down" => inv'[x].child = x
  <2>1. CASE \E p \in {"ending", "done"}, r \in Results \ {"none"} : Return(c, p, r)
    BY <1>1, <2>1, EndedType
  <2>2. CASE /\ inv[c].pc \in Asks
             /\ \E p \in Asks : GoOn(c, p) /\ (p \in {"enroll", "mint", "keep"} => c \in Enrollers)
    BY <1>1, <2>2, GoOnType
  <2> QED
    BY <1>2, <2>1, <2>2
<1> QED
  BY <1>1, <1>3 DEF Types

LEMMA MintType ==
  ASSUME Types, NEW c \in Invocations, Mint(c)
  PROVE  Types'
<1> DEFINE a == inv[c].peer
           i == [inv[c] EXCEPT !.pc = "capabilities", !.token = c]
           j == [inv[c] EXCEPT !.pc = "ending", !.peer = None, !.result = "failed"]
<1>1. InvocationOK(c, inv[c]) /\ inv[c] \in Invocation
  BY DEF Types
<1>0. c \in Enrollers /\ c \notin Collectors
  BY <1>1, SetsApart, AccessAssumption DEF Mint, InvocationOK
<1>2. /\ inv[c].pc = "mint" /\ a # None
      /\ agent' = [agent EXCEPT ![a].enrolled = c, ![a].code = None]
      /\ crossed' = crossed \cup Crossing(c, a)
      /\ UNCHANGED <<setting, socket, hosts, expired, killed, starts>>
      /\ \/ /\ store' = [store EXCEPT !["agent"] = c] /\ inv' = [inv EXCEPT ![c] = i]
            /\ UNCHANGED faults
         \/ Fault /\ inv' = [inv EXCEPT ![c] = j] /\ UNCHANGED store
  BY <1>0 DEF Mint, End, Return
<1>3. c \in Enrollers /\ a \in Agents
  BY <1>1, <1>2 DEF InvocationOK, Invocation
<1> HIDE DEF a
<1>4. agent \in [Agents -> Agent]
  BY DEF Types
<1>5. agent' \in [Agents -> Agent] /\ \A x \in Agents : agent'[x].up = agent[x].up
  BY <1>2, <1>3, <1>4 DEF Agent
<1>6. InvocationOK(c, i) /\ i.child = inv[c].child
  BY <1>1, <1>2, <1>3 DEF InvocationOK, Invocation, Asks, Tokens
<1>7. InvocationOK(c, j) /\ j.child = inv[c].child
  BY <1>1, <1>2 DEF InvocationOK, Invocation, Asks
<1>8. PICK k \in {i, j} : inv' = [inv EXCEPT ![c] = k]
  BY <1>2
<1>9. InvocationOK(c, k) /\ k.child = inv[c].child /\ k \in Invocation
  BY <1>6, <1>7, <1>8 DEF InvocationOK
<1> HIDE DEF i, j
<1>10. \A x \in Invocations : inv'[x] = IF x = c THEN k ELSE inv[x]
  BY <1>8 DEF Types
<1>11. /\ inv' \in [Invocations -> Invocation]
       /\ \A x \in Invocations : InvocationOK(x, inv'[x])
  BY <1>8, <1>9, <1>10 DEF Types
<1>12. \A x \in Invocations : agent'[x].up # "down" => inv'[x].child = x
  BY <1>5, <1>9, <1>10, SetsApart DEF Types
<1>13. store' \in [Hosts -> Enrollers \cup {None}] /\ faults' \in 0..MaxFaults
  <2>1. store' = store \/ store' = [store EXCEPT !["agent"] = c]
    BY <1>2
  <2>2. faults' \in 0..MaxFaults
    BY <1>2, FaultType DEF Types
  <2> QED
    BY <1>3, <2>1, <2>2 DEF Types
<1>14. crossed' \in SUBSET Enrollers
  BY <1>2 DEF Crossing, Types
<1> QED
  BY <1>2, <1>5, <1>11, <1>12, <1>13, <1>14 DEF Types

LEMMA KeepType ==
  ASSUME Types, NEW c \in Invocations, Keep(c)
  PROVE  Types'
<1>1. /\ inv[c].pc = "keep"
      /\ UNCHANGED <<setting, agent, socket, expired, crossed, killed, starts>>
      /\ \E r \in {"ok", "failed"} : End(c, r)
      /\ store' = [store EXCEPT ![ControllerHost] = c] \/ store' = store
      /\ Fault \/ faults' = faults
  BY DEF Keep
<1>2. hosts' \in BOOLEAN
  <2>1. hosts' = TRUE \/ hosts' = hosts
    BY DEF Keep
  <2>2. hosts \in BOOLEAN
    BY DEF Types
  <2> QED
    BY <2>1, <2>2
<1>3. c \in Enrollers
  <2>1. InvocationOK(c, inv[c])
    BY DEF Types
  <2> QED
    BY <1>1, <2>1 DEF InvocationOK
<1>4. store' \in [Hosts -> Enrollers \cup {None}]
  BY <1>1, <1>3 DEF Types
<1>5. faults' \in 0..MaxFaults
  BY <1>1, FaultType DEF Types
<1>6. PICK r \in Results \ {"none"}, p \in {"ending", "done"} : Return(c, p, r)
  BY <1>1, EndReturns DEF Results
<1>7. /\ inv' \in [Invocations -> Invocation]
      /\ \A x \in Invocations : InvocationOK(x, inv'[x])
      /\ \A x \in Invocations : agent'[x].up # "down" => inv'[x].child = x
  BY <1>1, <1>6, EndedType
<1> QED
  BY <1>1, <1>2, <1>4, <1>5, <1>7 DEF Types

LEMMA KillChildType ==
  ASSUME Types, NEW c \in Invocations, KillChild(c)
  PROVE  Types'
<1>1. /\ inv[c].pc = "ending"
      /\ UNCHANGED <<setting, store, socket, hosts, expired, crossed, killed, starts, faults>>
      /\ \/ /\ agent' = [agent EXCEPT ![c] = Down] /\ inv' = [HungUp(c) EXCEPT ![c].pc = "done"]
         \/ agent' = agent /\ inv' = [inv EXCEPT ![c].pc = "done"]
  BY DEF KillChild, GoOn
<1>2. ASSUME NEW table, table \in [Invocations -> Invocation],
             \A x \in Invocations : InvocationOK(x, table[x]) /\ table[x].child = inv[x].child
                                      /\ table[x].pc = inv[x].pc,
             inv' = [table EXCEPT ![c].pc = "done"]
      PROVE  /\ inv' \in [Invocations -> Invocation]
             /\ \A x \in Invocations : InvocationOK(x, inv'[x]) /\ inv'[x].child = inv[x].child
  <2> DEFINE i == [table[c] EXCEPT !.pc = "done"]
  <2>1. table[c] \in Invocation /\ InvocationOK(c, table[c]) /\ table[c].pc = "ending"
        /\ table[c].child = inv[c].child
    BY <1>1, <1>2
  <2>2. InvocationOK(c, i) /\ i \in Invocation /\ i.child = inv[c].child
    BY <2>1 DEF InvocationOK, Invocation, Asks
  <2>3. inv' = [table EXCEPT ![c] = i]
    BY <1>2
  <2> HIDE DEF i
  <2>4. \A x \in Invocations : inv'[x] = IF x = c THEN i ELSE table[x]
    BY <1>2, <2>3
  <2>5. inv' \in [Invocations -> Invocation]
    BY <1>2, <2>2, <2>3
  <2> QED
    BY <1>2, <2>2, <2>4, <2>5
<1>3. CASE agent' = [agent EXCEPT ![c] = Down] /\ inv' = [HungUp(c) EXCEPT ![c].pc = "done"]
  <2>1. /\ inv' \in [Invocations -> Invocation]
        /\ \A x \in Invocations : InvocationOK(x, inv'[x]) /\ inv'[x].child = inv[x].child
    <3> DEFINE table == HungUp(c)
    <3>1. /\ table \in [Invocations -> Invocation]
          /\ \A x \in Invocations : InvocationOK(x, table[x]) /\ table[x].child = inv[x].child
                                   /\ table[x].pc = inv[x].pc
      BY HungUpType
    <3>2. inv' = [table EXCEPT ![c].pc = "done"]
      BY <1>3
    <3> HIDE DEF table
    <3> QED
      BY <1>2, <3>1, <3>2
  <2>2. agent' \in [Agents -> Agent]
    BY <1>3, DownType DEF Types
  <2>3. \A x \in Invocations : agent'[x].up # "down" => inv'[x].child = x
    BY <1>3, <2>1, DownType, SetsApart DEF Types
  <2> QED
    BY <1>1, <2>1, <2>2, <2>3 DEF Types
<1>4. CASE agent' = agent /\ inv' = [inv EXCEPT ![c].pc = "done"]
  <2>1. /\ inv' \in [Invocations -> Invocation]
        /\ \A x \in Invocations : InvocationOK(x, inv'[x]) /\ inv'[x].child = inv[x].child
    BY <1>2, <1>4 DEF Types
  <2> QED
    BY <1>1, <1>4, <2>1 DEF Types
<1> QED
  BY <1>1, <1>3, <1>4

LEMMA KilledType ==
  ASSUME Types, NEW c \in Invocations, Killed(c)
  PROVE  Types'
<1> DEFINE i == [inv[c] EXCEPT !.pc = "done", !.peer = None, !.result = "failed"]
<1>1. /\ Fault /\ killed' = killed \cup {c} /\ inv' = [inv EXCEPT ![c] = i]
      /\ UNCHANGED <<setting, store, agent, socket, hosts, expired, crossed, starts>>
  BY DEF Killed
<1>2. InvocationOK(c, inv[c]) /\ inv[c] \in Invocation
  BY DEF Types
<1>3. InvocationOK(c, i) /\ i.child = inv[c].child
  BY <1>2 DEF InvocationOK, Invocation, Asks
<1> HIDE DEF i
<1>4. /\ inv' \in [Invocations -> Invocation]
      /\ \A x \in Invocations : InvocationOK(x, inv'[x])
      /\ \A x \in Invocations : agent'[x].up # "down" => inv'[x].child = x
  BY <1>1, <1>3, OneChanges
<1>5. faults' \in 0..MaxFaults
  BY <1>1, FaultType
<1> QED
  BY <1>1, <1>4, <1>5 DEF Types

LEMMA NextTypes == Types /\ [Next]_vars => Types'
<1> SUFFICES ASSUME Types, [Next]_vars PROVE Types'
  OBVIOUS
<1>1. CASE UNCHANGED vars
  BY <1>1 DEF vars, Types
<1>2. CASE Next
  BY <1>2, ResidentType, BeginsType, ChildType, ConnectType, TalkType, MintType, KeepType,
     KillChildType, KilledType DEF Next, InvocationStep
<1> QED
  BY <1>1, <1>2

LEMMA InitTypes == Init => Types
<1> SUFFICES ASSUME Init PROVE Types
  OBVIOUS
<1> DEFINE i == [pc |-> "idle", token |-> None, code |-> None, child |-> None,
                 peer |-> None, result |-> "none"]
<1>1. i \in Invocation /\ \A c \in Invocations : InvocationOK(c, i)
  BY DEF Invocation, InvocationOK
<1>2. inv = [c \in Invocations |-> i]
  BY DEF Init
<1> HIDE DEF i
<1>3. inv \in [Invocations -> Invocation] /\ \A c \in Invocations : InvocationOK(c, inv[c])
  BY <1>1, <1>2
<1>4. agent \in [Agents -> Agent] /\ \A c \in Invocations : agent[c].up = "down"
  BY DownType, SetsApart DEF Init
<1>5. hosts \in BOOLEAN
  BY DEF Init
<1>6. starts \in 0..MaxStarts /\ faults \in 0..MaxFaults
  BY AccessAssumption DEF Init
<1>7. /\ setting \in Deployments /\ expired \in SUBSET Enrollers /\ crossed \in SUBSET Enrollers
      /\ store \in [Hosts -> Enrollers \cup {None}] /\ socket \in Agents \cup {None}
      /\ killed \in SUBSET Invocations
  BY DEF Init
<1> QED
  BY <1>3, <1>4, <1>5, <1>6, <1>7 DEF Types

LEMMA AlwaysTypes == Spec => []Types
BY InitTypes, NextTypes, PTL DEF Spec

(* Agents, connections, tokens and credentials keep their types; nobody is *)
(* connected who does not ask, an ended invocation has its result, and an  *)
(* Agent process that is no resident belongs to the invocation it is named *)
(* after.                                                                  *)
THEOREM TypeCorrect == Spec => []TypeOK
<1>1. Types => TypeOK
  BY DEF Types, TypeOK, InvocationOK
<1> QED
  BY <1>1, AlwaysTypes, PTL
-----------------------------------------------------------------------------
(* The credential of a remote Agent.  Its code is spent once it has a      *)
(* credential, so that the enrollments between their two locks then are    *)
(* those that crossed the one that spent it; with the others the store     *)
(* changes as the Agent's credential does, or has what it was started on.  *)
RemoteDev == Remote /\ setting.arg = Dev

Enrolling(e) == inv[e].pc \notin {"idle", "done"}
Minting(e)   == inv[e].pc = "mint" /\ inv[e].peer = Resident

CodesNamed == \A e \in Enrollers : Enrolling(e) => inv[e].code # None

Connections ==
  \A c \in Invocations :
    inv[c].peer # None => inv[c].peer = Resident /\ agent[Resident].up = "serving"

CodeSpent ==
  agent[Resident].enrolled # None
    => /\ agent[Resident].code = None
       /\ \A e \in Enrollers : Minting(e) => e \in crossed

StoreKnown ==
  agent[Resident].up = "serving" /\ store["agent"] # None
    => \/ store["agent"] \in {agent[Resident].bootstrap, agent[Resident].enrolled} \cup expired
       \/ agent[Resident].enrolled \in crossed

Kept == CodesNamed /\ Connections /\ CodeSpent /\ StoreKnown

AccessInv == RemoteDev => Kept

(* A step that brings no enrollment to a code and leaves the resident's    *)
(* credentials as they are.                                                *)
LEMMA KeptStays ==
  ASSUME Kept, agent'[Resident] = agent[Resident], store'["agent"] = store["agent"],
         expired \subseteq expired', crossed \subseteq crossed',
         \A x \in Invocations :
           inv'[x].peer # None => \/ inv'[x].peer = inv[x].peer
                                  \/ inv'[x].peer = Resident /\ agent[Resident].up = "serving",
         \A e \in Enrollers :
           /\ inv'[e].code = inv[e].code
           /\ Enrolling(e)' => Enrolling(e)
           /\ Minting(e)' => Minting(e)
  PROVE  Kept'
<1>1. CodesNamed'
  BY DEF Kept, CodesNamed
<1>2. Connections'
  BY DEF Kept, Connections
<1>3. CodeSpent'
  BY DEF Kept, CodeSpent
<1>4. StoreKnown'
  BY DEF Kept, StoreKnown
<1> QED
  BY <1>1, <1>2, <1>3, <1>4 DEF Kept

(* One invocation goes on, but not to a code.                              *)
LEMMA KeptOne ==
  ASSUME Types, Kept, NEW c \in Invocations, NEW i, inv' = [inv EXCEPT ![c] = i],
         inv[c].pc # "idle", i.code = inv[c].code, i.pc # "mint",
         \/ i.peer \in {None, inv[c].peer}
         \/ i.peer = Resident /\ agent[Resident].up = "serving",
         i.pc # "done" => inv[c].pc # "done",
         agent'[Resident] = agent[Resident], store'["agent"] = store["agent"],
         expired \subseteq expired', crossed \subseteq crossed'
  PROVE  Kept'
<1>1. \A x \in Invocations : inv'[x] = IF x = c THEN i ELSE inv[x]
  BY DEF Types
<1>2. \A e \in Enrollers :
        /\ inv'[e].code = inv[e].code
        /\ Enrolling(e)' => Enrolling(e)
        /\ Minting(e)' => Minting(e)
  BY <1>1, SetsApart DEF Enrolling, Minting
<1>3. \A x \in Invocations :
        inv'[x].peer # None => \/ inv'[x].peer = inv[x].peer
                               \/ inv'[x].peer = Resident /\ agent[Resident].up = "serving"
  BY <1>1
<1> QED
  BY <1>2, <1>3, KeptStays

LEMMA TalkKept ==
  ASSUME Types, Kept, RemoteDev, NEW c \in Invocations,
         Connect(c) \/ GiveUp(c) \/ Ask(c) \/ Work(c) \/ Lost(c) \/ Keep(c) \/ Killed(c)
  PROVE  Kept'
<1>1. inv[c] \in Invocation
  BY DEF Types
<1>2. agent'[Resident] = agent[Resident] /\ expired' = expired /\ crossed' = crossed
  BY DEF Connect, GiveUp, Ask, Work, Lost, Keep, Killed
<1>3. store'["agent"] = store["agent"]
  <2>1. CASE Keep(c)
    <3>1. ControllerHost = "controller"
      BY DEF ControllerHost, RemoteDev
    <3>2. store' = [store EXCEPT !["controller"] = c] \/ store' = store
      BY <2>1, <3>1 DEF Keep
    <3> QED
      BY <3>2 DEF Types, Hosts
  <2>2. CASE ~Keep(c)
    BY <2>2 DEF Connect, GiveUp, Ask, Work, Lost, Killed
  <2> QED
    BY <2>1, <2>2
<1>4. CASE Connect(c)
  <2> DEFINE p == IF c \in Enrollers THEN "enroll" ELSE "register"
             i == [inv[c] EXCEPT !.pc = p, !.peer = Listener]
  <2>1. inv' = [inv EXCEPT ![c] = i] /\ inv[c].pc = "connecting" /\ Listener # None
    BY <1>4 DEF Connect
  <2>2. Listener = Resident /\ agent[Resident].up = "serving"
    BY <2>1 DEF Listener, RemoteDev
  <2>3. p \notin {"mint", "done"}
    OBVIOUS
  <2> HIDE DEF p
  <2>4. i.code = inv[c].code /\ i.pc = p /\ i.peer = Resident
    BY <1>1, <2>2 DEF Invocation
  <2> HIDE DEF i
  <2> QED
    BY <1>2, <1>3, <2>1, <2>2, <2>3, <2>4, KeptOne
<1>5. ASSUME NEW p \in {"ending", "done"}, NEW r, Return(c, p, r), inv[c].pc \notin {"idle", "done"}
      PROVE  Kept'
  <2> DEFINE i == [inv[c] EXCEPT !.pc = p, !.peer = None, !.result = r]
  <2>1. inv' = [inv EXCEPT ![c] = i]
    BY <1>5 DEF Return
  <2>2. i.code = inv[c].code /\ i.pc = p /\ i.peer = None
    BY <1>1 DEF Invocation
  <2> HIDE DEF i
  <2> QED
    BY <1>2, <1>3, <1>5, <2>1, <2>2, KeptOne
<1>6. CASE GiveUp(c) \/ Work(c) \/ Lost(c) \/ Keep(c)
  <2>1. \E p \in {"ending", "done"}, r \in Results : Return(c, p, r)
    BY <1>6, EndReturns DEF GiveUp, Work, Lost, Keep, Results
  <2>2. inv[c].pc \notin {"idle", "done"}
    BY <1>6 DEF GiveUp, Work, Lost, Keep
  <2> QED
    BY <1>5, <2>1, <2>2
<1>7. CASE Ask(c)
  <2>1. inv[c].pc \in {"register", "capabilities", "heartbeat"}
    BY <1>7 DEF Ask
  <2>2. End(c, "refused") \/ End(c, "incompatible") \/ GoOn(c, AfterAsk(c))
    BY <1>7 DEF Ask
  <2>3. CASE GoOn(c, AfterAsk(c))
    <3> DEFINE i == [inv[c] EXCEPT !.pc = AfterAsk(c)]
    <3>1. inv' = [inv EXCEPT ![c] = i]
      BY <2>3 DEF GoOn
    <3>2. AfterAsk(c) \notin {"mint", "done"}
      BY <2>1 DEF AfterAsk
    <3>3. i.code = inv[c].code /\ i.pc = AfterAsk(c) /\ i.peer = inv[c].peer
      BY <1>1 DEF Invocation
    <3> HIDE DEF i
    <3> QED
      BY <1>2, <1>3, <2>1, <3>1, <3>2, <3>3, KeptOne
  <2>4. CASE \E p \in {"ending", "done"}, r \in Results : Return(c, p, r)
    BY <1>5, <2>1, <2>4
  <2> QED
    BY <2>2, <2>3, <2>4, EndReturns DEF Results
<1>8. CASE Killed(c)
  <2> DEFINE i == [inv[c] EXCEPT !.pc = "done", !.peer = None, !.result = "failed"]
  <2>1. inv' = [inv EXCEPT ![c] = i] /\ inv[c].pc \notin {"idle", "done"}
    BY <1>8 DEF Killed
  <2>2. i.code = inv[c].code /\ i.pc = "done" /\ i.peer = None
    BY <1>1 DEF Invocation
  <2> HIDE DEF i
  <2> QED
    BY <1>2, <1>3, <2>1, <2>2, KeptOne
<1> QED
  BY <1>4, <1>6, <1>7, <1>8

LEMMA ChildKept ==
  ASSUME Types, Kept, NEW c \in Invocations, ChildServes(c) \/ ChildFails(c) \/ KillChild(c)
  PROVE  Kept'
<1>1. store' = store /\ expired' = expired /\ crossed' = crossed
  BY DEF ChildServes, ChildFails, KillChild
<1>2. agent'[Resident] = agent[Resident]
  BY SetsApart DEF Types, ChildServes, ChildFails, KillChild, Serve, GoOn
<1>3. ASSUME NEW x \in Invocations
      PROVE  /\ inv'[x].code = inv[x].code
             /\ inv'[x].peer \in {None, inv[x].peer}
             /\ inv'[x].pc = inv[x].pc \/ inv'[x].pc = "done"
  <2>1. CASE ChildServes(c)
    BY <2>1 DEF ChildServes
  <2>2. CASE ChildFails(c)
    BY <2>2, HungUpType DEF ChildFails
  <2>3. CASE KillChild(c)
    <3>1. PICK table \in {HungUp(c), inv} : inv' = [table EXCEPT ![c].pc = "done"]
      BY <2>3 DEF KillChild, GoOn
    <3>2. /\ table \in [Invocations -> Invocation]
          /\ table[x].code = inv[x].code /\ table[x].pc = inv[x].pc
          /\ table[x].peer \in {None, inv[x].peer}
      BY HungUpType DEF Types
    <3>3. /\ inv'[x].code = table[x].code /\ inv'[x].peer = table[x].peer
          /\ inv'[x].pc = table[x].pc \/ inv'[x].pc = "done"
      BY <3>1, <3>2 DEF Invocation
    <3> QED
      BY <3>2, <3>3
  <2> QED
    BY <2>1, <2>2, <2>3
<1>4. \A e \in Enrollers :
        /\ inv'[e].code = inv[e].code
        /\ Enrolling(e)' => Enrolling(e)
        /\ Minting(e)' => Minting(e)
  BY <1>3, SetsApart DEF Enrolling, Minting
<1> QED
  BY <1>1, <1>2, <1>3, <1>4, KeptStays

LEMMA BeginKept ==
  ASSUME Types, Kept, RemoteDev, NEW c \in Invocations,
         \/ \E token \in {Dev, Own}, child \in BOOLEAN : BeginCommand(c, token, child)
         \/ \E child \in BOOLEAN : BeginEnroll(c, child)
  PROVE  Kept'
<1>1. ASSUME NEW t, NEW code, NEW child \in BOOLEAN, Begin(c, t, code, child)
      PROVE  /\ ~child /\ UNCHANGED <<agent, store, expired, crossed>> /\ inv[c].pc = "idle"
             /\ inv'[c].code = code /\ inv'[c].pc = "connecting" /\ inv'[c].peer = inv[c].peer
             /\ \A x \in Invocations : x # c => inv'[x] = inv[x]
  <2>1. child => ~Remote
    BY <1>1 DEF Begin
  <2>2. ~child
    BY <2>1 DEF RemoteDev
  <2>3. UNCHANGED <<agent, store, expired, crossed>> /\ inv[c].pc = "idle"
    BY <1>1, <2>2 DEF Begin
  <2>4. inv' = [inv EXCEPT ![c] = [inv[c] EXCEPT !.pc = "connecting", !.token = t, !.code = code,
                                                 !.child = IF child THEN c ELSE None]]
    BY <1>1 DEF Begin
  <2>5. inv[c] \in Invocation
    BY DEF Types
  <2>6. inv'[c].code = code /\ inv'[c].pc = "connecting" /\ inv'[c].peer = inv[c].peer
    BY <2>4, <2>5 DEF Types, Invocation
  <2>7. \A x \in Invocations : x # c => inv'[x] = inv[x]
    BY <2>4 DEF Types
  <2> QED
    BY <2>2, <2>3, <2>6, <2>7
<1>2. ASSUME NEW token \in {Dev, Own}, NEW child \in BOOLEAN, BeginCommand(c, token, child)
      PROVE  Kept'
  <2>1. c \notin Enrollers /\ Begin(c, Resolved(token, ControllerHost), None, child)
    BY <1>2, SetsApart DEF BeginCommand
  <2>2. /\ UNCHANGED <<agent, store, expired, crossed>>
        /\ \A x \in Invocations : inv'[x].peer = inv[x].peer
        /\ \A e \in Enrollers : inv'[e] = inv[e]
    BY <1>1, <2>1, SetsApart
  <2>3. \A e \in Enrollers :
          /\ inv'[e].code = inv[e].code
          /\ Enrolling(e)' => Enrolling(e)
          /\ Minting(e)' => Minting(e)
    BY <2>2 DEF Enrolling, Minting
  <2> QED
    BY <2>2, <2>3, KeptStays
<1>3. ASSUME NEW child \in BOOLEAN, BeginEnroll(c, child)
      PROVE  Kept'
  <2>1. PICK code \in Codes : Begin(c, Dev, code, child)
    <3>1. <<c, 0>> \in Codes /\ \A n \in 0..MaxStarts : <<Resident, n>> \in Codes
      BY SetsApart, AccessAssumption DEF Codes
    <3> QED
      BY <1>3, <3>1 DEF BeginEnroll
  <2>2. code # None
    BY SetsApart
  <2>3. /\ UNCHANGED <<agent, store, expired, crossed>>
        /\ inv'[c].code = code /\ inv'[c].pc = "connecting" /\ inv'[c].peer = inv[c].peer
        /\ \A x \in Invocations : x # c => inv'[x] = inv[x]
    BY <1>1, <2>1
  <2>4. CodesNamed'
    BY <2>2, <2>3, SetsApart DEF Kept, CodesNamed, Enrolling
  <2>5. Connections'
    BY <2>3 DEF Kept, Connections
  <2>6. \A e \in Enrollers : Minting(e)' => Minting(e)
    BY <2>3, SetsApart DEF Minting
  <2>7. CodeSpent'
    BY <2>3, <2>6 DEF Kept, CodeSpent
  <2>8. StoreKnown'
    BY <2>3 DEF Kept, StoreKnown
  <2> QED
    BY <2>4, <2>5, <2>7, <2>8 DEF Kept
<1> QED
  BY <1>2, <1>3

(* The code is compared: whoever passes finds it displayed, and so no      *)
(* credential.                                                             *)
LEMMA CheckKept ==
  ASSUME Types, Kept, NEW c \in Invocations, CheckCode(c)
  PROVE  Kept'
<1>1. InvocationOK(c, inv[c]) /\ inv[c] \in Invocation
  BY DEF Types
<1>2. /\ inv[c].pc = "enroll" /\ inv[c].peer # None
      /\ UNCHANGED <<store, agent, expired, crossed>>
  BY DEF CheckCode
<1>3. CASE End(c, "refused")
  <2>1. PICK p \in {"ending", "done"} : Return(c, p, "refused")
    BY <1>3, EndReturns
  <2> DEFINE i == [inv[c] EXCEPT !.pc = p, !.peer = None, !.result = "refused"]
  <2>2. inv' = [inv EXCEPT ![c] = i]
    BY <2>1 DEF Return
  <2>3. i.code = inv[c].code /\ i.pc = p /\ i.peer = None
    BY <1>1 DEF Invocation
  <2> HIDE DEF i
  <2> QED
    BY <1>2, <2>2, <2>3, KeptOne
<1>4. CASE GoOn(c, "mint") /\ agent[inv[c].peer].code = inv[c].code
  <2>1. inv' = [inv EXCEPT ![c] = [inv[c] EXCEPT !.pc = "mint"]]
    BY <1>4 DEF GoOn
  <2>2. /\ inv'[c].code = inv[c].code /\ inv'[c].pc = "mint" /\ inv'[c].peer = inv[c].peer
        /\ \A x \in Invocations : x # c => inv'[x] = inv[x]
    BY <1>1, <2>1 DEF Types, Invocation
  <2>3. c \in Enrollers
    BY <1>1, <1>2 DEF InvocationOK
  <2>4. inv[c].peer = Resident
    BY <1>2 DEF Kept, Connections
  <2>5. inv[c].code # None /\ Enrolling(c)
    BY <1>2, <2>3 DEF Kept, CodesNamed, Enrolling
  <2>6. agent[Resident].enrolled = None
    BY <1>4, <2>4, <2>5 DEF Kept, CodeSpent
  <2>7. \A e \in Enrollers : (Enrolling(e)' => Enrolling(e)) /\ inv'[e].code = inv[e].code
    BY <1>2, <2>2, SetsApart DEF Enrolling
  <2>8. CodesNamed'
    BY <2>7 DEF Kept, CodesNamed
  <2>9. Connections'
    BY <1>2, <2>2 DEF Kept, Connections
  <2>10. CodeSpent'
    BY <1>2, <2>6 DEF CodeSpent
  <2>11. StoreKnown'
    BY <1>2 DEF Kept, StoreKnown
  <2> QED
    BY <2>8, <2>9, <2>10, <2>11 DEF Kept
<1> QED
  BY <1>3, <1>4 DEF CheckCode

(* The resident Agent has no credential when one is minted, but for an     *)
(* enrollment that was crossed.                                            *)
LEMMA MintKept ==
  ASSUME Types, Kept, NEW c \in Invocations, Mint(c)
  PROVE  Kept'
<1>1. InvocationOK(c, inv[c]) /\ inv[c] \in Invocation
  BY DEF Types
<1>0. c \in Enrollers /\ c \notin Collectors
  BY <1>1, SetsApart, AccessAssumption DEF Mint, InvocationOK
<1>2. /\ inv[c].pc = "mint" /\ inv[c].peer # None /\ expired' = expired
      /\ crossed' = crossed \cup Crossing(c, inv[c].peer)
      /\ agent' = [agent EXCEPT ![inv[c].peer].enrolled = c, ![inv[c].peer].code = None]
      /\ \/ /\ store' = [store EXCEPT !["agent"] = c]
            /\ inv' = [inv EXCEPT ![c] = [inv[c] EXCEPT !.pc = "capabilities", !.token = c]]
         \/ /\ inv' = [inv EXCEPT ![c] =
                          [inv[c] EXCEPT !.pc = "ending", !.peer = None, !.result = "failed"]]
            /\ store' = store
  BY <1>0 DEF Mint, End, Return
<1>3. c \in Enrollers
  BY <1>1, <1>2 DEF InvocationOK
<1>4. inv[c].peer = Resident
  BY <1>2 DEF Kept, Connections
<1>5. Minting(c)
  BY <1>2, <1>4 DEF Minting
<1>6. agent[Resident] \in Agent /\ agent \in [Agents -> Agent]
  BY SetsApart DEF Types
<1>7. /\ agent'[Resident].enrolled = c /\ agent'[Resident].code = None
      /\ agent'[Resident].up = agent[Resident].up
      /\ agent'[Resident].bootstrap = agent[Resident].bootstrap
  BY <1>2, <1>4, <1>6, SetsApart DEF Agent
<1>8. /\ inv'[c].code = inv[c].code /\ inv'[c].pc \in {"capabilities", "ending"}
      /\ inv'[c].peer \in {None, inv[c].peer}
      /\ \A x \in Invocations : x # c => inv'[x] = inv[x]
  <2> DEFINE i == [inv[c] EXCEPT !.pc = "capabilities", !.token = c]
             j == [inv[c] EXCEPT !.pc = "ending", !.peer = None, !.result = "failed"]
  <2>1. PICK k \in {i, j} : inv' = [inv EXCEPT ![c] = k]
    BY <1>2
  <2>2. k.code = inv[c].code /\ k.pc \in {"capabilities", "ending"} /\ k.peer \in {None, inv[c].peer}
    BY <1>1 DEF Invocation
  <2> HIDE DEF i, j
  <2> QED
    BY <2>1, <2>2 DEF Types
<1>9. CodesNamed'
  <2>1. \A e \in Enrollers : (Enrolling(e)' => Enrolling(e)) /\ inv'[e].code = inv[e].code
    BY <1>2, <1>8, SetsApart DEF Enrolling
  <2> QED
    BY <2>1 DEF Kept, CodesNamed
<1>10. Connections'
  BY <1>7, <1>8 DEF Kept, Connections
<1>11. CodeSpent'
  <2>1. \A e \in Enrollers : Minting(e)' => Minting(e) /\ e # c
    BY <1>3, <1>8, SetsApart DEF Minting
  <2>2. \A e \in Enrollers : Minting(e) /\ e # c => e \in crossed'
    BY <1>2, <1>4 DEF Crossing, Minting
  <2> QED
    BY <1>7, <2>1, <2>2 DEF CodeSpent
<1>12. StoreKnown'
  <2>1. CASE store' = [store EXCEPT !["agent"] = c]
    <3>1. store'["agent"] = c
      BY <2>1 DEF Types, Hosts
    <3> QED
      BY <1>7, <3>1 DEF StoreKnown
  <2>2. CASE store' = store /\ agent[Resident].enrolled = None
    <3>1. None \notin crossed
      BY SetsApart DEF Types
    <3> QED
      BY <1>2, <1>7, <2>2, <3>1 DEF Kept, StoreKnown
  <2>3. CASE store' = store /\ agent[Resident].enrolled # None
    <3>1. c \in crossed
      BY <1>3, <1>5, <2>3 DEF Kept, CodeSpent
    <3> QED
      BY <1>2, <1>7, <3>1 DEF StoreKnown
  <2> QED
    BY <1>2, <2>1, <2>2, <2>3
<1> QED
  BY <1>9, <1>10, <1>11, <1>12 DEF Kept

LEMMA ResidentKept ==
  ASSUME Types, Kept, RemoteDev,
         ResidentStarts \/ ResidentStops \/ \E a \in Agents : Expire(a)
  PROVE  Kept'
<1>1. CASE ResidentStarts
  <2>1. /\ agent[Resident].up = "down" /\ UNCHANGED <<inv, store, expired, crossed>>
        /\ agent' = [agent EXCEPT ![Resident] =
                       [up |-> "serving", bootstrap |-> Resolved(setting.arg, "agent"),
                        enrolled |-> None, code |-> <<Resident, starts>>, late |-> FALSE]]
    BY <1>1 DEF ResidentStarts, Serve
  <2>2. /\ agent'[Resident].bootstrap = Resolved(setting.arg, "agent")
        /\ agent'[Resident].enrolled = None
    BY <2>1, SetsApart DEF Types
  <2>3. \A c \in Invocations : inv[c].peer = None
    BY <2>1 DEF Kept, Connections
  <2>4. CodesNamed'
    BY <2>1 DEF Kept, CodesNamed, Enrolling
  <2>5. Connections'
    BY <2>1, <2>3 DEF Connections
  <2>6. CodeSpent'
    <3>1. \A e \in Enrollers : ~Minting(e)'
      BY <2>1, <2>3, SetsApart DEF Minting
    <3> QED
      BY <2>2, <3>1 DEF CodeSpent
  <2>7. StoreKnown'
    <3>1. store["agent"] # None => Resolved(setting.arg, "agent") = store["agent"]
      BY DEF Resolved, RemoteDev
    <3> QED
      BY <2>1, <2>2, <3>1 DEF StoreKnown
  <2> QED
    BY <2>4, <2>5, <2>6, <2>7 DEF Kept
<1>2. CASE ResidentStops
  <2>1. /\ agent' = [agent EXCEPT ![Resident] = Down] /\ inv' = HungUp(Resident)
        /\ UNCHANGED <<store, expired, crossed>>
    BY <1>2 DEF ResidentStops
  <2>2. agent'[Resident].up = "down" /\ agent'[Resident].enrolled = None
    BY <2>1, SetsApart DEF Types, Down
  <2>3. \A c \in Invocations : inv'[c].peer = None /\ inv'[c].code = inv[c].code /\ inv'[c].pc = inv[c].pc
    BY <2>1, HungUpType DEF Kept, Connections
  <2>4. CodesNamed'
    BY <2>3, SetsApart DEF Kept, CodesNamed, Enrolling
  <2>5. Connections'
    BY <2>3 DEF Connections
  <2>6. CodeSpent'
    <3>1. \A e \in Enrollers : ~Minting(e)'
      BY <2>3, SetsApart DEF Minting
    <3> QED
      BY <2>2, <3>1 DEF CodeSpent
  <2>7. StoreKnown'
    BY <2>2 DEF StoreKnown
  <2> QED
    BY <2>4, <2>5, <2>6, <2>7 DEF Kept
<1>3. ASSUME NEW a \in Agents, Expire(a)
      PROVE  Kept'
  <2>1. /\ agent' = [agent EXCEPT ![a].late = TRUE] \/ agent' = agent
        /\ expired \subseteq expired'
        /\ UNCHANGED <<store, inv, crossed>>
    BY <1>3 DEF Expire
  <2>2. agent \in [Agents -> Agent] /\ Resident \in Agents
    BY SetsApart DEF Types
  <2>3. /\ agent'[Resident].up = agent[Resident].up
        /\ agent'[Resident].bootstrap = agent[Resident].bootstrap
        /\ agent'[Resident].code = agent[Resident].code
        /\ agent'[Resident].enrolled = agent[Resident].enrolled
    BY <2>1, <2>2 DEF Agent
  <2>4. CodesNamed'
    BY <2>1 DEF Kept, CodesNamed, Enrolling
  <2>5. Connections'
    BY <2>1, <2>3 DEF Kept, Connections
  <2>6. CodeSpent'
    <3>1. \A e \in Enrollers : Minting(e)' <=> Minting(e)
      BY <2>1 DEF Minting
    <3> QED
      BY <2>1, <2>3, <3>1 DEF Kept, CodeSpent
  <2>7. StoreKnown'
    BY <2>1, <2>3 DEF Kept, StoreKnown
  <2> QED
    BY <2>4, <2>5, <2>6, <2>7 DEF Kept
<1> QED
  BY <1>1, <1>2, <1>3

LEMMA AccessStep == Types /\ AccessInv /\ [Next]_vars => AccessInv'
<1> SUFFICES ASSUME Types, AccessInv, [Next]_vars, RemoteDev' PROVE Kept'
  BY DEF AccessInv
<1>1. setting' = setting
  <2>1. ASSUME NEW c \in Invocations, InvocationStep(c) \/ Killed(c) \/ ChildServes(c) \/ ChildFails(c)
        PROVE  setting' = setting
    <3>1. CASE Connect(c) \/ GiveUp(c) \/ Ask(c) \/ Work(c) \/ CheckCode(c)
      BY <3>1 DEF Connect, GiveUp, Ask, Work, CheckCode
    <3>2. CASE Mint(c) \/ Keep(c) \/ Lost(c) \/ KillChild(c)
      BY <3>2 DEF Mint, Keep, Lost, KillChild
    <3>3. CASE Killed(c) \/ ChildServes(c) \/ ChildFails(c)
      BY <3>3 DEF Killed, ChildServes, ChildFails
    <3> QED
      BY <2>1, <3>1, <3>2, <3>3 DEF InvocationStep
  <2>2. ASSUME NEW c \in Invocations, NEW t, NEW code, NEW child, Begin(c, t, code, child)
        PROVE  setting' = setting
    BY <2>2 DEF Begin
  <2>3. ASSUME NEW c \in Invocations,
               \/ \E token \in {Dev, Own}, child \in BOOLEAN : BeginCommand(c, token, child)
               \/ \E child \in BOOLEAN : BeginEnroll(c, child)
        PROVE  setting' = setting
    BY <2>2, <2>3 DEF BeginCommand, BeginEnroll
  <2>4. CASE ResidentStarts \/ ResidentStops \/ \E a \in Agents : Expire(a)
    BY <2>4 DEF ResidentStarts, ResidentStops, Expire
  <2>5. CASE UNCHANGED vars
    BY <2>5 DEF vars
  <2> QED
    BY <2>1, <2>3, <2>4, <2>5 DEF Next
<1>2. RemoteDev
  BY <1>1 DEF RemoteDev, Remote
<1>3. Kept
  BY <1>2 DEF AccessInv
<1>4. CASE UNCHANGED vars
  <2>1. UNCHANGED <<agent, store, inv, expired, crossed>>
    BY <1>4 DEF vars
  <2> QED
    BY <1>3, <2>1 DEF Kept, CodesNamed, Connections, CodeSpent, StoreKnown, Enrolling, Minting
<1>5. CASE Next
  BY <1>2, <1>3, <1>5, ResidentKept, BeginKept, ChildKept, TalkKept, CheckKept, MintKept
     DEF Next, InvocationStep
<1> QED
  BY <1>4, <1>5

(* The credential in a remote Agent's secret store opens the resident      *)
(* Agent, the one that minted it and every later one, however enrollments, *)
(* expirations, failures and restarts follow each other.                   *)
THEOREM KeptCredentialOpens == Spec => []KeptIsAccepted
<1>1. Init => AccessInv
  <2>1. Init => Kept
    BY SetsApart DEF Init, Kept, CodesNamed, Connections, CodeSpent, StoreKnown, Enrolling,
       Minting, Down
  <2> QED
    BY <2>1 DEF AccessInv
<1>2. AccessInv => KeptIsAccepted
  BY DEF AccessInv, RemoteDev, Kept, StoreKnown, KeptIsAccepted, Accepts
<1> QED
  BY <1>1, <1>2, AccessStep, InitTypes, NextTypes, PTL DEF Spec

-----------------------------------------------------------------------------
(***************************************************************************)
(* Proofs about CodexTurns, the other conversation a client of this system *)
(* has with a process it starts: for every number of asks, reads, request  *)
(* ids and messages of a turn.  Nothing of AgentAccess is shared.          *)
(***************************************************************************)
(* The inductive invariant.  A client has one request out at a time; until *)
(* its answer is read the turn's messages are in three places, observed,   *)
(* queued and unread, and each of them continues the one before.           *)
Working == {"asking", "top", "select", "complete"}
Ending == {"shutdown", "unregister", "done"}

NoAnswer(s) == \A i \in DOMAIN s : s[i].kind # "answer"

(* A request of method m has at most one answer.                           *)
OneAnswer(s, m) ==
  \A i, j \in DOMAIN s : s[i].kind = "answer" /\ s[j].kind = "answer" => i = j /\ s[i].method = m

Increasing(s) == \A i, j \in OfTurn(s) : i < j => s[i].n < s[j].n

Numbers(s) == {s[i].n : i \in OfTurn(s)}

Below(s, t) == \A x \in Numbers(s), y \in Numbers(t) : x < y

(* The messages of a turn, in three parts.                                 *)
Parts(o, q, s, n) ==
  /\ Increasing(o) /\ Increasing(q) /\ Increasing(s)
  /\ Below(o, q) /\ Below(o, s) /\ Below(q, s)
  /\ Numbers(o) \cup Numbers(q) \cup Numbers(s) = 1..n

(* One request at a time is with the server, or its answer with the        *)
(* client.                                                                 *)
Exchange(u, i, o, q) ==
  /\ i \in {<< >>, <<u.method>>}
  /\ i # << >> => NoAnswer(o)
  /\ u.pc \in {"idle", "top", "select", "complete"} => i = << >> /\ NoAnswer(o)
  /\ OneAnswer(o, u.method)
  /\ NoAnswer(q)

(* How far the turn has come when a request is sent, served and answered.  *)
TurnStarts(u, v, i, o) ==
  /\ v.turn = "none" => v.n = 0
  /\ v.turn = "running" => v.n <= MaxMessages
  /\ u.method \notin {"turn/start", "turn/interrupt"} => v.turn = "none"
  /\ u.method = "turn/start" => v.turn # "interrupted" /\ (i # << >> => v.turn = "none")
  /\ u.method = "turn/interrupt" =>
       v.turn # "none" /\ (i # << >> => v.turn \in {"running", "completed"})
  /\ \A k \in DOMAIN o : o[k].kind = "answer" /\ o[k].method = "turn/start" /\ o[k].ok
       => v.turn # "none"
  /\ u.pc \in {"top", "select", "complete"} =>
       /\ v.turn # "none" /\ u.method \in {"turn/start", "turn/interrupt"}
       /\ u.interrupted <=> u.method = "turn/interrupt"

(* Why a request or a use fails when nothing else does: the interrupt of a *)
(* turn that has completed.                                                *)
Reasons(u, v, o) ==
  /\ u.pc \in Working => v.up
  /\ \A k \in DOMAIN o : o[k].kind = "answer" /\ ~o[k].ok =>
       u.method = "turn/interrupt" /\ v.turn = "completed"
  /\ u.result = "failed" => u.method = "turn/interrupt" /\ v.turn = "completed"

SameProcess(v, w) == w.up = v.up /\ w.stdin = v.stdin

UseHolds(u, v, i, o, q, f) ==
  /\ u.pc \in Ending <=> u.result # "none"
  /\ u.pc = "idle" => u.method = "initialize" /\ o = << >> /\ q = << >>
  /\ u.pc \in Working => v.stdin
  /\ Exchange(u, i, o, q)
  /\ TurnStarts(u, v, i, o)
  /\ f = 0 => Reasons(u, v, o)

(* An ask: w is observed, x its cancellation, y whether that is unseen, z  *)
(* whether its session is recorded.                                        *)
AskHolds(u, v, o, q, w, x, y, z) ==
  /\ y \/ u.method = "turn/interrupt" => x
  /\ z => u.result = "ok"
  /\ NoAnswer(w)
  /\ u.pc \in Working => Parts(w, q, o, v.n)
  /\ u.pc = "idle" => w = << >>

Uses ==
  \A c \in Clients : UseHolds(client[c], server[c], stdin[c], stdout[c], queued[c], failures)

AsksHold ==
  \A a \in AskCalls : AskHolds(client[a], server[a], stdout[a], queued[a], observed[a],
                           cancel[a], unseen[a], a \in recorded)

TurnsInv == TurnsTypeOK /\ Uses /\ AsksHold

-----------------------------------------------------------------------------
(* Lemmas on sequences of messages.                                        *)

LEMMA MessageFields ==
  ASSUME NEW m \in Messages
  PROVE  m.n \in 0..(MaxMessages + 1) /\ m.method \in Methods
BY DEF Messages

LEMMA Appends ==
  ASSUME NEW s \in Seq(Messages), NEW m \in Messages
  PROVE  /\ Append(s, m) \in Seq(Messages)
         /\ Numbers(Append(s, m)) = Numbers(s) \cup (IF m.kind = "answer" THEN {} ELSE {m.n})
         /\ Increasing(s) /\ (m.kind = "answer" \/ \A x \in Numbers(s) : x < m.n)
              => Increasing(Append(s, m))
         /\ NoAnswer(s) /\ m.kind # "answer" => NoAnswer(Append(s, m))
<1> DEFINE t == Append(s, m)
           k == Len(s)
<1>1. k \in Nat /\ DOMAIN s = 1..k /\ t \in Seq(Messages) /\ DOMAIN t = 1..(k + 1)
  OBVIOUS
<1>2. t[k + 1] = m /\ \A i \in 1..k : t[i] = s[i]
  OBVIOUS
<1> HIDE DEF t, k
<1>3. \A i \in 1..(k + 1) : i = k + 1 \/ i \in 1..k
  BY <1>1
<1>4. k + 1 \in 1..(k + 1) /\ \A i \in 1..k : i \in 1..(k + 1) /\ i < k + 1
  BY <1>1
<1>5. OfTurn(t) = OfTurn(s) \cup (IF m.kind = "answer" THEN {} ELSE {k + 1})
  BY <1>1, <1>2, <1>3, <1>4 DEF OfTurn
<1>6. OfTurn(s) \subseteq 1..k
  BY <1>1 DEF OfTurn
<1>7. Numbers(t) = Numbers(s) \cup (IF m.kind = "answer" THEN {} ELSE {m.n})
  BY <1>2, <1>5, <1>6 DEF Numbers
<1>8. ASSUME Increasing(s), m.kind = "answer" \/ \A x \in Numbers(s) : x < m.n,
             NEW i \in OfTurn(t), NEW j \in OfTurn(t), i < j
      PROVE  t[i].n < t[j].n
  <2>1. CASE j \in 1..k
    <3>1. i \in 1..k
      BY <1>1, <1>3, <1>5, <1>6, <1>8, <2>1
    <3>2. i \in OfTurn(s) /\ j \in OfTurn(s)
      BY <1>1, <1>2, <1>5, <2>1, <3>1 DEF OfTurn
    <3> QED
      BY <1>2, <1>8, <2>1, <3>1, <3>2 DEF Increasing
  <2>2. CASE j = k + 1
    <3>1. m.kind # "answer"
      BY <1>1, <1>2, <2>2 DEF OfTurn
    <3>2. i \in OfTurn(s)
      BY <1>5, <1>8, <2>2
    <3>3. t[i].n \in Numbers(s)
      BY <1>2, <1>6, <3>2 DEF Numbers
    <3> QED
      BY <1>2, <1>8, <2>2, <3>1, <3>3
  <2> QED
    BY <1>3, <1>1, <2>1, <2>2 DEF OfTurn
<1>9. NoAnswer(s) /\ m.kind # "answer" => NoAnswer(t)
  BY <1>1, <1>2, <1>3 DEF NoAnswer
<1> QED
  BY <1>1, <1>7, <1>8, <1>9 DEF Increasing, t

LEMMA Tails ==
  ASSUME NEW s \in Seq(Messages), s # << >>
  PROVE  /\ Tail(s) \in Seq(Messages) /\ Head(s) \in Messages
         /\ Numbers(s) = Numbers(Tail(s)) \cup
              (IF Head(s).kind = "answer" THEN {} ELSE {Head(s).n})
         /\ Increasing(s) => /\ Increasing(Tail(s))
                             /\ Head(s).kind = "answer" \/
                                  \A x \in Numbers(Tail(s)) : Head(s).n < x
         /\ NoAnswer(s) => NoAnswer(Tail(s)) /\ Head(s).kind # "answer"
         /\ \A m : OneAnswer(s, m) => OneAnswer(Tail(s), m)
         /\ \A m : OneAnswer(s, m) /\ Head(s).kind = "answer" =>
              NoAnswer(Tail(s)) /\ Head(s).method = m
         /\ \A i \in DOMAIN Tail(s) : \E j \in DOMAIN s : Tail(s)[i] = s[j]
         /\ \E j \in DOMAIN s : Head(s) = s[j]
<1> DEFINE t == Tail(s)
           k == Len(s)
<1>1. k \in Nat /\ k # 0 /\ DOMAIN s = 1..k /\ t \in Seq(Messages) /\ DOMAIN t = 1..(k - 1)
  OBVIOUS
<1>2. Head(s) = s[1] /\ (\A i \in 1..(k - 1) : t[i] = s[i + 1]) /\ Head(s) \in Messages
  OBVIOUS
<1> HIDE DEF t, k
<1>3. \A i \in 1..k : i = 1 \/ i - 1 \in 1..(k - 1)
  BY <1>1
<1>4. 1 \in 1..k /\ \A i \in 1..(k - 1) : i + 1 \in 1..k /\ i + 1 # 1 /\ 1 < i + 1
  BY <1>1
<1>5. \A i \in 1..k : i # 1 => t[i - 1] = s[i]
  BY <1>1, <1>2, <1>3
<1>6. \A i : i \in OfTurn(t) <=> i \in 1..(k - 1) /\ i + 1 \in OfTurn(s)
  BY <1>1, <1>2, <1>4 DEF OfTurn
<1>7. Numbers(s) = Numbers(t) \cup (IF Head(s).kind = "answer" THEN {} ELSE {Head(s).n})
  <2>1. ASSUME NEW i \in OfTurn(s)
        PROVE  \/ i = 1 /\ s[i].n = Head(s).n /\ Head(s).kind # "answer"
               \/ s[i].n \in Numbers(t)
    <3>1. CASE i = 1
      BY <1>2, <3>1 DEF OfTurn
    <3>2. CASE i # 1
      <4>1. i \in 1..k /\ i - 1 \in 1..(k - 1) /\ (i - 1) + 1 = i
        BY <1>1, <1>3, <3>2 DEF OfTurn
      <4>2. i - 1 \in OfTurn(t) /\ t[i - 1] = s[i]
        BY <1>5, <1>6, <3>2, <4>1
      <4> QED
        BY <4>2 DEF Numbers
    <3> QED
      BY <3>1, <3>2
  <2>2. \A i \in OfTurn(t) : t[i].n \in Numbers(s)
    BY <1>2, <1>6 DEF Numbers
  <2>3. Head(s).kind # "answer" => Head(s).n \in Numbers(s)
    BY <1>1, <1>2, <1>4 DEF Numbers, OfTurn
  <2>4. \A x \in Numbers(s) : x \in Numbers(t) \/ (Head(s).kind # "answer" /\ x = Head(s).n)
    BY <2>1 DEF Numbers
  <2>5. \A x \in Numbers(t) : x \in Numbers(s)
    BY <2>2 DEF Numbers
  <2> QED
    BY <2>3, <2>4, <2>5
<1>8. ASSUME Increasing(s)
      PROVE  Increasing(t) /\ (Head(s).kind = "answer" \/ \A x \in Numbers(t) : Head(s).n < x)
  <2>1. ASSUME NEW i \in OfTurn(t), NEW j \in OfTurn(t), i < j
        PROVE  t[i].n < t[j].n
    <3>1. i \in 1..(k - 1) /\ j \in 1..(k - 1) /\ i + 1 \in OfTurn(s) /\ j + 1 \in OfTurn(s)
      BY <1>6
    <3>2. i + 1 < j + 1
      BY <1>1, <2>1, <3>1
    <3> QED
      BY <1>2, <1>8, <3>1, <3>2 DEF Increasing
  <2>2. ASSUME Head(s).kind # "answer", NEW i \in OfTurn(t)
        PROVE  Head(s).n < t[i].n
    <3>1. 1 \in OfTurn(s) /\ i + 1 \in OfTurn(s) /\ 1 < i + 1 /\ i \in 1..(k - 1)
      BY <1>1, <1>2, <1>4, <1>6, <2>2 DEF OfTurn
    <3> QED
      BY <1>2, <1>8, <3>1 DEF Increasing
  <2> QED
    BY <2>1, <2>2 DEF Increasing, Numbers
<1>9. NoAnswer(s) => NoAnswer(t) /\ Head(s).kind # "answer"
  BY <1>1, <1>2, <1>4 DEF NoAnswer
<1>10. ASSUME NEW m, OneAnswer(s, m)
       PROVE  OneAnswer(t, m) /\ (Head(s).kind = "answer" => NoAnswer(t) /\ Head(s).method = m)
  <2>1. ASSUME NEW i \in 1..(k - 1), NEW j \in 1..(k - 1), t[i].kind = "answer", t[j].kind = "answer"
        PROVE  i = j /\ t[i].method = m
    <3>1. i + 1 \in 1..k /\ j + 1 \in 1..k /\ t[i] = s[i + 1] /\ t[j] = s[j + 1]
      BY <1>2, <1>4
    <3>2. i + 1 = j + 1 /\ s[i + 1].method = m
      BY <1>1, <1>10, <2>1, <3>1 DEF OneAnswer
    <3> QED
      BY <1>1, <3>1, <3>2
  <2>2. ASSUME Head(s).kind = "answer"
        PROVE  NoAnswer(t) /\ Head(s).method = m
    <3>1. s[1].kind = "answer" /\ 1 \in DOMAIN s
      BY <1>1, <1>2, <1>4, <2>2
    <3>2. \A j \in DOMAIN s : s[j].kind = "answer" => j = 1
      BY <1>10, <3>1 DEF OneAnswer
    <3>3. s[1].method = m
      BY <1>10, <3>1 DEF OneAnswer
    <3> QED
      BY <1>1, <1>2, <1>4, <3>2, <3>3 DEF NoAnswer
  <2> QED
    BY <1>1, <2>1, <2>2 DEF OneAnswer
<1>11. (\A i \in DOMAIN t : \E j \in DOMAIN s : t[i] = s[j]) /\ \E j \in DOMAIN s : Head(s) = s[j]
  BY <1>1, <1>2, <1>4
<1> QED
  BY <1>1, <1>2, <1>7, <1>8, <1>9, <1>10, <1>11 DEF t

LEMMA NumbersNat ==
  ASSUME NEW s \in Seq(Messages)
  PROVE  Numbers(s) \subseteq Nat
<1>1. \A i \in DOMAIN s : s[i] \in Messages
  OBVIOUS
<1> QED
  BY <1>1, MessageFields, TurnsAssumption DEF Numbers, OfTurn

LEMMA EmptyFacts ==
  /\ Numbers(<< >>) = {} /\ Increasing(<< >>) /\ NoAnswer(<< >>)
  /\ \A m : OneAnswer(<< >>, m)
<1>1. DOMAIN << >> = {}
  OBVIOUS
<1>2. OfTurn(<< >>) = {}
  BY <1>1 DEF OfTurn
<1> QED
  BY <1>1, <1>2 DEF Numbers, Increasing, NoAnswer, OneAnswer

(* The turn sends its next message.                                        *)
LEMMA PartsSent ==
  ASSUME NEW o \in Seq(Messages), NEW q \in Seq(Messages),
         NEW s \in Seq(Messages),
         NEW n \in Nat, Parts(o, q, s, n), NEW m \in Messages, m.kind # "answer",
         m.n = n + 1
  PROVE  Parts(o, q, Append(s, m), n + 1)
<1>1. Numbers(Append(s, m)) = Numbers(s) \cup {m.n}
  BY Appends
<1>2. \A x \in Numbers(o) \cup Numbers(q) \cup Numbers(s) : x < m.n
  BY DEF Parts
<1>3. Increasing(Append(s, m))
  BY <1>2, Appends DEF Parts
<1>4. 1..(n + 1) = 1..n \cup {n + 1}
  OBVIOUS
<1> QED
  BY <1>1, <1>2, <1>3, <1>4 DEF Parts, Below

(* An answer is sent.                                                      *)
LEMMA PartsAnswerSent ==
  ASSUME NEW o \in Seq(Messages), NEW q \in Seq(Messages),
         NEW s \in Seq(Messages),
         NEW n \in Nat, Parts(o, q, s, n), NEW m \in Messages, m.kind = "answer"
  PROVE  Parts(o, q, Append(s, m), n)
<1>1. Numbers(Append(s, m)) = Numbers(s) \cup (IF m.kind = "answer" THEN {} ELSE {m.n})
  BY Appends
<1>2. Increasing(Append(s, m))
  BY Appends DEF Parts
<1>3. Numbers(Append(s, m)) = Numbers(s)
  BY <1>1
<1> QED
  BY <1>2, <1>3 DEF Parts, Below

(* The answer is read.                                                     *)
LEMMA PartsAnswerRead ==
  ASSUME NEW o \in Seq(Messages), NEW q \in Seq(Messages),
         NEW s \in Seq(Messages),
         NEW n \in Nat, Parts(o, q, s, n), s # << >>, Head(s).kind = "answer"
  PROVE  Parts(o, q, Tail(s), n)
<1>1. Numbers(s) = Numbers(Tail(s)) \cup (IF Head(s).kind = "answer" THEN {} ELSE {Head(s).n})
  BY Tails
<1>2. Increasing(Tail(s))
  BY Tails DEF Parts
<1>3. Numbers(s) = Numbers(Tail(s))
  BY <1>1
<1> QED
  BY <1>2, <1>3 DEF Parts, Below

(* The first message of one part becomes the last of the part before.      *)
LEMMA Moves ==
  ASSUME NEW q \in Seq(Messages), NEW s \in Seq(Messages),
         Increasing(q), Increasing(s), Below(q, s), s # << >>, Head(s).kind # "answer"
  PROVE  /\ Increasing(Append(q, Head(s))) /\ Increasing(Tail(s))
         /\ Below(Append(q, Head(s)), Tail(s))
         /\ Numbers(Append(q, Head(s))) \cup Numbers(Tail(s)) = Numbers(q) \cup Numbers(s)
         /\ Numbers(Append(q, Head(s))) \subseteq Numbers(q) \cup Numbers(s)
         /\ Numbers(Tail(s)) \subseteq Numbers(s)
<1> DEFINE h == Head(s)
<1>1. h \in Messages /\ Numbers(s) = Numbers(Tail(s)) \cup {h.n}
      /\ Increasing(Tail(s)) /\ \A x \in Numbers(Tail(s)) : h.n < x
  BY Tails
<1> HIDE DEF h
<1>2. Numbers(Append(q, h)) = Numbers(q) \cup {h.n}
  BY <1>1, Appends DEF h
<1>3. \A x \in Numbers(q) : x < h.n /\ \A y \in Numbers(Tail(s)) : x < y
  BY <1>1 DEF Below
<1>4. Increasing(Append(q, h))
  BY <1>1, <1>3, Appends
<1> QED
  BY <1>1, <1>2, <1>3, <1>4 DEF Below, h

LEMMA PartsQueued ==
  ASSUME NEW o \in Seq(Messages), NEW q \in Seq(Messages),
         NEW s \in Seq(Messages),
         NEW n \in Nat, Parts(o, q, s, n), s # << >>, Head(s).kind # "answer"
  PROVE  Parts(o, Append(q, Head(s)), Tail(s), n)
<1> DEFINE r == Append(q, Head(s))
           t == Tail(s)
<1>1. /\ Increasing(r) /\ Increasing(t) /\ Below(r, t)
      /\ Numbers(r) \cup Numbers(t) = Numbers(q) \cup Numbers(s)
      /\ Numbers(r) \subseteq Numbers(q) \cup Numbers(s)
      /\ Numbers(t) \subseteq Numbers(s)
  BY Moves DEF Parts
<1> HIDE DEF r, t
<1>2. Below(o, r) /\ Below(o, t)
  BY <1>1 DEF Parts, Below
<1> QED
  BY <1>1, <1>2 DEF Parts, r, t

LEMMA PartsSeenQueued ==
  ASSUME NEW o \in Seq(Messages), NEW q \in Seq(Messages),
         NEW s \in Seq(Messages),
         NEW n \in Nat, Parts(o, q, s, n), q # << >>, Head(q).kind # "answer"
  PROVE  Parts(Append(o, Head(q)), Tail(q), s, n)
<1> DEFINE r == Append(o, Head(q))
           t == Tail(q)
<1>1. /\ Increasing(r) /\ Increasing(t) /\ Below(r, t)
      /\ Numbers(r) \cup Numbers(t) = Numbers(o) \cup Numbers(q)
      /\ Numbers(r) \subseteq Numbers(o) \cup Numbers(q)
      /\ Numbers(t) \subseteq Numbers(q)
  BY Moves DEF Parts
<1> HIDE DEF r, t
<1>2. Below(r, s) /\ Below(t, s)
  BY <1>1 DEF Parts, Below
<1> QED
  BY <1>1, <1>2 DEF Parts, r, t

LEMMA PartsSeen ==
  ASSUME NEW o \in Seq(Messages), NEW s \in Seq(Messages),
         NEW n \in Nat, Parts(o, << >>, s, n), s # << >>, Head(s).kind # "answer"
  PROVE  Parts(Append(o, Head(s)), << >>, Tail(s), n)
<1>1. Increasing(o) /\ Increasing(s) /\ Below(o, s) /\ Numbers(o) \cup Numbers(s) = 1..n
  BY EmptyFacts DEF Parts
<1> DEFINE r == Append(o, Head(s))
           t == Tail(s)
<1>2. /\ Increasing(r) /\ Increasing(t) /\ Below(r, t)
      /\ Numbers(r) \cup Numbers(t) = Numbers(o) \cup Numbers(s)
  BY <1>1, Moves
<1> HIDE DEF r, t
<1> QED
  BY <1>1, <1>2, EmptyFacts DEF Parts, Below, r, t

(* Three parts in order make a whole in order.                             *)
LEMMA TwoParts ==
  ASSUME NEW s \in Seq(Messages), NEW t \in Seq(Messages),
         Increasing(s), Increasing(t), Below(s, t)
  PROVE  /\ s \o t \in Seq(Messages) /\ Increasing(s \o t)
         /\ Numbers(s \o t) = Numbers(s) \cup Numbers(t)
<1> DEFINE j == s \o t
           k == Len(s)
           l == Len(t)
<1>1. k \in Nat /\ l \in Nat /\ DOMAIN s = 1..k /\ DOMAIN t = 1..l
  OBVIOUS
<1>2. j \in Seq(Messages)
  BY ConcatProperties
<1>3. Len(j) = k + l
  BY ConcatProperties
<1>4. \A i \in 1..(k + l) : j[i] = IF i <= k THEN s[i] ELSE t[i - k]
  BY ConcatProperties
<1>5. DOMAIN j = 1..(k + l)
  BY <1>2, <1>3
<1> HIDE DEF j, k, l
<1>6. \A i \in 1..(k + l) : (i \in 1..k /\ i <= k) \/ (i - k \in 1..l /\ ~(i <= k))
  BY <1>1
<1>7. /\ \A i \in 1..k : i \in 1..(k + l) /\ i <= k
      /\ \A i \in 1..l : k + i \in 1..(k + l) /\ ~(k + i <= k) /\ (k + i) - k = i
  BY <1>1
<1>8. \A i \in OfTurn(j) :
        \/ i \in OfTurn(s) /\ j[i] = s[i] /\ i <= k
        \/ i - k \in OfTurn(t) /\ j[i] = t[i - k] /\ ~(i <= k)
  BY <1>1, <1>4, <1>5, <1>6 DEF OfTurn
<1>9. /\ \A i \in OfTurn(s) : i \in OfTurn(j) /\ j[i] = s[i]
      /\ \A i \in OfTurn(t) : k + i \in OfTurn(j) /\ j[k + i] = t[i]
  BY <1>1, <1>4, <1>5, <1>7 DEF OfTurn
<1>10. Numbers(j) = Numbers(s) \cup Numbers(t)
  <2>1. \A x \in Numbers(j) : x \in Numbers(s) \cup Numbers(t)
    BY <1>8 DEF Numbers
  <2>2. \A x \in Numbers(s) \cup Numbers(t) : x \in Numbers(j)
    BY <1>9 DEF Numbers
  <2> QED
    BY <2>1, <2>2
<1>11. ASSUME NEW x \in OfTurn(j), NEW y \in OfTurn(j), x < y
       PROVE  j[x].n < j[y].n
  <2>0. x \in 1..(k + l) /\ y \in 1..(k + l)
    BY <1>5 DEF OfTurn
  <2>1. CASE x <= k /\ y <= k
    BY <1>8, <1>11, <2>1 DEF Increasing
  <2>2. CASE x <= k /\ ~(y <= k)
    <3>1. j[x].n \in Numbers(s) /\ j[y].n \in Numbers(t)
      BY <1>8, <2>2 DEF Numbers
    <3> QED
      BY <3>1 DEF Below
  <2>3. CASE ~(x <= k) /\ ~(y <= k)
    <3>1. x - k < y - k
      BY <1>1, <1>11, <2>0
    <3> QED
      BY <1>8, <2>3, <3>1 DEF Increasing
  <2> QED
    BY <1>1, <1>11, <2>0, <2>1, <2>2, <2>3
<1> QED
  BY <1>2, <1>10, <1>11 DEF Increasing, j

LEMMA WholeInOrder ==
  ASSUME NEW o \in Seq(Messages), NEW q \in Seq(Messages),
         NEW s \in Seq(Messages),
         NEW n \in Nat, Parts(o, q, s, n)
  PROVE  InOrder(o \o q \o s, n)
<1> DEFINE oq == o \o q
<1>1. oq \in Seq(Messages) /\ Increasing(oq) /\ Numbers(oq) = Numbers(o) \cup Numbers(q)
  BY TwoParts DEF Parts
<1> HIDE DEF oq
<1>2. Below(oq, s)
  BY <1>1 DEF Parts, Below
<1>3. Increasing(oq \o s) /\ Numbers(oq \o s) = 1..n
  BY <1>1, <1>2, TwoParts DEF Parts
<1> QED
  BY <1>3 DEF InOrder, Increasing, Numbers, oq
-----------------------------------------------------------------------------
(* A step of one client, its server or both leaves the others as they are. *)

LEMMA TurnsTypes ==
  ASSUME TurnsInv, NEW c \in Clients
  PROVE  /\ client[c] \in Use /\ server[c] \in Server /\ stdin[c] \in Seq(Methods)
         /\ stdout[c] \in Seq(Messages) /\ queued[c] \in Seq(Messages)
         /\ client = [client EXCEPT ![c] = client[c]]
         /\ server = [server EXCEPT ![c] = server[c]]
         /\ stdin = [stdin EXCEPT ![c] = stdin[c]]
         /\ stdout = [stdout EXCEPT ![c] = stdout[c]]
         /\ queued = [queued EXCEPT ![c] = queued[c]]
         /\ UseHolds(client[c], server[c], stdin[c], stdout[c], queued[c], failures)
         /\ failures \in 0..MaxFailures /\ failures \in Nat
         /\ observed[c] \in Seq(Messages)
<1>1. /\ client \in [Clients -> Use] /\ server \in [Clients -> Server]
      /\ stdin \in [Clients -> Seq(Methods)] /\ stdout \in [Clients -> Seq(Messages)]
      /\ queued \in [Clients -> Seq(Messages)] /\ observed \in [Clients -> Seq(Messages)]
      /\ failures \in 0..MaxFailures
  BY DEF TurnsInv, TurnsTypeOK
<1>2. failures \in Nat
  BY <1>1, TurnsAssumption DEF TurnsInv
<1>3. UseHolds(client[c], server[c], stdin[c], stdout[c], queued[c], failures)
  BY DEF TurnsInv, Uses
<1> QED
  BY <1>1, <1>2, <1>3

LEMMA UseStep ==
  ASSUME TurnsInv, NEW c \in Clients, NEW u \in Use, NEW v \in Server,
         NEW i \in Seq(Methods),
         NEW o \in Seq(Messages), NEW q \in Seq(Messages),
         client' = [client EXCEPT ![c] = u], server' = [server EXCEPT ![c] = v],
         stdin' = [stdin EXCEPT ![c] = i], stdout' = [stdout EXCEPT ![c] = o],
         queued' = [queued EXCEPT ![c] = q],
         failures' \in 0..MaxFailures, failures' = 0 => failures = 0,
         id' = id, registry' \in [Ids -> AskCalls \cup {NoAsk}], cancel' = cancel,
         unseen' \in [AskCalls -> BOOLEAN], observed' \in [Clients -> Seq(Messages)],
         recorded' \in SUBSET AskCalls,
         \A a \in AskCalls \ {c} : /\ unseen'[a] = unseen[a] /\ observed'[a] = observed[a]
                                   /\ a \in recorded' <=> a \in recorded,
         UseHolds(u, v, i, o, q, failures'),
         c \in AskCalls => AskHolds(u, v, o, q, observed'[c], cancel[c], unseen'[c], c \in recorded')
  PROVE  TurnsInv'
<1>1. /\ client \in [Clients -> Use] /\ server \in [Clients -> Server]
      /\ stdin \in [Clients -> Seq(Methods)] /\ stdout \in [Clients -> Seq(Messages)]
      /\ queued \in [Clients -> Seq(Messages)]
      /\ id \in [AskCalls -> Ids] /\ cancel \in [AskCalls -> BOOLEAN]
      /\ \A d \in Clients : client[d].pc = "done" => client[d].result # "none"
  BY DEF TurnsInv, TurnsTypeOK
<1>2. \A d \in Clients \ {c} :
        /\ client'[d] = client[d] /\ server'[d] = server[d] /\ stdin'[d] = stdin[d]
        /\ stdout'[d] = stdout[d] /\ queued'[d] = queued[d]
  BY <1>1
<1>3. /\ client'[c] = u /\ server'[c] = v /\ stdin'[c] = i /\ stdout'[c] = o /\ queued'[c] = q
  BY <1>1
<1>4. /\ client' \in [Clients -> Use] /\ server' \in [Clients -> Server]
      /\ stdin' \in [Clients -> Seq(Methods)] /\ stdout' \in [Clients -> Seq(Messages)]
      /\ queued' \in [Clients -> Seq(Messages)]
  BY <1>1
<1>5. u.pc = "done" => u.result # "none"
  BY DEF UseHolds, Ending
<1>6. \A d \in Clients : client'[d].pc = "done" => client'[d].result # "none"
  BY <1>1, <1>2, <1>3, <1>5
<1>7. TurnsTypeOK'
  BY <1>1, <1>4, <1>6 DEF TurnsTypeOK
<1>8. ASSUME NEW d \in Clients
      PROVE  UseHolds(client'[d], server'[d], stdin'[d], stdout'[d], queued'[d], failures')
  <2>1. CASE d = c
    BY <1>3, <2>1
  <2>2. CASE d # c
    <3>1. UseHolds(client[d], server[d], stdin[d], stdout[d], queued[d], failures)
      BY DEF TurnsInv, Uses
    <3>2. UseHolds(client[d], server[d], stdin[d], stdout[d], queued[d], failures')
      BY <3>1 DEF UseHolds
    <3> QED
      BY <1>2, <2>2, <3>2
  <2> QED
    BY <2>1, <2>2
<1>9. ASSUME NEW a \in AskCalls
      PROVE  AskHolds(client'[a], server'[a], stdout'[a], queued'[a], observed'[a],
                      cancel'[a], unseen'[a], a \in recorded')
  <2>1. CASE a = c
    BY <1>3, <2>1
  <2>2. CASE a # c
    <3>1. AskHolds(client[a], server[a], stdout[a], queued[a], observed[a],
                   cancel[a], unseen[a], a \in recorded)
      BY DEF TurnsInv, AsksHold
    <3>2. a \in Clients
      BY DEF Clients
    <3>3. /\ client'[a] = client[a] /\ server'[a] = server[a] /\ stdout'[a] = stdout[a]
          /\ queued'[a] = queued[a]
      BY <1>2, <2>2, <3>2
    <3>4. a \in AskCalls \ {c} /\ cancel'[a] = cancel[a]
      BY <2>2
    <3>5. observed'[a] = observed[a] /\ unseen'[a] = unseen[a]
      BY <3>4
    <3>6. a \in recorded' <=> a \in recorded
      BY <3>4
    <3> QED
      BY <3>1, <3>3, <3>4, <3>5, <3>6 DEF AskHolds
  <2> QED
    BY <2>1, <2>2
<1> QED
  BY <1>7, <1>8, <1>9 DEF TurnsInv, Uses, AsksHold

(* A step that leaves the registry, the cancellations, what was observed   *)
(* and what was recorded alone.                                            *)
LEMMA WireStep ==
  ASSUME TurnsInv, NEW c \in Clients, NEW u \in Use, NEW v \in Server,
         NEW i \in Seq(Methods),
         NEW o \in Seq(Messages), NEW q \in Seq(Messages),
         client' = [client EXCEPT ![c] = u], server' = [server EXCEPT ![c] = v],
         stdin' = [stdin EXCEPT ![c] = i], stdout' = [stdout EXCEPT ![c] = o],
         queued' = [queued EXCEPT ![c] = q],
         failures' \in 0..MaxFailures, failures' = 0 => failures = 0,
         UNCHANGED <<deskVars, observed, recorded>>,
         UseHolds(u, v, i, o, q, failures'),
         c \in AskCalls => AskHolds(u, v, o, q, observed[c], cancel[c], unseen[c], c \in recorded)
  PROVE  TurnsInv'
<1>1. /\ id' = id /\ registry' = registry /\ cancel' = cancel /\ unseen' = unseen
      /\ observed' = observed /\ recorded' = recorded
  BY DEF deskVars
<1>2. /\ registry' \in [Ids -> AskCalls \cup {NoAsk}] /\ unseen' \in [AskCalls -> BOOLEAN]
      /\ observed' \in [Clients -> Seq(Messages)] /\ recorded' \in SUBSET AskCalls
  BY <1>1 DEF TurnsInv, TurnsTypeOK
<1>3. \A a \in AskCalls \ {c} : /\ unseen'[a] = unseen[a] /\ observed'[a] = observed[a]
                                /\ a \in recorded' <=> a \in recorded
  BY <1>1
<1>4. c \in AskCalls => AskHolds(u, v, o, q, observed'[c], cancel[c], unseen'[c], c \in recorded')
  BY <1>1
<1> QED
  BY <1>1, <1>2, <1>3, <1>4, UseStep

(* The registry may change.                                                *)
LEMMA DeskStep ==
  ASSUME TurnsInv, NEW c \in Clients, NEW u \in Use, NEW v \in Server,
         NEW i \in Seq(Methods),
         NEW o \in Seq(Messages), NEW q \in Seq(Messages),
         client' = [client EXCEPT ![c] = u], server' = [server EXCEPT ![c] = v],
         stdin' = [stdin EXCEPT ![c] = i], stdout' = [stdout EXCEPT ![c] = o],
         queued' = [queued EXCEPT ![c] = q],
         failures' \in 0..MaxFailures, failures' = 0 => failures = 0,
         registry' \in [Ids -> AskCalls \cup {NoAsk}],
         UNCHANGED <<id, cancel, unseen, observed, recorded>>,
         UseHolds(u, v, i, o, q, failures'),
         c \in AskCalls => AskHolds(u, v, o, q, observed[c], cancel[c], unseen[c], c \in recorded)
  PROVE  TurnsInv'
<1>1. /\ id' = id /\ cancel' = cancel /\ unseen' = unseen
      /\ observed' = observed /\ recorded' = recorded
  OBVIOUS
<1>2. /\ unseen' \in [AskCalls -> BOOLEAN] /\ observed' \in [Clients -> Seq(Messages)]
      /\ recorded' \in SUBSET AskCalls
  BY <1>1 DEF TurnsInv, TurnsTypeOK
<1>3. \A a \in AskCalls \ {c} : /\ unseen'[a] = unseen[a] /\ observed'[a] = observed[a]
                                /\ a \in recorded' <=> a \in recorded
  BY <1>1
<1>4. c \in AskCalls => AskHolds(u, v, o, q, observed'[c], cancel[c], unseen'[c], c \in recorded')
  BY <1>1
<1> QED
  BY <1>1, <1>2, <1>3, <1>4, UseStep

LEMMA FaultStep ==
  ASSUME TurnsInv, Failure
  PROVE  failures' \in 0..MaxFailures /\ failures' # 0 /\ failures' \in Nat
BY TurnsAssumption DEF TurnsInv, TurnsTypeOK, Failure
-----------------------------------------------------------------------------
(* The app-server.                                                         *)

LEMMA LastMessage ==
  ASSUME NEW o \in Seq(Messages), NEW m \in Messages
  PROVE  /\ Append(o, m) \in Seq(Messages)
         /\ \A k \in DOMAIN Append(o, m) : \/ k \in DOMAIN o /\ Append(o, m)[k] = o[k]
                                           \/ k = Len(o) + 1 /\ Append(o, m)[k] = m
<1>1. Len(o) \in Nat /\ DOMAIN o = 1..Len(o) /\ DOMAIN Append(o, m) = 1..(Len(o) + 1)
  OBVIOUS
<1>2. \A k \in 1..Len(o) : Append(o, m)[k] = o[k]
  OBVIOUS
<1>3. Append(o, m)[Len(o) + 1] = m
  OBVIOUS
<1>4. \A k \in 1..(Len(o) + 1) : k \in 1..Len(o) \/ k = Len(o) + 1
  BY <1>1
<1>5. Append(o, m) \in Seq(Messages)
  OBVIOUS
<1> QED
  BY <1>1, <1>2, <1>3, <1>4, <1>5

(* A message that is no answer changes nothing about the answers.          *)
LEMMA Sends ==
  ASSUME NEW u \in Use, NEW v \in Server, NEW w \in Server, NEW i,
         NEW o \in Seq(Messages),
         NEW q, NEW f \in Nat, UseHolds(u, v, i, o, q, f), u.pc # "idle",
         NEW m \in Messages, m.kind # "answer", SameProcess(v, w),
         u.pc \in {"top", "select", "complete"} => w.turn # "none",
         TurnStarts(u, w, i, o), v.turn = "completed" => w.turn = "completed"
  PROVE  UseHolds(u, w, i, Append(o, m), q, f)
<1> DEFINE p == Append(o, m)
<1>1. p \in Seq(Messages) /\ \A k \in DOMAIN p : p[k].kind = "answer" => k \in DOMAIN o /\ p[k] = o[k]
  BY LastMessage
<1> HIDE DEF p
<1>2. Exchange(u, i, p, q)
  BY <1>1 DEF UseHolds, Exchange, NoAnswer, OneAnswer
<1>3. TurnStarts(u, w, i, p)
  BY <1>1 DEF TurnStarts
<1>4. f = 0 => Reasons(u, w, p)
  BY <1>1 DEF UseHolds, Reasons, SameProcess
<1> QED
  BY <1>2, <1>3, <1>4 DEF UseHolds, SameProcess, p

(* What the app-server writes is a message.                                *)
LEMMA TypedMessages ==
  /\ \A x \in Methods, ok \in BOOLEAN : Answer(x, ok) \in Messages
  /\ \A k \in {"item", "completed"}, n \in 0..(MaxMessages + 1) :
       TurnMessage(k, n) \in Messages
<1>1. 0 \in 0..(MaxMessages + 1) /\ "turn/start" \in Methods
  BY TurnsAssumption DEF Methods
<1>2. ASSUME NEW x \in Methods, NEW ok \in BOOLEAN
      PROVE  Answer(x, ok) \in Messages
  BY <1>1 DEF Answer, Messages
<1>3. ASSUME NEW k \in {"item", "completed"}, NEW n \in 0..(MaxMessages + 1)
      PROVE  TurnMessage(k, n) \in Messages
  BY <1>1 DEF TurnMessage, Messages
<1> QED
  BY <1>2, <1>3

(* The request is answered.                                                *)
LEMMA AnswerSent ==
  ASSUME NEW u \in Use, NEW v \in Server, NEW w \in Server, NEW i,
         NEW o \in Seq(Messages), NEW q, NEW f \in Nat, NEW g \in Nat,
         UseHolds(u, v, i, o, q, f), i # << >>, g = 0 => f = 0, NEW ok \in BOOLEAN,
         SameProcess(v, w), w.n = v.n,
         v.turn = "completed" => w.turn = "completed",
         TurnStarts(u, w, << >>, o), u.method = "turn/start" /\ ok => w.turn # "none",
         g = 0 /\ ~ok => u.method = "turn/interrupt" /\ w.turn = "completed"
  PROVE  /\ UseHolds(u, w, << >>, Append(o, Answer(u.method, ok)), q, g)
         /\ Append(o, Answer(u.method, ok)) \in Seq(Messages)
<1> DEFINE m == Answer(u.method, ok)
           p == Append(o, m)
<1>0. u.method \in Methods
  BY DEF Use
<1>1. m \in Messages
  BY <1>0, TypedMessages
<1>2. m.kind = "answer" /\ m.method = u.method /\ (m.ok <=> ok)
  BY DEF Answer
<1>3. NoAnswer(o) /\ u.pc \notin {"idle", "top", "select", "complete"}
  BY DEF UseHolds, Exchange
<1> HIDE DEF m
<1>4. p \in Seq(Messages) /\ \A k \in DOMAIN p : p[k].kind = "answer" => k = Len(o) + 1 /\ p[k] = m
  BY <1>1, <1>3, LastMessage DEF NoAnswer
<1> HIDE DEF p
<1>5. Exchange(u, << >>, p, q)
  BY <1>2, <1>3, <1>4 DEF UseHolds, Exchange, NoAnswer, OneAnswer
<1>6. TurnStarts(u, w, << >>, p)
  BY <1>2, <1>3, <1>4 DEF TurnStarts
<1>7. g = 0 => Reasons(u, w, p)
  BY <1>2, <1>3, <1>4 DEF UseHolds, Reasons, SameProcess
<1> QED
  BY <1>3, <1>4, <1>5, <1>6, <1>7 DEF UseHolds, SameProcess, p, m

LEMMA ServesKeeps ==
  ASSUME TurnsInv, NEW c \in Clients, Serves(c)
  PROVE  TurnsInv'
<1> DEFINE u == client[c]
           v == server[c]
           i == stdin[c]
           o == stdout[c]
           q == queued[c]
           m == u.method
<1>0. /\ u \in Use /\ v \in Server /\ i \in Seq(Methods) /\ o \in Seq(Messages)
      /\ q \in Seq(Messages) /\ UseHolds(u, v, i, o, q, failures)
      /\ failures \in 0..MaxFailures /\ failures \in Nat
      /\ client = [client EXCEPT ![c] = u] /\ queued = [queued EXCEPT ![c] = q]
      /\ server = [server EXCEPT ![c] = v]
  BY TurnsTypes
<1>1. /\ i # << >> /\ stdin' = [stdin EXCEPT ![c] = Tail(i)] /\ v.up
      /\ UNCHANGED <<deskVars, client, queued, observed, recorded>>
      /\ \/ /\ Head(i) = "turn/start"
            /\ server' = [server EXCEPT ![c] = [v EXCEPT !.turn = "running"]]
            /\ stdout' = [stdout EXCEPT ![c] = Append(o, Answer(Head(i), TRUE))]
            /\ UNCHANGED failures
         \/ /\ Head(i) = "turn/interrupt" /\ v.turn = "running"
            /\ server' = [server EXCEPT ![c] = [v EXCEPT !.turn = "interrupted", !.n = v.n + 1]]
            /\ stdout' = [stdout EXCEPT ![c] =
                 o \o <<Answer(Head(i), TRUE), TurnMessage("completed", v.n + 1)>>]
            /\ UNCHANGED failures
         \/ /\ Head(i) = "turn/interrupt" /\ v.turn # "running"
            /\ server' = server
            /\ stdout' = [stdout EXCEPT ![c] = Append(o, Answer(Head(i), FALSE))]
            /\ UNCHANGED failures
         \/ /\ Head(i) \notin {"turn/start", "turn/interrupt"}
            /\ server' = server
            /\ stdout' = [stdout EXCEPT ![c] = Append(o, Answer(Head(i), TRUE))]
            /\ UNCHANGED failures
         \/ /\ Failure
            /\ server' = server
            /\ stdout' = [stdout EXCEPT ![c] = Append(o, Answer(Head(i), FALSE))]
  BY <1>0 DEF Serves, Server
<1>2. i = <<m>> /\ Head(i) = m /\ Tail(i) = << >>
  <2>1. i = <<m>>
    <3> HIDE DEF u, v, i, o, q
    <3> QED
      BY <1>0, <1>1 DEF UseHolds, Exchange
  <2> HIDE DEF i, m
  <2> QED
    BY <2>1
<1>3. TurnStarts(u, v, i, o) /\ u.pc \notin {"idle", "top", "select", "complete"}
  BY <1>0, <1>1 DEF UseHolds, Exchange
<1>4. /\ client' = [client EXCEPT ![c] = u] /\ queued' = [queued EXCEPT ![c] = q]
      /\ UNCHANGED <<deskVars, observed, recorded>>
  <2>1. client' = client /\ queued' = queued /\ UNCHANGED <<deskVars, observed, recorded>>
    BY <1>1
  <2> QED
    BY <1>0, <2>1
<1>a. c \in AskCalls => AskHolds(u, v, o, q, observed[c], cancel[c], unseen[c], c \in recorded)
                      /\ observed[c] \in Seq(Messages)
  BY TurnsTypes DEF TurnsInv, AsksHold
<1>b. m \in Methods /\ v.n \in Nat /\ v.n \in 0..(MaxMessages + 1)
  BY <1>0, TurnsAssumption DEF Use, Server
<1>c. << >> \in Seq(Methods) /\ SameProcess(v, v)
  BY DEF SameProcess
<1> HIDE DEF u, v, i, o, q, m
<1>5. ASSUME NEW w \in Server, NEW ok \in BOOLEAN, SameProcess(v, w), w.n = v.n,
             failures' \in 0..MaxFailures, failures' \in Nat, failures' = 0 => failures = 0,
             v.turn = "completed" => w.turn = "completed",
             TurnStarts(u, w, << >>, o), m = "turn/start" /\ ok => w.turn # "none",
             failures' = 0 /\ ~ok => m = "turn/interrupt" /\ w.turn = "completed",
             server' = [server EXCEPT ![c] = w],
             stdout' = [stdout EXCEPT ![c] = Append(o, Answer(m, ok))]
      PROVE  TurnsInv'
  <2> DEFINE p == Append(o, Answer(m, ok))
  <2>1. UseHolds(u, w, << >>, p, q, failures') /\ p \in Seq(Messages)
    BY <1>0, <1>1, <1>5, AnswerSent DEF m
  <2>2. ASSUME c \in AskCalls
        PROVE  AskHolds(u, w, p, q, observed[c], cancel[c], unseen[c], c \in recorded)
    <3>1. Answer(m, ok) \in Messages /\ Answer(m, ok).kind = "answer"
      BY <1>0, <1>b, TypedMessages DEF Answer
    <3>2. u.pc \in Working => Parts(observed[c], q, p, v.n)
      BY <1>0, <1>a, <1>b, <2>2, <3>1, PartsAnswerSent DEF AskHolds
    <3> HIDE DEF p
    <3> QED
      BY <1>5, <1>a, <2>2, <3>2 DEF AskHolds
  <2>3. stdout' = [stdout EXCEPT ![c] = p] /\ stdin' = [stdin EXCEPT ![c] = << >>]
    BY <1>1, <1>2, <1>5
  <2> HIDE DEF p
  <2> QED
    BY <1>0, <1>4, <1>5, <1>c, <2>1, <2>2, <2>3, WireStep
<1>6. CASE Head(i) = "turn/start" /\ server' = [server EXCEPT ![c] = [v EXCEPT !.turn = "running"]]
           /\ stdout' = [stdout EXCEPT ![c] = Append(o, Answer(Head(i), TRUE))] /\ UNCHANGED failures
  <2> DEFINE w == [v EXCEPT !.turn = "running"]
  <2>1. w \in Server /\ SameProcess(v, w) /\ w.n = v.n /\ w.turn = "running"
    BY <1>0 DEF Server, SameProcess
  <2>2. server' = [server EXCEPT ![c] = w]
    BY <1>6
  <2> HIDE DEF w
  <2>3. m = "turn/start" /\ v.turn = "none" /\ v.n = 0
    BY <1>1, <1>2, <1>3, <1>6 DEF TurnStarts, m
  <2>4. TurnStarts(u, w, << >>, o)
    BY <1>0, <1>3, <2>1, <2>3, TurnsAssumption DEF TurnStarts, m
  <2> QED
    BY <1>0, <1>2, <1>5, <1>6, <2>1, <2>2, <2>3, <2>4
<1>7. CASE Head(i) = "turn/interrupt" /\ v.turn # "running" /\ server' = server
           /\ stdout' = [stdout EXCEPT ![c] = Append(o, Answer(Head(i), FALSE))] /\ UNCHANGED failures
  <2>1. m = "turn/interrupt" /\ v.turn = "completed"
    BY <1>1, <1>2, <1>3, <1>7 DEF TurnStarts, m
  <2>2. TurnStarts(u, v, << >>, o)
    BY <1>3 DEF TurnStarts
  <2> QED
    BY <1>0, <1>2, <1>5, <1>7, <2>1, <2>2, <1>c
<1>8. CASE Head(i) \notin {"turn/start", "turn/interrupt"} /\ server' = server
           /\ stdout' = [stdout EXCEPT ![c] = Append(o, Answer(Head(i), TRUE))] /\ UNCHANGED failures
  <2>1. TurnStarts(u, v, << >>, o)
    BY <1>3 DEF TurnStarts
  <2> QED
    BY <1>0, <1>2, <1>5, <1>8, <2>1, <1>c
<1>9. CASE Failure /\ server' = server
           /\ stdout' = [stdout EXCEPT ![c] = Append(o, Answer(Head(i), FALSE))]
  <2>1. TurnStarts(u, v, << >>, o)
    BY <1>3 DEF TurnStarts
  <2>2. failures' \in 0..MaxFailures /\ failures' # 0 /\ failures' \in Nat
    BY <1>9, FaultStep
  <2> QED
    BY <1>0, <1>2, <1>5, <1>9, <2>1, <2>2, <1>c
<1>10. CASE Head(i) = "turn/interrupt" /\ v.turn = "running"
            /\ server' = [server EXCEPT ![c] = [v EXCEPT !.turn = "interrupted", !.n = v.n + 1]]
            /\ stdout' = [stdout EXCEPT ![c] =
                 o \o <<Answer(Head(i), TRUE), TurnMessage("completed", v.n + 1)>>]
            /\ UNCHANGED failures
  <2> DEFINE w == [v EXCEPT !.turn = "interrupted", !.n = v.n + 1]
             a == Answer(m, TRUE)
             d == TurnMessage("completed", v.n + 1)
             r == Append(o, a)
             p == Append(r, d)
  <2>1. m = "turn/interrupt" /\ v.n <= MaxMessages
    BY <1>2, <1>3, <1>10 DEF TurnStarts
  <2>2. v.n + 1 \in 0..(MaxMessages + 1)
    BY <1>0, <1>b, <2>1, TurnsAssumption
  <2>3. w \in Server /\ SameProcess(v, w) /\ w.n = v.n + 1 /\ w.turn = "interrupted"
    BY <1>0, <2>2 DEF Server, SameProcess
  <2>4. a \in Messages /\ d \in Messages /\ a.kind = "answer" /\ d.kind # "answer" /\ d.n = v.n + 1
    BY <1>0, <1>b, <2>2, TypedMessages DEF Answer, TurnMessage
  <2>5. server' = [server EXCEPT ![c] = w]
    BY <1>10
  <2>6. o \o <<a, d>> = p
    <3> HIDE DEF a, d
    <3> QED
      BY <1>0, <2>4
  <2>7. TurnStarts(u, v, << >>, o)
    BY <1>3 DEF TurnStarts
  <2>8. UseHolds(u, v, << >>, r, q, failures) /\ r \in Seq(Messages)
    BY <1>0, <1>1, <1>c, <2>1, <2>7, AnswerSent DEF m
  <2>9. TurnStarts(u, v, << >>, r)
    BY <2>8 DEF UseHolds
  <2> HIDE DEF w, a, d, r
  <2>10. TurnStarts(u, w, << >>, r)
    BY <1>3, <2>1, <2>3, <2>9 DEF TurnStarts, m
  <2>11. UseHolds(u, w, << >>, p, q, failures) /\ p \in Seq(Messages)
    <3>1. UseHolds(u, w, << >>, p, q, failures)
      BY <1>0, <1>3, <1>10, <2>3, <2>4, <2>8, <2>10, Sends
    <3>2. p \in Seq(Messages)
      BY <2>4, <2>8
    <3> QED
      BY <3>1, <3>2
  <2>12. ASSUME c \in AskCalls
         PROVE  AskHolds(u, w, p, q, observed[c], cancel[c], unseen[c], c \in recorded)
    <3>1. u.pc \in Working => Parts(observed[c], q, r, v.n)
      BY <1>0, <1>a, <1>b, <2>12, <2>4, PartsAnswerSent DEF AskHolds, r
    <3>2. u.pc \in Working => Parts(observed[c], q, p, v.n + 1)
      BY <1>0, <1>a, <1>b, <2>12, <2>4, <2>8, <3>1, PartsSent
    <3> HIDE DEF p
    <3> QED
      BY <1>a, <2>3, <2>12, <3>2 DEF AskHolds
  <2>13. stdout' = [stdout EXCEPT ![c] = p] /\ stdin' = [stdin EXCEPT ![c] = << >>]
    BY <1>1, <1>2, <1>10, <2>6 DEF a, d
  <2> HIDE DEF p
  <2> QED
    BY <1>0, <1>4, <1>10, <1>c, <2>3, <2>5, <2>11, <2>12, <2>13, WireStep
<1> QED
  BY <1>1, <1>6, <1>7, <1>8, <1>9, <1>10

LEMMA TurnSendsKeeps ==
  ASSUME TurnsInv, NEW c \in Clients, TurnSends(c)
  PROVE  TurnsInv'
<1> DEFINE u == client[c]
           v == server[c]
           i == stdin[c]
           o == stdout[c]
           q == queued[c]
<1>0. /\ u \in Use /\ v \in Server /\ i \in Seq(Methods) /\ o \in Seq(Messages)
      /\ q \in Seq(Messages) /\ UseHolds(u, v, i, o, q, failures)
      /\ failures \in 0..MaxFailures /\ failures \in Nat
      /\ client = [client EXCEPT ![c] = u] /\ queued = [queued EXCEPT ![c] = q]
      /\ stdin = [stdin EXCEPT ![c] = i]
  BY TurnsTypes
<1>1. PICK t \in {"running", "completed"}, k \in {"item", "completed"} :
        /\ v.turn = "running" /\ (t = "running" => v.n < MaxMessages)
        /\ server' = [server EXCEPT ![c] = [v EXCEPT !.n = v.n + 1, !.turn = t]]
        /\ stdout' = [stdout EXCEPT ![c] = Append(o, TurnMessage(k, v.n + 1))]
        /\ UNCHANGED <<deskVars, client, stdin, queued, observed, recorded, failures>>
  <2>1. v.turn = "running" /\ UNCHANGED <<deskVars, client, stdin, queued, observed, recorded, failures>>
    BY DEF TurnSends
  <2>2. CASE v.n < MaxMessages /\ stdout' = [stdout EXCEPT ![c] = Append(@, TurnMessage("item", v.n + 1))]
             /\ server' = [server EXCEPT ![c].n = @ + 1]
    <3>1. [v EXCEPT !.n = v.n + 1] = [v EXCEPT !.n = v.n + 1, !.turn = "running"]
      BY <1>0, <2>1 DEF Server
    <3> QED
      BY <2>1, <2>2, <3>1
  <2>3. CASE stdout' = [stdout EXCEPT ![c] = Append(@, TurnMessage("completed", v.n + 1))]
             /\ server' = [server EXCEPT ![c].n = @ + 1, ![c].turn = "completed"]
    BY <2>1, <2>3
  <2> QED
    BY <2>2, <2>3 DEF TurnSends
<1>a. c \in AskCalls => AskHolds(u, v, o, q, observed[c], cancel[c], unseen[c], c \in recorded)
                      /\ observed[c] \in Seq(Messages)
  BY TurnsTypes DEF TurnsInv, AsksHold
<1> HIDE DEF u, v, i, o, q
<1> DEFINE w == [v EXCEPT !.n = v.n + 1, !.turn = t]
           m == TurnMessage(k, v.n + 1)
           p == Append(o, m)
<1>2. TurnStarts(u, v, i, o)
  BY <1>0 DEF UseHolds
<1>3. v.n + 1 \in 0..(MaxMessages + 1) /\ v.n <= MaxMessages /\ v.n \in Nat
  BY <1>0, <1>1, <1>2, TurnsAssumption DEF TurnStarts, Server
<1>4. w \in Server /\ SameProcess(v, w) /\ w.n = v.n + 1 /\ w.turn = t
  BY <1>0, <1>3 DEF Server, SameProcess
<1>5. m \in Messages /\ m.kind # "answer" /\ m.n = v.n + 1 /\ p \in Seq(Messages)
  <2>1. m \in Messages
    BY <1>0, <1>3, TypedMessages
  <2>2. m.kind = k /\ m.n = v.n + 1
    BY DEF TurnMessage
  <2> HIDE DEF m
  <2> QED
    BY <1>0, <2>1, <2>2
<1>6. server' = [server EXCEPT ![c] = w] /\ stdout' = [stdout EXCEPT ![c] = p]
  BY <1>1
<1> HIDE DEF w, m
<1>7. u.pc # "idle"
  BY <1>0, <1>1, <1>2 DEF UseHolds, TurnStarts
<1>8. TurnStarts(u, w, i, o)
  <2>1. v.turn = "running" /\ w.turn \in {"running", "completed"} /\ w.n = v.n + 1
    BY <1>1, <1>4
  <2>2. u.method \in {"turn/start", "turn/interrupt"} /\ (u.method = "turn/start" => i = << >>)
    BY <1>2, <2>1 DEF TurnStarts
  <2>3. w.turn = "running" => w.n <= MaxMessages
    BY <1>0, <1>1, <1>3, <1>4, TurnsAssumption
  <2>4. u.pc \in {"top", "select", "complete"} => (u.interrupted <=> u.method = "turn/interrupt")
    BY <1>2 DEF TurnStarts
  <2> QED
    BY <2>1, <2>2, <2>3, <2>4 DEF TurnStarts
<1>9. UseHolds(u, w, i, p, q, failures)
  BY <1>0, <1>1, <1>4, <1>5, <1>7, <1>8, Sends
<1>10. ASSUME c \in AskCalls
       PROVE  AskHolds(u, w, p, q, observed[c], cancel[c], unseen[c], c \in recorded)
  <2>1. u.pc \in Working => Parts(observed[c], q, p, v.n + 1)
    BY <1>0, <1>3, <1>5, <1>a, <1>10, PartsSent DEF AskHolds
  <2> HIDE DEF p
  <2> QED
    BY <1>4, <1>7, <1>a, <1>10, <2>1 DEF AskHolds
<1> HIDE DEF p
<1>11. /\ client' = [client EXCEPT ![c] = u] /\ stdin' = [stdin EXCEPT ![c] = i]
       /\ queued' = [queued EXCEPT ![c] = q] /\ failures' = failures
       /\ UNCHANGED <<deskVars, observed, recorded>>
  <2>1. client' = client /\ stdin' = stdin /\ queued' = queued /\ failures' = failures
        /\ UNCHANGED <<deskVars, observed, recorded>>
    BY <1>1
  <2> QED
    BY <1>0, <2>1
<1> QED
  BY <1>0, <1>4, <1>5, <1>6, <1>9, <1>10, <1>11, WireStep

LEMMA ServerEndsKeeps ==
  ASSUME TurnsInv, NEW c \in Clients, ServerEnds(c)
  PROVE  TurnsInv'
<1> DEFINE u == client[c]
           v == server[c]
           i == stdin[c]
           o == stdout[c]
           q == queued[c]
           w == [v EXCEPT !.up = FALSE]
<1>0. /\ u \in Use /\ v \in Server /\ i \in Seq(Methods) /\ o \in Seq(Messages)
      /\ q \in Seq(Messages) /\ UseHolds(u, v, i, o, q, failures)
      /\ failures \in 0..MaxFailures /\ failures \in Nat
      /\ client = [client EXCEPT ![c] = u] /\ queued = [queued EXCEPT ![c] = q]
      /\ stdin = [stdin EXCEPT ![c] = i] /\ stdout = [stdout EXCEPT ![c] = o]
  BY TurnsTypes
<1>1. /\ server' = [server EXCEPT ![c] = w]
      /\ UNCHANGED <<deskVars, client, wire, queued, observed, recorded>>
      /\ Failure \/ (~v.stdin /\ UNCHANGED failures)
  BY DEF ServerEnds
<1>2. /\ failures' \in 0..MaxFailures /\ failures' \in Nat
      /\ failures' = 0 => failures = 0 /\ ~v.stdin
  BY <1>0, <1>1, FaultStep
<1>a. c \in AskCalls => AskHolds(u, v, o, q, observed[c], cancel[c], unseen[c], c \in recorded)
  BY DEF TurnsInv, AsksHold
<1>3. /\ client' = [client EXCEPT ![c] = u] /\ stdin' = [stdin EXCEPT ![c] = i]
      /\ queued' = [queued EXCEPT ![c] = q] /\ stdout' = [stdout EXCEPT ![c] = o]
      /\ UNCHANGED <<deskVars, observed, recorded>>
  <2>1. client' = client /\ stdin' = stdin /\ queued' = queued /\ stdout' = stdout
        /\ UNCHANGED <<deskVars, observed, recorded>>
    BY <1>1 DEF wire
  <2> QED
    BY <1>0, <2>1
<1> HIDE DEF u, v, i, o, q
<1>4. w \in Server /\ w.turn = v.turn /\ w.n = v.n /\ (v.stdin => w.stdin)
  BY <1>0 DEF Server
<1> HIDE DEF w
<1>5. TurnStarts(u, w, i, o)
  BY <1>0, <1>4 DEF UseHolds, TurnStarts
<1>6. failures' = 0 => Reasons(u, w, o)
  BY <1>0, <1>2, <1>4 DEF UseHolds, Reasons
<1>7. UseHolds(u, w, i, o, q, failures')
  BY <1>0, <1>4, <1>5, <1>6 DEF UseHolds
<1>8. c \in AskCalls => AskHolds(u, w, o, q, observed[c], cancel[c], unseen[c], c \in recorded)
  BY <1>a, <1>4 DEF AskHolds
<1> QED
  BY <1>0, <1>1, <1>2, <1>3, <1>4, <1>7, <1>8, WireStep

-----------------------------------------------------------------------------
(* The registry.                                                           *)

(* An idle use sends its first request.                                    *)
LEMMA Begins ==
  ASSUME NEW u \in Use, NEW v \in Server, NEW i, NEW o, NEW q, NEW f \in Nat,
         UseHolds(u, v, i, o, q, f), u.pc = "idle",
         NEW x \in Use, NEW w \in Server, x = [u EXCEPT !.pc = "asking"],
         w = [v EXCEPT !.up = TRUE, !.stdin = TRUE]
  PROVE  UseHolds(x, w, <<"initialize">>, o, q, f)
<1>1. x.pc = "asking" /\ x.method = "initialize" /\ x.result = "none"
  BY DEF UseHolds, Ending, Use
<1>2. w.turn = v.turn /\ w.n = v.n /\ w.up /\ w.stdin
  BY DEF Server
<1>3. o = << >> /\ q = << >> /\ u.method = "initialize" /\ TurnStarts(u, v, i, o)
  BY DEF UseHolds
<1>4. Exchange(x, <<"initialize">>, o, q)
  BY <1>1, <1>3, EmptyFacts DEF Exchange
<1>5. DOMAIN o = {}
  BY <1>3
<1>6. TurnStarts(x, w, <<"initialize">>, o)
  BY <1>1, <1>2, <1>3, <1>5 DEF TurnStarts
<1>7. Reasons(x, w, o)
  BY <1>1, <1>2, <1>5 DEF Reasons
<1> QED
  BY <1>1, <1>2, <1>4, <1>6, <1>7 DEF UseHolds, Ending, Working

(* An idle use ends at once.                                               *)
LEMMA EndsAtOnce ==
  ASSUME NEW u \in Use, NEW v \in Server, NEW i, NEW o, NEW q, NEW f \in Nat,
         NEW g \in Nat,
         UseHolds(u, v, i, o, q, f), u.pc = "idle", g = 0 => f = 0,
         NEW p \in {"done", "unregister"}, NEW r \in {"failed", "duplicate"},
         r = "failed" => g # 0,
         NEW x \in Use, x = [u EXCEPT !.pc = p, !.result = r]
  PROVE  UseHolds(x, v, i, o, q, g)
<1>1. x.pc = p /\ x.method = u.method /\ x.result = r
  BY DEF Use
<1>2. o = << >> /\ q = << >> /\ TurnStarts(u, v, i, o) /\ Exchange(u, i, o, q) /\ u.method = "initialize"
  BY DEF UseHolds
<1>3. Exchange(x, i, o, q)
  BY <1>1, <1>2 DEF Exchange
<1>4. DOMAIN o = {}
  BY <1>2
<1>5. TurnStarts(x, v, i, o)
  BY <1>1, <1>2 DEF TurnStarts
<1>6. g = 0 => Reasons(x, v, o)
  BY <1>1, <1>4 DEF Reasons, Working
<1> QED
  BY <1>1, <1>3, <1>5, <1>6 DEF UseHolds, Ending, Working

LEMMA RegistryTypes ==
  ASSUME TurnsInv, NEW a \in AskCalls
  PROVE  /\ id[a] \in Ids /\ a \in Clients
         /\ registry \in [Ids -> AskCalls \cup {NoAsk}]
         /\ [registry EXCEPT ![id[a]] = a] \in [Ids -> AskCalls \cup {NoAsk}]
         /\ [registry EXCEPT ![id[a]] = NoAsk] \in [Ids -> AskCalls \cup {NoAsk}]
         /\ AskHolds(client[a], server[a], stdout[a], queued[a], observed[a],
                     cancel[a], unseen[a], a \in recorded)
<1>1. id \in [AskCalls -> Ids] /\ registry \in [Ids -> AskCalls \cup {NoAsk}]
  BY DEF TurnsInv, TurnsTypeOK
<1>2. AskHolds(client[a], server[a], stdout[a], queued[a], observed[a],
               cancel[a], unseen[a], a \in recorded)
  BY DEF TurnsInv, AsksHold
<1> QED
  BY <1>1, <1>2 DEF Clients

LEMMA BeginAskKeeps ==
  ASSUME TurnsInv, NEW c \in AskCalls, BeginAsk(c)
  PROVE  TurnsInv'
<1> DEFINE u == client[c]
           v == server[c]
           i == stdin[c]
           o == stdout[c]
           q == queued[c]
<1>00. c \in Clients
  BY RegistryTypes
<1>0. /\ u \in Use /\ v \in Server /\ i \in Seq(Methods) /\ o \in Seq(Messages)
      /\ q \in Seq(Messages) /\ UseHolds(u, v, i, o, q, failures)
      /\ failures \in 0..MaxFailures /\ failures \in Nat
      /\ server = [server EXCEPT ![c] = v] /\ queued = [queued EXCEPT ![c] = q]
      /\ stdin = [stdin EXCEPT ![c] = i] /\ stdout = [stdout EXCEPT ![c] = o]
  BY <1>00, TurnsTypes
<1>1. /\ u.pc = "idle" /\ registry' = [registry EXCEPT ![id[c]] = c]
      /\ UNCHANGED <<id, cancel, unseen, stdout, queued, observed, recorded, failures>>
      /\ \/ /\ client' = [client EXCEPT ![c] = [u EXCEPT !.pc = "done", !.result = "duplicate"]]
            /\ UNCHANGED <<server, stdin>>
         \/ /\ client' = [client EXCEPT ![c] = [u EXCEPT !.pc = "asking"]]
            /\ server' = [server EXCEPT ![c] = [v EXCEPT !.up = TRUE, !.stdin = TRUE]]
            /\ stdin' = [stdin EXCEPT ![c] = <<"initialize">>]
  BY DEF BeginAsk
<1>2. registry' \in [Ids -> AskCalls \cup {NoAsk}]
  BY <1>1, RegistryTypes
<1>3. /\ stdout' = [stdout EXCEPT ![c] = o] /\ queued' = [queued EXCEPT ![c] = q]
      /\ UNCHANGED <<id, cancel, unseen, observed, recorded>>
      /\ failures' = failures
  BY <1>0, <1>1
<1>a. AskHolds(u, v, o, q, observed[c], cancel[c], unseen[c], c \in recorded)
  BY RegistryTypes
<1>b. o = << >> /\ q = << >> /\ observed[c] = << >> /\ v.turn = "none" /\ v.n = 0
      /\ u.method = "initialize" /\ u.result = "none"
  <2> HIDE DEF u, v, i, o, q
  <2>1. o = << >> /\ q = << >> /\ u.method = "initialize" /\ TurnStarts(u, v, i, o)
    BY <1>0, <1>1 DEF UseHolds
  <2>2. v.turn = "none" /\ v.n = 0
    BY <2>1 DEF TurnStarts
  <2>3. observed[c] = << >>
    BY <1>1, <1>a DEF AskHolds
  <2>4. u.result = "none"
    BY <1>0, <1>1 DEF UseHolds, Ending
  <2> QED
    BY <2>1, <2>2, <2>3, <2>4
<1> HIDE DEF u, v, i, o, q
<1>4. CASE client' = [client EXCEPT ![c] = [u EXCEPT !.pc = "done", !.result = "duplicate"]]
           /\ UNCHANGED <<server, stdin>>
  <2> DEFINE x == [u EXCEPT !.pc = "done", !.result = "duplicate"]
  <2>1. x \in Use /\ x.pc = "done" /\ x.method = u.method /\ x.result = "duplicate"
    BY <1>0 DEF Use
  <2>2. UseHolds(x, v, i, o, q, failures)
    BY <1>0, <1>1, <2>1, EndsAtOnce
  <2>3. client' = [client EXCEPT ![c] = x] /\ server' = [server EXCEPT ![c] = v]
        /\ stdin' = [stdin EXCEPT ![c] = i]
    BY <1>0, <1>4
  <2> HIDE DEF x
  <2>4. AskHolds(x, v, o, q, observed[c], cancel[c], unseen[c], c \in recorded)
    BY <1>a, <1>b, <2>1 DEF AskHolds, Working
  <2> QED
    BY <1>00, <1>0, <1>2, <1>3, <2>1, <2>2, <2>3, <2>4, DeskStep
<1>5. CASE client' = [client EXCEPT ![c] = [u EXCEPT !.pc = "asking"]]
           /\ server' = [server EXCEPT ![c] = [v EXCEPT !.up = TRUE, !.stdin = TRUE]]
           /\ stdin' = [stdin EXCEPT ![c] = <<"initialize">>]
  <2> DEFINE x == [u EXCEPT !.pc = "asking"]
             w == [v EXCEPT !.up = TRUE, !.stdin = TRUE]
  <2>1. x \in Use /\ x.pc = "asking" /\ x.method = u.method /\ x.result = u.result
    BY <1>0 DEF Use
  <2>2. w \in Server /\ w.turn = v.turn /\ w.n = v.n
    BY <1>0 DEF Server
  <2>3. UseHolds(x, w, <<"initialize">>, o, q, failures)
    BY <1>0, <1>1, <2>1, <2>2, Begins
  <2>4. client' = [client EXCEPT ![c] = x] /\ server' = [server EXCEPT ![c] = w]
    BY <1>5
  <2>5. <<"initialize">> \in Seq(Methods)
    BY DEF Methods
  <2> HIDE DEF x, w
  <2>6. Parts(<< >>, << >>, << >>, 0)
    BY EmptyFacts DEF Parts, Below
  <2>7. AskHolds(x, w, o, q, observed[c], cancel[c], unseen[c], c \in recorded)
    BY <1>a, <1>b, <2>1, <2>2, <2>6 DEF AskHolds
  <2> QED
    BY <1>00, <1>0, <1>2, <1>3, <1>5, <2>1, <2>2, <2>3, <2>4, <2>5, <2>7, DeskStep
<1> QED
  BY <1>1, <1>4, <1>5

LEMMA BeginReadKeeps ==
  ASSUME TurnsInv, NEW c \in Clients, BeginRead(c)
  PROVE  TurnsInv'
<1> DEFINE u == client[c]
           v == server[c]
           i == stdin[c]
           o == stdout[c]
           q == queued[c]
           x == [u EXCEPT !.pc = "asking"]
           w == [v EXCEPT !.up = TRUE, !.stdin = TRUE]
<1>0. /\ u \in Use /\ v \in Server /\ i \in Seq(Methods) /\ o \in Seq(Messages)
      /\ q \in Seq(Messages) /\ UseHolds(u, v, i, o, q, failures)
      /\ failures \in 0..MaxFailures /\ failures \in Nat
      /\ queued = [queued EXCEPT ![c] = q] /\ stdout = [stdout EXCEPT ![c] = o]
  BY TurnsTypes
<1>1. /\ c \in Reads /\ u.pc = "idle"
      /\ client' = [client EXCEPT ![c] = x] /\ server' = [server EXCEPT ![c] = w]
      /\ stdin' = [stdin EXCEPT ![c] = <<"initialize">>]
      /\ UNCHANGED <<deskVars, stdout, queued, observed, recorded, failures>>
  BY DEF BeginRead
<1>2. /\ stdout' = [stdout EXCEPT ![c] = o] /\ queued' = [queued EXCEPT ![c] = q]
      /\ UNCHANGED <<deskVars, observed, recorded>> /\ failures' = failures
  BY <1>0, <1>1
<1>3. c \notin AskCalls
  BY <1>0, <1>1, TurnsAssumption
<1> HIDE DEF u, v, i, o, q
<1>4. x \in Use /\ w \in Server
  BY <1>0 DEF Use, Server
<1>5. UseHolds(x, w, <<"initialize">>, o, q, failures)
  BY <1>0, <1>1, <1>4, Begins
<1>6. <<"initialize">> \in Seq(Methods)
  BY DEF Methods
<1> HIDE DEF x, w
<1> QED
  BY <1>0, <1>1, <1>2, <1>3, <1>4, <1>5, <1>6, WireStep

LEMMA SpawnFailsKeeps ==
  ASSUME TurnsInv, NEW c \in Clients, SpawnFails(c)
  PROVE  TurnsInv'
<1> DEFINE u == client[c]
           v == server[c]
           i == stdin[c]
           o == stdout[c]
           q == queued[c]
           p == IF c \in AskCalls THEN "unregister" ELSE "done"
           x == [u EXCEPT !.pc = p, !.result = "failed"]
<1>0. /\ u \in Use /\ v \in Server /\ i \in Seq(Methods) /\ o \in Seq(Messages)
      /\ q \in Seq(Messages) /\ UseHolds(u, v, i, o, q, failures)
      /\ failures \in 0..MaxFailures /\ failures \in Nat
      /\ server = [server EXCEPT ![c] = v] /\ queued = [queued EXCEPT ![c] = q]
      /\ stdin = [stdin EXCEPT ![c] = i] /\ stdout = [stdout EXCEPT ![c] = o]
  BY TurnsTypes
<1>1. /\ u.pc = "idle" /\ client' = [client EXCEPT ![c] = x] /\ Failure
      /\ registry' = IF c \in AskCalls THEN [registry EXCEPT ![id[c]] = c] ELSE registry
      /\ UNCHANGED <<id, cancel, unseen, server, wire, queued, observed, recorded>>
  BY DEF SpawnFails
<1>2. /\ server' = [server EXCEPT ![c] = v] /\ queued' = [queued EXCEPT ![c] = q]
      /\ stdin' = [stdin EXCEPT ![c] = i] /\ stdout' = [stdout EXCEPT ![c] = o]
      /\ UNCHANGED <<id, cancel, unseen, observed, recorded>>
  BY <1>0, <1>1 DEF wire
<1>3. registry' \in [Ids -> AskCalls \cup {NoAsk}]
  <2>1. registry \in [Ids -> AskCalls \cup {NoAsk}]
    BY DEF TurnsInv, TurnsTypeOK
  <2> QED
    BY <1>1, <2>1, RegistryTypes
<1>4. failures' \in 0..MaxFailures /\ failures' # 0 /\ failures' \in Nat
  BY <1>1, FaultStep
<1>a. c \in AskCalls => AskHolds(u, v, o, q, observed[c], cancel[c], unseen[c], c \in recorded)
  BY RegistryTypes
<1> HIDE DEF u, v, i, o, q
<1>5. p \in {"done", "unregister"}
  OBVIOUS
<1> HIDE DEF p
<1>6. x \in Use /\ x.pc = p /\ x.method = u.method /\ x.result = "failed"
  BY <1>0, <1>5 DEF Use
<1>7. UseHolds(x, v, i, o, q, failures')
  BY <1>0, <1>1, <1>4, <1>5, <1>6, EndsAtOnce
<1>8. u.result = "none"
  BY <1>0, <1>1 DEF UseHolds, Ending
<1> HIDE DEF x
<1>9. c \in AskCalls => AskHolds(x, v, o, q, observed[c], cancel[c], unseen[c], c \in recorded)
  BY <1>a, <1>5, <1>6, <1>8 DEF AskHolds, Working
<1> QED
  BY <1>0, <1>1, <1>2, <1>3, <1>4, <1>6, <1>7, <1>9, DeskStep

LEMMA CancelKeeps ==
  ASSUME TurnsInv, NEW r \in Ids, Cancel(r)
  PROVE  TurnsInv'
<1> DEFINE a == registry[r]
<1>1. /\ a # NoAsk /\ cancel' = [cancel EXCEPT ![a] = TRUE] /\ unseen' = [unseen EXCEPT ![a] = TRUE]
      /\ UNCHANGED <<id, registry, client, server, wire, queued, observed, recorded, failures>>
  BY DEF Cancel
<1>2. a \in AskCalls /\ cancel \in [AskCalls -> BOOLEAN] /\ unseen \in [AskCalls -> BOOLEAN]
  BY <1>1 DEF TurnsInv, TurnsTypeOK
<1> HIDE DEF a
<1>3. cancel' \in [AskCalls -> BOOLEAN] /\ unseen' \in [AskCalls -> BOOLEAN]
  BY <1>1, <1>2
<1>4. TurnsTypeOK'
  BY <1>1, <1>3 DEF TurnsInv, TurnsTypeOK, wire
<1>5. Uses'
  BY <1>1 DEF TurnsInv, Uses, wire
<1>6. ASSUME NEW b \in AskCalls
      PROVE  AskHolds(client'[b], server'[b], stdout'[b], queued'[b], observed'[b],
                      cancel'[b], unseen'[b], b \in recorded')
  <2>1. AskHolds(client[b], server[b], stdout[b], queued[b], observed[b],
                 cancel[b], unseen[b], b \in recorded)
    BY DEF TurnsInv, AsksHold
  <2>2. client' = client /\ server' = server /\ stdout' = stdout /\ queued' = queued
        /\ observed' = observed /\ recorded' = recorded
    BY <1>1 DEF wire
  <2>3. CASE b = a
    <3>1. cancel'[b] = TRUE
      BY <1>1, <1>2, <2>3
    <3> QED
      BY <2>1, <2>2, <3>1 DEF AskHolds
  <2>4. CASE b # a
    <3>1. cancel'[b] = cancel[b] /\ unseen'[b] = unseen[b]
      BY <1>1, <1>2, <2>4
    <3> QED
      BY <2>1, <2>2, <3>1
  <2> QED
    BY <2>3, <2>4
<1> QED
  BY <1>4, <1>5, <1>6 DEF TurnsInv, AsksHold

-----------------------------------------------------------------------------
(* The client.                                                             *)

(* A use ends, or goes on ending.                                          *)
LEMMA Ends ==
  ASSUME NEW u \in Use, NEW v \in Server, NEW i, NEW o, NEW q, NEW f \in Nat,
         NEW g \in Nat,
         UseHolds(u, v, i, o, q, f), g = 0 => f = 0,
         NEW x \in Use, x.pc \in Ending, x.result # "none", x.method = u.method,
         NEW w \in Server, w.turn = v.turn, w.n = v.n,
         g = 0 /\ x.result = "failed" => x.method = "turn/interrupt" /\ w.turn = "completed"
  PROVE  UseHolds(x, w, i, o, q, g)
<1>1. x.pc \notin {"idle", "top", "select", "complete"} /\ x.pc \notin Working
  BY DEF Ending, Working
<1>2. Exchange(u, i, o, q) /\ TurnStarts(u, v, i, o)
  BY DEF UseHolds
<1>3. Exchange(x, i, o, q)
  BY <1>1, <1>2 DEF Exchange
<1>4. TurnStarts(x, w, i, o)
  BY <1>1, <1>2 DEF TurnStarts
<1>5. g = 0 => Reasons(x, w, o)
  BY <1>1 DEF UseHolds, Reasons
<1> QED
  BY <1>1, <1>3, <1>4, <1>5 DEF UseHolds

LEMMA AskEnds ==
  ASSUME NEW u, NEW v, NEW o, NEW q, NEW w, NEW x, NEW y, NEW z,
         AskHolds(u, v, o, q, w, x, y, z),
         NEW u2 \in Use, u2.method = u.method, u2.pc \in Ending, NEW v2, NEW o2, NEW q2,
         NEW z2,
         z2 => u2.result = "ok"
  PROVE  AskHolds(u2, v2, o2, q2, w, x, y, z2)
BY DEF AskHolds, Ending, Working

(* A message is read.                                                      *)
LEMMA MessageRead ==
  ASSUME NEW u \in Use, NEW v \in Server, NEW i,
         NEW o \in Seq(Messages), NEW q,
         NEW f \in Nat, UseHolds(u, v, i, o, q, f), o # << >>
  PROVE  /\ UseHolds(u, v, i, Tail(o), q, f) /\ u.pc # "idle"
         /\ Head(o).kind = "answer" => i = << >> /\ NoAnswer(Tail(o)) /\ Head(o).method = u.method
         /\ Tail(o) \in Seq(Messages) /\ Head(o) \in Messages
<1> DEFINE t == Tail(o)
           h == Head(o)
<1>1. Exchange(u, i, o, q) /\ TurnStarts(u, v, i, o) /\ u.pc # "idle"
  BY DEF UseHolds
<1>2. /\ t \in Seq(Messages) /\ h \in Messages
      /\ NoAnswer(o) => NoAnswer(t) /\ h.kind # "answer"
      /\ OneAnswer(t, u.method)
      /\ h.kind = "answer" => NoAnswer(t) /\ h.method = u.method
      /\ \A k \in DOMAIN t : \E j \in DOMAIN o : t[k] = o[j]
  <2>1. OneAnswer(o, u.method)
    BY <1>1 DEF Exchange
  <2> QED
    BY <2>1, Tails
<1> HIDE DEF t, h
<1>3. Exchange(u, i, t, q)
  BY <1>1, <1>2 DEF Exchange
<1>4. h.kind = "answer" => i = << >>
  BY <1>1, <1>2 DEF Exchange
<1>5. TurnStarts(u, v, i, t)
  BY <1>1, <1>2 DEF TurnStarts
<1>6. f = 0 => Reasons(u, v, t)
  BY <1>2 DEF UseHolds, Reasons
<1>7. UseHolds(u, v, i, t, q, f)
  BY <1>1, <1>3, <1>5, <1>6 DEF UseHolds
<1> QED
  BY <1>1, <1>2, <1>4, <1>7 DEF t, h

(* What waits in the queue is no answer and matters to nothing else.       *)
LEMMA Queues ==
  ASSUME NEW u \in Use, NEW v \in Server, NEW i, NEW o, NEW q, NEW f,
         UseHolds(u, v, i, o, q, f), u.pc # "idle", NEW r, NoAnswer(r)
  PROVE  UseHolds(u, v, i, o, r, f)
BY DEF UseHolds, Exchange

LEMMA ReadOtherKeeps ==
  ASSUME TurnsInv, NEW c \in Clients, ReadOther(c)
  PROVE  TurnsInv'
<1> DEFINE u == client[c]
           v == server[c]
           i == stdin[c]
           o == stdout[c]
           q == queued[c]
           r == Append(q, Head(o))
           t == Tail(o)
<1>0. /\ u \in Use /\ v \in Server /\ i \in Seq(Methods) /\ o \in Seq(Messages)
      /\ q \in Seq(Messages) /\ UseHolds(u, v, i, o, q, failures)
      /\ failures \in 0..MaxFailures /\ failures \in Nat
      /\ client = [client EXCEPT ![c] = u] /\ server = [server EXCEPT ![c] = v]
      /\ stdin = [stdin EXCEPT ![c] = i] /\ observed[c] \in Seq(Messages)
  BY TurnsTypes
<1>1. /\ o # << >> /\ ~(Head(o).kind = "answer" /\ Head(o).method = u.method)
      /\ queued' = [queued EXCEPT ![c] = r] /\ stdout' = [stdout EXCEPT ![c] = t]
      /\ UNCHANGED <<deskVars, client, server, stdin, observed, recorded, failures>>
  BY DEF ReadOther
<1>2. /\ client' = [client EXCEPT ![c] = u] /\ server' = [server EXCEPT ![c] = v]
      /\ stdin' = [stdin EXCEPT ![c] = i] /\ failures' = failures
      /\ UNCHANGED <<deskVars, observed, recorded>>
  BY <1>0, <1>1
<1>a. c \in AskCalls => AskHolds(u, v, o, q, observed[c], cancel[c], unseen[c], c \in recorded)
  BY RegistryTypes
<1> HIDE DEF u, v, i, o, q
<1>3. UseHolds(u, v, i, t, q, failures) /\ u.pc # "idle" /\ t \in Seq(Messages)
      /\ Head(o) \in Messages /\ Head(o).kind # "answer"
  BY <1>0, <1>1, MessageRead
<1>4. r \in Seq(Messages) /\ (NoAnswer(q) => NoAnswer(r))
  BY <1>0, <1>3, Appends
<1>5. NoAnswer(q)
  BY <1>0 DEF UseHolds, Exchange
<1>6. UseHolds(u, v, i, t, r, failures)
  BY <1>0, <1>3, <1>4, <1>5, Queues
<1>7. ASSUME c \in AskCalls
      PROVE  AskHolds(u, v, t, r, observed[c], cancel[c], unseen[c], c \in recorded)
  <2>1. u.pc \in Working => Parts(observed[c], q, o, v.n)
    BY <1>a, <1>7 DEF AskHolds
  <2>2. v.n \in Nat
    BY <1>0 DEF Server
  <2>3. u.pc \in Working => Parts(observed[c], r, t, v.n)
    BY <1>0, <1>1, <1>3, <2>1, <2>2, PartsQueued
  <2> HIDE DEF r, t
  <2> QED
    BY <1>a, <1>3, <1>7, <2>3 DEF AskHolds
<1>8. queued' = [queued EXCEPT ![c] = r] /\ stdout' = [stdout EXCEPT ![c] = t]
      /\ t \in Seq(Messages) /\ r \in Seq(Messages)
      /\ UseHolds(u, v, i, t, r, failures') /\ failures' = failures
  BY <1>1, <1>2, <1>3, <1>4, <1>6
<1> HIDE DEF r, t
<1> QED
  BY <1>0, <1>2, <1>7, <1>8, WireStep

(* An error leaves.                                                        *)
LEMMA FailsStep ==
  ASSUME NEW c \in Clients, client[c] \in Use, server[c] \in Server, Fails(c)
  PROVE  \E x \in Use, w \in Server :
           /\ client' = [client EXCEPT ![c] = x] /\ server' = [server EXCEPT ![c] = w]
           /\ x.pc \in Ending /\ x.result = "failed" /\ x.method = client[c].method
           /\ w.turn = server[c].turn /\ w.n = server[c].n
<1> DEFINE u == client[c]
           v == server[c]
           p == IF c \in AskCalls THEN "shutdown" ELSE "done"
           x == [u EXCEPT !.pc = p, !.result = "failed"]
           w == [v EXCEPT !.stdin = c \in AskCalls]
<1>1. client' = [client EXCEPT ![c] = x] /\ server' = [server EXCEPT ![c] = w]
  BY DEF Fails
<1>0. u \in Use /\ v \in Server
  OBVIOUS
<1> HIDE DEF u, v
<1>2. p \in {"shutdown", "done"}
  OBVIOUS
<1> HIDE DEF p
<1>3. x \in Use /\ x.pc = p /\ x.result = "failed" /\ x.method = u.method
  BY <1>0, <1>2 DEF Use
<1>4. (c \in AskCalls) \in BOOLEAN
  OBVIOUS
<1>5. w \in Server /\ w.turn = v.turn /\ w.n = v.n
  <2> DEFINE b == c \in AskCalls
  <2>1. b \in BOOLEAN /\ w = [v EXCEPT !.stdin = b]
    BY <1>4
  <2> HIDE DEF b, w
  <2> QED
    BY <1>0, <2>1 DEF Server
<1> HIDE DEF x, w
<1> QED
  BY <1>1, <1>2, <1>3, <1>5 DEF Ending, u, v

LEMMA ClosedKeeps ==
  ASSUME TurnsInv, NEW c \in Clients, Closed(c)
  PROVE  TurnsInv'
<1> DEFINE u == client[c]
           v == server[c]
           i == stdin[c]
           o == stdout[c]
           q == queued[c]
<1>0. /\ u \in Use /\ v \in Server /\ i \in Seq(Methods) /\ o \in Seq(Messages)
      /\ q \in Seq(Messages) /\ UseHolds(u, v, i, o, q, failures)
      /\ failures \in 0..MaxFailures /\ failures \in Nat
      /\ queued = [queued EXCEPT ![c] = q]
      /\ stdin = [stdin EXCEPT ![c] = i] /\ stdout = [stdout EXCEPT ![c] = o]
  BY TurnsTypes
<1>1. /\ u.pc \in {"asking", "select"} /\ ~v.up
      /\ UNCHANGED <<deskVars, wire, queued, observed, recorded, failures>>
  BY DEF Closed
<1>2. PICK x \in Use, w \in Server :
        /\ client' = [client EXCEPT ![c] = x] /\ server' = [server EXCEPT ![c] = w]
        /\ x.pc \in Ending /\ x.result = "failed" /\ x.method = u.method
        /\ w.turn = v.turn /\ w.n = v.n
  BY <1>0, FailsStep DEF Closed
<1>3. /\ queued' = [queued EXCEPT ![c] = q] /\ stdin' = [stdin EXCEPT ![c] = i]
      /\ stdout' = [stdout EXCEPT ![c] = o] /\ UNCHANGED <<deskVars, observed, recorded>>
      /\ failures' = failures
  BY <1>0, <1>1 DEF wire
<1>a. c \in AskCalls => AskHolds(u, v, o, q, observed[c], cancel[c], unseen[c], c \in recorded)
  BY RegistryTypes
<1> HIDE DEF u, v, i, o, q
<1>4. failures # 0 /\ u.result = "none"
  BY <1>0, <1>1 DEF UseHolds, Reasons, Working, Ending
<1>5. UseHolds(x, w, i, o, q, failures)
  BY <1>0, <1>2, <1>4, Ends
<1>6. ASSUME c \in AskCalls
      PROVE  AskHolds(x, w, o, q, observed[c], cancel[c], unseen[c], c \in recorded)
  <2>1. c \notin recorded
    BY <1>a, <1>4, <1>6 DEF AskHolds
  <2> QED
    BY <1>a, <1>2, <1>6, <2>1, AskEnds
<1> QED
  BY <1>0, <1>2, <1>3, <1>5, <1>6, WireStep

LEMMA AnsweredKeeps ==
  ASSUME TurnsInv, NEW c \in Clients, Answered(c)
  PROVE  TurnsInv'
<1> DEFINE u == client[c]
           v == server[c]
           i == stdin[c]
           o == stdout[c]
           q == queued[c]
           m == Head(o)
           t == Tail(o)
           r == NextRequest(c)
<1>0. /\ u \in Use /\ v \in Server /\ i \in Seq(Methods) /\ o \in Seq(Messages)
      /\ q \in Seq(Messages) /\ UseHolds(u, v, i, o, q, failures)
      /\ failures \in 0..MaxFailures /\ failures \in Nat
      /\ queued = [queued EXCEPT ![c] = q] /\ server = [server EXCEPT ![c] = v]
      /\ stdin = [stdin EXCEPT ![c] = i] /\ observed[c] \in Seq(Messages)
  BY TurnsTypes
<1>1. /\ o # << >> /\ u.pc = "asking" /\ m.kind = "answer" /\ m.method = u.method
      /\ stdout' = [stdout EXCEPT ![c] = t]
      /\ UNCHANGED <<deskVars, queued, observed, recorded, failures>>
  BY DEF Answered
<1>2. \/ ~m.ok /\ Fails(c) /\ UNCHANGED stdin
      \/ /\ m.ok /\ r # "none"
         /\ stdin' = [stdin EXCEPT ![c] = Append(i, r)]
         /\ client' = [client EXCEPT ![c] = [u EXCEPT !.method = r]]
         /\ UNCHANGED server
      \/ /\ m.ok /\ m.method \in {"turn/start", "turn/interrupt"}
         /\ client' = [client EXCEPT ![c] = [u EXCEPT !.pc = "top",
                                               !.interrupted = m.method = "turn/interrupt"]]
         /\ UNCHANGED <<stdin, server>>
      \/ /\ m.ok /\ m.method = "thread/list"
         /\ client' = [client EXCEPT ![c] = [u EXCEPT !.pc = "shutdown", !.result = "ok"]]
         /\ UNCHANGED <<stdin, server>>
  BY DEF Answered, Send
<1>3. r # "none" => \/ u.method = "initialize" /\ r \in {"thread/start", "thread/list"}
                    \/ u.method = "thread/start" /\ r = "turn/start"
  BY DEF NextRequest, Clients
<1>4. /\ queued' = [queued EXCEPT ![c] = q] /\ failures' = failures
      /\ UNCHANGED <<deskVars, observed, recorded>>
  BY <1>0, <1>1
<1>a. c \in AskCalls => AskHolds(u, v, o, q, observed[c], cancel[c], unseen[c], c \in recorded)
  BY RegistryTypes
<1>b. Fails(c) => \E x \in Use, w \in Server :
        /\ client' = [client EXCEPT ![c] = x] /\ server' = [server EXCEPT ![c] = w]
        /\ x.pc \in Ending /\ x.result = "failed" /\ x.method = u.method
        /\ w.turn = v.turn /\ w.n = v.n
  BY <1>0, FailsStep
<1> HIDE DEF u, v, i, o, q, r
<1>c. UseHolds(u, v, i, t, q, failures) /\ t \in Seq(Messages) /\ NoAnswer(t) /\ i = << >>
  BY <1>0, <1>1, MessageRead
<1>d. \E k \in DOMAIN o : m = o[k]
  BY <1>0, <1>1, Tails
<1>e. u.result = "none" /\ v.n \in Nat
  BY <1>0, <1>1 DEF UseHolds, Ending, Server
<1>f. c \in AskCalls => c \notin recorded
  BY <1>a, <1>e DEF AskHolds
<1>g. c \in AskCalls => Parts(observed[c], q, t, v.n)
  <2>1. c \in AskCalls => Parts(observed[c], q, o, v.n)
    BY <1>a, <1>1 DEF AskHolds, Working
  <2> QED
    BY <1>0, <1>1, <1>e, <2>1, PartsAnswerRead
<1>h. Exchange(u, i, t, q) /\ TurnStarts(u, v, i, t) /\ v.stdin
  BY <1>c, <1>1 DEF UseHolds, Working
<1> HIDE DEF t
<1>5. CASE ~m.ok /\ Fails(c) /\ UNCHANGED stdin
  <2>1. PICK x \in Use, w \in Server :
        /\ client' = [client EXCEPT ![c] = x] /\ server' = [server EXCEPT ![c] = w]
        /\ x.pc \in Ending /\ x.result = "failed" /\ x.method = u.method
        /\ w.turn = v.turn /\ w.n = v.n
    BY <1>b, <1>5
  <2>2. failures = 0 => u.method = "turn/interrupt" /\ v.turn = "completed"
    BY <1>0, <1>1, <1>5, <1>d DEF UseHolds, Reasons
  <2> HIDE DEF m
  <2>3. UseHolds(x, w, i, t, q, failures)
    BY <1>0, <1>c, <2>1, <2>2, Ends
  <2>4. c \in AskCalls => AskHolds(x, w, t, q, observed[c], cancel[c], unseen[c], c \in recorded)
    BY <1>a, <1>f, <2>1, AskEnds
  <2>5. stdin' = [stdin EXCEPT ![c] = i]
    BY <1>0, <1>5
  <2> QED
    BY <1>0, <1>1, <1>4, <1>c, <2>1, <2>3, <2>4, <2>5, WireStep
<1>6. CASE /\ m.ok /\ r # "none"
           /\ stdin' = [stdin EXCEPT ![c] = Append(i, r)]
           /\ client' = [client EXCEPT ![c] = [u EXCEPT !.method = r]]
           /\ UNCHANGED server
  <2> DEFINE x == [u EXCEPT !.method = r]
  <2>1. r \in Methods
    BY <1>3, <1>6 DEF Methods
  <2>2. x \in Use /\ x.pc = "asking" /\ x.method = r /\ x.result = "none"
    BY <1>0, <1>1, <1>e, <2>1 DEF Use
  <2>3. stdin' = [stdin EXCEPT ![c] = <<r>>] /\ <<r>> \in Seq(Methods) /\ <<r>> # << >>
    BY <1>6, <1>c, <2>1
  <2>4. client' = [client EXCEPT ![c] = x] /\ server' = [server EXCEPT ![c] = v]
    BY <1>0, <1>6
  <2>5. v.turn = "none" /\ v.n = 0 /\ r \notin {"turn/interrupt", "none"}
    BY <1>3, <1>6, <1>h DEF TurnStarts
  <2> HIDE DEF x, m
  <2>6. Exchange(x, <<r>>, t, q)
    BY <1>c, <1>h, <2>2 DEF Exchange, NoAnswer, OneAnswer
  <2>7. TurnStarts(x, v, <<r>>, t)
    BY <1>c, <2>2, <2>5 DEF TurnStarts, NoAnswer
  <2>8. failures = 0 => Reasons(x, v, t)
    BY <1>c, <1>1, <2>2 DEF UseHolds, Reasons, NoAnswer, Working
  <2>9. UseHolds(x, v, <<r>>, t, q, failures)
    BY <1>h, <2>2, <2>6, <2>7, <2>8 DEF UseHolds, Ending
  <2>10. c \in AskCalls => AskHolds(x, v, t, q, observed[c], cancel[c], unseen[c], c \in recorded)
    BY <1>a, <1>f, <1>g, <2>2, <2>5 DEF AskHolds
  <2> QED
    BY <1>0, <1>1, <1>4, <1>c, <2>2, <2>3, <2>4, <2>9, <2>10, WireStep
<1>7. CASE /\ m.ok /\ m.method \in {"turn/start", "turn/interrupt"}
           /\ client' = [client EXCEPT ![c] = [u EXCEPT !.pc = "top",
                                                 !.interrupted = m.method = "turn/interrupt"]]
           /\ UNCHANGED <<stdin, server>>
  <2> DEFINE b == u.method = "turn/interrupt"
             x == [u EXCEPT !.pc = "top", !.interrupted = b]
  <2>1. b \in BOOLEAN /\ client' = [client EXCEPT ![c] = x] /\ u.method \in {"turn/start", "turn/interrupt"}
    BY <1>1, <1>7
  <2>2. v.turn # "none"
    BY <1>0, <1>1, <1>7, <1>d, <1>h DEF UseHolds, TurnStarts
  <2>3. stdin' = [stdin EXCEPT ![c] = i] /\ server' = [server EXCEPT ![c] = v]
    BY <1>0, <1>7
  <2> HIDE DEF b, m
  <2>4. x \in Use /\ x.pc = "top" /\ x.method = u.method /\ x.result = "none"
    BY <1>0, <1>e, <2>1 DEF Use
  <2>5. x.interrupted <=> b
    BY <1>0, <2>1 DEF Use
  <2> HIDE DEF x
  <2>6. Exchange(x, i, t, q)
    BY <1>c, <1>h, <2>4 DEF Exchange
  <2>7. TurnStarts(x, v, i, t)
    BY <1>h, <2>1, <2>2, <2>4, <2>5 DEF TurnStarts, b
  <2>8. failures = 0 => Reasons(x, v, t)
    BY <1>c, <1>1, <2>4 DEF UseHolds, Reasons, NoAnswer, Working
  <2>9. UseHolds(x, v, i, t, q, failures)
    BY <1>h, <2>4, <2>6, <2>7, <2>8 DEF UseHolds, Ending
  <2>10. c \in AskCalls => AskHolds(x, v, t, q, observed[c], cancel[c], unseen[c], c \in recorded)
    BY <1>a, <1>f, <1>g, <2>4 DEF AskHolds
  <2> QED
    BY <1>0, <1>1, <1>4, <1>c, <2>1, <2>3, <2>4, <2>9, <2>10, WireStep
<1>8. CASE /\ m.ok /\ m.method = "thread/list"
           /\ client' = [client EXCEPT ![c] = [u EXCEPT !.pc = "shutdown", !.result = "ok"]]
           /\ UNCHANGED <<stdin, server>>
  <2> DEFINE x == [u EXCEPT !.pc = "shutdown", !.result = "ok"]
  <2>1. x \in Use /\ x.pc \in Ending /\ x.method = u.method /\ x.result = "ok"
    BY <1>0 DEF Use, Ending
  <2>2. client' = [client EXCEPT ![c] = x] /\ stdin' = [stdin EXCEPT ![c] = i]
        /\ server' = [server EXCEPT ![c] = v]
    BY <1>0, <1>8
  <2> HIDE DEF x, m
  <2>3. UseHolds(x, v, i, t, q, failures)
    BY <1>0, <1>c, <2>1, Ends
  <2>4. c \in AskCalls => AskHolds(x, v, t, q, observed[c], cancel[c], unseen[c], c \in recorded)
    BY <1>a, <2>1, AskEnds
  <2> QED
    BY <1>0, <1>1, <1>4, <1>c, <2>1, <2>2, <2>3, <2>4, WireStep
<1> QED
  BY <1>2, <1>5, <1>6, <1>7, <1>8

(* The loop goes on.                                                       *)
LEMMA Loops ==
  ASSUME NEW u \in Use, NEW v, NEW i, NEW o, NEW q, NEW f,
         UseHolds(u, v, i, o, q, f), u.pc \in {"top", "select", "complete"},
         NEW x \in Use, x.pc \in {"top", "select", "complete"}, x.method = u.method,
         x.result = u.result, x.interrupted <=> u.interrupted
  PROVE  UseHolds(x, v, i, o, q, f) /\ x.result = "none"
<1>3. Exchange(u, i, o, q) /\ TurnStarts(u, v, i, o) /\ u.result = "none"
  BY DEF UseHolds, Ending
<1>4. Exchange(x, i, o, q)
  BY <1>3 DEF Exchange
<1>5. TurnStarts(x, v, i, o)
  <2>1. u.interrupted <=> u.method = "turn/interrupt"
    BY <1>3 DEF TurnStarts
  <2>2. x.interrupted <=> x.method = "turn/interrupt"
    BY <2>1
  <2> QED
    BY <1>3, <2>2 DEF TurnStarts
<1>6. f = 0 => Reasons(x, v, o)
  BY DEF UseHolds, Reasons, Working
<1>7. UseHolds(x, v, i, o, q, f)
  BY <1>3, <1>4, <1>5, <1>6 DEF UseHolds, Working, Ending
<1> QED
  BY <1>3, <1>7

(* The loop interrupts the turn.                                           *)
LEMMA Interrupts ==
  ASSUME NEW u \in Use, NEW v \in Server, NEW i, NEW o, NEW q, NEW f,
         UseHolds(u, v, i, o, q, f), u.pc \in {"top", "select"}, ~u.interrupted,
         NEW x, x = [u EXCEPT !.pc = "asking", !.method = "turn/interrupt"]
  PROVE  /\ x \in Use /\ UseHolds(x, v, <<"turn/interrupt">>, o, q, f) /\ i = << >>
         /\ x.pc = "asking" /\ x.result = "none"
         /\ <<"turn/interrupt">> \in Seq(Methods)
<1>1. x \in Use /\ x.pc = "asking" /\ x.method = "turn/interrupt" /\ x.result = u.result
  BY DEF Use, Methods
<1>2. Exchange(u, i, o, q) /\ TurnStarts(u, v, i, o) /\ u.result = "none"
  BY DEF UseHolds, Ending
<1>3. i = << >> /\ NoAnswer(o) /\ NoAnswer(q)
  BY <1>2 DEF Exchange
<1>4. u.method = "turn/start" /\ v.turn # "none" /\ v.turn # "interrupted"
  BY <1>2 DEF TurnStarts
<1>5. v.turn \in {"running", "completed"}
  BY <1>4 DEF Server
<1>6. Exchange(x, <<"turn/interrupt">>, o, q)
  BY <1>1, <1>3 DEF Exchange, NoAnswer, OneAnswer
<1>7. TurnStarts(x, v, <<"turn/interrupt">>, o)
  BY <1>1, <1>2, <1>3, <1>5 DEF TurnStarts, NoAnswer
<1>8. f = 0 => Reasons(x, v, o)
  BY <1>1, <1>2, <1>3 DEF UseHolds, Reasons, NoAnswer, Working
<1>9. UseHolds(x, v, <<"turn/interrupt">>, o, q, f)
  BY <1>1, <1>2, <1>6, <1>7, <1>8 DEF UseHolds, Working, Ending
<1>10. <<"turn/interrupt">> \in Seq(Methods)
  BY DEF Methods
<1> QED
  BY <1>1, <1>2, <1>3, <1>9, <1>10

LEMMA LoopTopKeeps ==
  ASSUME TurnsInv, NEW c \in AskCalls, LoopTop(c)
  PROVE  TurnsInv'
<1> DEFINE u == client[c]
           v == server[c]
           i == stdin[c]
           o == stdout[c]
           q == queued[c]
<1>00. c \in Clients
  BY RegistryTypes
<1>0. /\ u \in Use /\ v \in Server /\ i \in Seq(Methods) /\ o \in Seq(Messages)
      /\ q \in Seq(Messages) /\ UseHolds(u, v, i, o, q, failures)
      /\ failures \in 0..MaxFailures /\ failures \in Nat
      /\ queued = [queued EXCEPT ![c] = q] /\ server = [server EXCEPT ![c] = v]
      /\ stdin = [stdin EXCEPT ![c] = i] /\ stdout = [stdout EXCEPT ![c] = o]
  BY <1>00, TurnsTypes
<1>1. /\ u.pc = "top"
      /\ \/ /\ cancel[c] /\ ~u.interrupted
            /\ stdin' = [stdin EXCEPT ![c] = Append(i, "turn/interrupt")]
            /\ client' = [client EXCEPT ![c] = [u EXCEPT !.pc = "asking", !.method = "turn/interrupt"]]
         \/ client' = [client EXCEPT ![c] = [u EXCEPT !.pc = "select"]] /\ UNCHANGED stdin
      /\ UNCHANGED <<deskVars, server, stdout, queued, observed, recorded, failures>>
  BY DEF LoopTop, Interrupt, Send
<1>2. /\ queued' = [queued EXCEPT ![c] = q] /\ stdout' = [stdout EXCEPT ![c] = o]
      /\ server' = [server EXCEPT ![c] = v] /\ failures' = failures
      /\ UNCHANGED <<deskVars, observed, recorded>>
  BY <1>0, <1>1
<1>a. AskHolds(u, v, o, q, observed[c], cancel[c], unseen[c], c \in recorded)
  BY RegistryTypes
<1> HIDE DEF u, v, i, o, q
<1>b. Parts(observed[c], q, o, v.n) /\ c \notin recorded
  BY <1>0, <1>1, <1>a DEF UseHolds, AskHolds, Working, Ending
<1>3. CASE /\ cancel[c] /\ ~u.interrupted
           /\ stdin' = [stdin EXCEPT ![c] = Append(i, "turn/interrupt")]
           /\ client' = [client EXCEPT ![c] = [u EXCEPT !.pc = "asking", !.method = "turn/interrupt"]]
  <2> DEFINE x == [u EXCEPT !.pc = "asking", !.method = "turn/interrupt"]
             s == <<"turn/interrupt">>
  <2>1. /\ x \in Use /\ UseHolds(x, v, s, o, q, failures) /\ i = << >>
        /\ x.pc = "asking" /\ x.result = "none" /\ s \in Seq(Methods)
    BY <1>0, <1>1, <1>3, Interrupts
  <2>2. stdin' = [stdin EXCEPT ![c] = s] /\ client' = [client EXCEPT ![c] = x]
    BY <1>3, <2>1
  <2> HIDE DEF x, s
  <2>3. AskHolds(x, v, o, q, observed[c], cancel[c], unseen[c], c \in recorded)
    BY <1>3, <1>a, <1>b, <2>1 DEF AskHolds
  <2> QED
    BY <1>00, <1>0, <1>2, <2>1, <2>2, <2>3, WireStep
<1>4. CASE client' = [client EXCEPT ![c] = [u EXCEPT !.pc = "select"]] /\ UNCHANGED stdin
  <2> DEFINE x == [u EXCEPT !.pc = "select"]
  <2>0. u.pc \in {"top", "select", "complete"} /\ "select" \in {"top", "select", "complete"}
    BY <1>1
  <2>2. stdin' = [stdin EXCEPT ![c] = i] /\ client' = [client EXCEPT ![c] = x]
    BY <1>0, <1>4
  <2>3. /\ x \in Use /\ x.method = u.method /\ x.pc = "select" /\ x.result = u.result
        /\ x.interrupted <=> u.interrupted
    BY <1>0 DEF Use
  <2> HIDE DEF x
  <2>1. UseHolds(x, v, i, o, q, failures) /\ x.result = "none"
    BY <1>0, <2>0, <2>3, Loops
  <2>4. AskHolds(x, v, o, q, observed[c], cancel[c], unseen[c], c \in recorded)
    BY <1>a, <1>b, <2>1, <2>3 DEF AskHolds
  <2> QED
    BY <1>00, <1>0, <1>2, <2>1, <2>2, <2>3, <2>4, WireStep
<1> QED
  BY <1>1, <1>3, <1>4

LEMMA SeeCancellationKeeps ==
  ASSUME TurnsInv, NEW c \in AskCalls, SeeCancellation(c)
  PROVE  TurnsInv'
<1> DEFINE u == client[c]
           v == server[c]
           i == stdin[c]
           o == stdout[c]
           q == queued[c]
<1>00. c \in Clients
  BY RegistryTypes
<1>0. /\ u \in Use /\ v \in Server /\ i \in Seq(Methods) /\ o \in Seq(Messages)
      /\ q \in Seq(Messages) /\ UseHolds(u, v, i, o, q, failures)
      /\ failures \in 0..MaxFailures /\ failures \in Nat
      /\ queued = [queued EXCEPT ![c] = q] /\ server = [server EXCEPT ![c] = v]
      /\ stdin = [stdin EXCEPT ![c] = i] /\ stdout = [stdout EXCEPT ![c] = o]
  BY <1>00, TurnsTypes
<1>1. /\ u.pc = "select" /\ unseen[c] /\ unseen' = [unseen EXCEPT ![c] = FALSE]
      /\ \/ /\ ~u.interrupted
            /\ stdin' = [stdin EXCEPT ![c] = Append(i, "turn/interrupt")]
            /\ client' = [client EXCEPT ![c] = [u EXCEPT !.pc = "asking", !.method = "turn/interrupt"]]
         \/ client' = [client EXCEPT ![c] = [u EXCEPT !.pc = "top"]] /\ UNCHANGED stdin
      /\ UNCHANGED <<id, registry, cancel, server, stdout, queued, observed, recorded, failures>>
  BY DEF SeeCancellation, Interrupt, Send
<1>2. /\ queued' = [queued EXCEPT ![c] = q] /\ stdout' = [stdout EXCEPT ![c] = o]
      /\ server' = [server EXCEPT ![c] = v] /\ failures' = failures
      /\ id' = id /\ registry' = registry /\ cancel' = cancel
      /\ observed' = observed /\ recorded' = recorded
  BY <1>0, <1>1
<1>3. /\ registry' \in [Ids -> AskCalls \cup {NoAsk}] /\ unseen' \in [AskCalls -> BOOLEAN]
      /\ observed' \in [Clients -> Seq(Messages)] /\ recorded' \in SUBSET AskCalls
      /\ unseen'[c] = FALSE /\ \A a \in AskCalls \ {c} : unseen'[a] = unseen[a]
  BY <1>1, <1>2 DEF TurnsInv, TurnsTypeOK
<1>a. AskHolds(u, v, o, q, observed[c], cancel[c], unseen[c], c \in recorded)
  BY RegistryTypes
<1> HIDE DEF u, v, i, o, q
<1>b. Parts(observed[c], q, o, v.n) /\ c \notin recorded /\ cancel[c]
  BY <1>0, <1>1, <1>a DEF UseHolds, AskHolds, Working, Ending
<1>4. ASSUME NEW x \in Use, NEW s \in Seq(Methods), UseHolds(x, v, s, o, q, failures),
             x.pc \in Working, client' = [client EXCEPT ![c] = x], stdin' = [stdin EXCEPT ![c] = s]
      PROVE  TurnsInv'
  <2>1. AskHolds(x, v, o, q, observed[c], cancel[c], FALSE, c \in recorded)
    BY <1>4, <1>a, <1>b DEF AskHolds, Working
  <2>2. AskHolds(x, v, o, q, observed'[c], cancel[c], unseen'[c], c \in recorded')
    BY <1>2, <1>3, <2>1
  <2>3. \A a \in AskCalls \ {c} : /\ unseen'[a] = unseen[a] /\ observed'[a] = observed[a]
                                  /\ a \in recorded' <=> a \in recorded
    BY <1>2, <1>3
  <2> QED
    BY <1>00, <1>0, <1>2, <1>3, <1>4, <2>2, <2>3, UseStep
<1>5. CASE /\ ~u.interrupted
           /\ stdin' = [stdin EXCEPT ![c] = Append(i, "turn/interrupt")]
           /\ client' = [client EXCEPT ![c] = [u EXCEPT !.pc = "asking", !.method = "turn/interrupt"]]
  <2> DEFINE x == [u EXCEPT !.pc = "asking", !.method = "turn/interrupt"]
             s == <<"turn/interrupt">>
  <2>1. /\ x \in Use /\ UseHolds(x, v, s, o, q, failures) /\ i = << >>
        /\ x.pc = "asking" /\ x.result = "none" /\ s \in Seq(Methods)
    BY <1>0, <1>1, <1>5, Interrupts
  <2>2. stdin' = [stdin EXCEPT ![c] = s] /\ client' = [client EXCEPT ![c] = x]
    BY <1>5, <2>1
  <2> HIDE DEF x, s
  <2> QED
    BY <1>4, <2>1, <2>2 DEF Working
<1>6. CASE client' = [client EXCEPT ![c] = [u EXCEPT !.pc = "top"]] /\ UNCHANGED stdin
  <2> DEFINE x == [u EXCEPT !.pc = "top"]
  <2>1. /\ x \in Use /\ x.method = u.method /\ x.pc = "top" /\ x.result = u.result
        /\ x.interrupted <=> u.interrupted
    BY <1>0 DEF Use
  <2>2. stdin' = [stdin EXCEPT ![c] = i] /\ client' = [client EXCEPT ![c] = x]
    BY <1>0, <1>6
  <2>3. u.pc \in {"top", "select", "complete"}
    BY <1>1
  <2> HIDE DEF x
  <2>4. UseHolds(x, v, i, o, q, failures)
    BY <1>0, <2>1, <2>3, Loops
  <2> QED
    BY <1>0, <1>4, <2>1, <2>2, <2>4 DEF Working
<1> QED
  BY <1>1, <1>5, <1>6

LEMMA TurnMessageSeenKeeps ==
  ASSUME TurnsInv, NEW c \in AskCalls, TurnMessageSeen(c)
  PROVE  TurnsInv'
<1> DEFINE u == client[c]
           v == server[c]
           i == stdin[c]
           o == stdout[c]
           q == queued[c]
           s == observed[c]
<1>00. c \in Clients
  BY RegistryTypes
<1>0. /\ u \in Use /\ v \in Server /\ i \in Seq(Methods) /\ o \in Seq(Messages)
      /\ q \in Seq(Messages) /\ UseHolds(u, v, i, o, q, failures) /\ s \in Seq(Messages)
      /\ failures \in 0..MaxFailures /\ failures \in Nat
      /\ queued = [queued EXCEPT ![c] = q] /\ server = [server EXCEPT ![c] = v]
      /\ stdin = [stdin EXCEPT ![c] = i] /\ stdout = [stdout EXCEPT ![c] = o]
  BY <1>00, TurnsTypes
<1>1. PICK m : /\ u.pc = "select"
               /\ \/ /\ q # << >> /\ m = Head(q) /\ queued' = [queued EXCEPT ![c] = Tail(q)]
                     /\ UNCHANGED stdout
                  \/ /\ q = << >> /\ m = Head(o) /\ stdout' = [stdout EXCEPT ![c] = Tail(o)]
                     /\ o # << >> /\ UNCHANGED queued
               /\ observed' = [observed EXCEPT ![c] = Append(s, m)]
               /\ client' = [client EXCEPT ![c] =
                    [u EXCEPT !.pc = IF m.kind = "completed" THEN "complete" ELSE "top"]]
               /\ UNCHANGED <<deskVars, server, stdin, recorded, failures>>
  BY DEF TurnMessageSeen
<1>2. /\ server' = [server EXCEPT ![c] = v] /\ stdin' = [stdin EXCEPT ![c] = i] /\ failures' = failures
      /\ id' = id /\ registry' = registry /\ cancel' = cancel /\ unseen' = unseen
      /\ recorded' = recorded
  BY <1>0, <1>1 DEF deskVars
<1>3. /\ registry' \in [Ids -> AskCalls \cup {NoAsk}] /\ unseen' \in [AskCalls -> BOOLEAN]
      /\ recorded' \in SUBSET AskCalls /\ observed \in [Clients -> Seq(Messages)]
  BY <1>2 DEF TurnsInv, TurnsTypeOK
<1>a. AskHolds(u, v, o, q, s, cancel[c], unseen[c], c \in recorded)
  BY RegistryTypes
<1>b. [observed EXCEPT ![c] = Append(s, m)][c] = Append(s, m)
  BY <1>00, <1>3
<1> HIDE DEF u, v, i, o, q, s
<1>c. Parts(s, q, o, v.n) /\ NoAnswer(s) /\ v.n \in Nat
  BY <1>0, <1>1, <1>a DEF AskHolds, Working, Server
<1>d. NoAnswer(o) /\ NoAnswer(q)
  BY <1>0, <1>1 DEF UseHolds, Exchange
<1> DEFINE p == IF m.kind = "completed" THEN "complete" ELSE "top"
           x == [u EXCEPT !.pc = p]
<1>4. p \in {"top", "select", "complete"} /\ u.pc \in {"top", "select", "complete"}
  BY <1>1
<1>5. client' = [client EXCEPT ![c] = x]
  BY <1>1
<1> HIDE DEF p
<1>e. /\ x \in Use /\ x.method = u.method /\ x.pc = p /\ x.result = u.result
      /\ x.interrupted <=> u.interrupted
  BY <1>0, <1>4 DEF Use
<1> HIDE DEF x
<1>6. x \in Use /\ UseHolds(x, v, i, o, q, failures) /\ x.method = u.method /\ x.pc = p /\ x.result = "none"
  BY <1>0, <1>4, <1>e, Loops
<1>7. ASSUME m \in Messages, m.kind # "answer", NEW o2 \in Seq(Messages), NEW q2 \in Seq(Messages),
             stdout' = [stdout EXCEPT ![c] = o2], queued' = [queued EXCEPT ![c] = q2],
             UseHolds(x, v, i, o2, q2, failures), Parts(Append(s, m), q2, o2, v.n)
      PROVE  TurnsInv'
  <2> DEFINE s2 == Append(s, m)
  <2>1. s2 \in Seq(Messages) /\ NoAnswer(s2)
    BY <1>0, <1>7, <1>c, Appends
  <2>2. observed' = [observed EXCEPT ![c] = s2] /\ observed'[c] = s2
    BY <1>1, <1>b
  <2> HIDE DEF s2
  <2>3. observed' \in [Clients -> Seq(Messages)]
    BY <1>3, <2>1, <2>2
  <2>4. \A a \in AskCalls \ {c} : /\ unseen'[a] = unseen[a] /\ observed'[a] = observed[a]
                                  /\ a \in recorded' <=> a \in recorded
    <3>1. \A a \in AskCalls : a \in Clients
      BY DEF Clients
    <3> QED
      BY <1>2, <1>3, <2>2, <3>1
  <2>5. AskHolds(x, v, o2, q2, s2, cancel[c], unseen[c], c \in recorded)
    <3>1. Parts(s2, q2, o2, v.n)
      BY <1>7 DEF s2
    <3>2. c \notin recorded
      BY <1>0, <1>1, <1>a DEF UseHolds, AskHolds, Working, Ending
    <3>3. x.pc # "idle"
      BY <1>4, <1>6
    <3> QED
      BY <1>6, <1>a, <2>1, <3>1, <3>2, <3>3 DEF AskHolds
  <2>6. AskHolds(x, v, o2, q2, observed'[c], cancel[c], unseen'[c], c \in recorded')
    BY <1>2, <2>2, <2>5
  <2> QED
    BY <1>00, <1>0, <1>2, <1>3, <1>5, <1>6, <1>7, <2>3, <2>4, <2>6, UseStep
<1>8. CASE /\ q # << >> /\ m = Head(q) /\ queued' = [queued EXCEPT ![c] = Tail(q)]
           /\ UNCHANGED stdout
  <2> DEFINE t == Tail(q)
  <2>1. t \in Seq(Messages) /\ m \in Messages /\ NoAnswer(t) /\ m.kind # "answer"
    BY <1>0, <1>8, <1>d, Tails
  <2>2. Parts(Append(s, m), t, o, v.n)
    BY <1>0, <1>8, <1>c, <2>1, PartsSeenQueued
  <2>3. stdout' = [stdout EXCEPT ![c] = o] /\ queued' = [queued EXCEPT ![c] = t]
    BY <1>0, <1>8
  <2> HIDE DEF t
  <2>4. UseHolds(x, v, i, o, t, failures)
    BY <1>0, <1>4, <1>6, <2>1, Queues
  <2> QED
    BY <1>0, <1>7, <2>1, <2>2, <2>3, <2>4
<1>9. CASE /\ q = << >> /\ m = Head(o) /\ stdout' = [stdout EXCEPT ![c] = Tail(o)]
           /\ o # << >> /\ UNCHANGED queued
  <2> DEFINE t == Tail(o)
  <2>1. t \in Seq(Messages) /\ m \in Messages /\ m.kind # "answer"
    BY <1>0, <1>9, <1>d, Tails
  <2>2. Parts(Append(s, m), q, t, v.n)
    <3>1. Parts(s, << >>, o, v.n)
      BY <1>9, <1>c
    <3>2. Parts(Append(s, m), << >>, t, v.n)
      BY <1>0, <1>9, <1>c, <2>1, <3>1, PartsSeen
    <3> QED
      BY <1>9, <3>2
  <2>3. stdout' = [stdout EXCEPT ![c] = t] /\ queued' = [queued EXCEPT ![c] = q]
    BY <1>0, <1>9
  <2>4. UseHolds(x, v, i, t, q, failures)
    BY <1>0, <1>6, <1>9, MessageRead
  <2> HIDE DEF t
  <2> QED
    BY <1>0, <1>7, <2>1, <2>2, <2>3, <2>4
<1> QED
  BY <1>1, <1>8, <1>9

LEMMA RecordKeeps ==
  ASSUME TurnsInv, NEW c \in AskCalls, Record(c)
  PROVE  TurnsInv'
<1> DEFINE u == client[c]
           v == server[c]
           i == stdin[c]
           o == stdout[c]
           q == queued[c]
<1>00. c \in Clients
  BY RegistryTypes
<1>0. /\ u \in Use /\ v \in Server /\ i \in Seq(Methods) /\ o \in Seq(Messages)
      /\ q \in Seq(Messages) /\ UseHolds(u, v, i, o, q, failures)
      /\ failures \in 0..MaxFailures /\ failures \in Nat
      /\ queued = [queued EXCEPT ![c] = q] /\ server = [server EXCEPT ![c] = v]
      /\ stdin = [stdin EXCEPT ![c] = i] /\ stdout = [stdout EXCEPT ![c] = o]
  BY <1>00, TurnsTypes
<1>1. PICK r \in {"ok", "failed"} :
        /\ u.pc = "complete" /\ client' = [client EXCEPT ![c] = [u EXCEPT !.pc = "shutdown", !.result = r]]
        /\ r = "ok" => recorded' = recorded \cup {c} /\ UNCHANGED failures
        /\ r = "failed" => Failure /\ UNCHANGED recorded
        /\ UNCHANGED <<deskVars, server, wire, queued, observed>>
  BY DEF Record
<1>2. /\ queued' = [queued EXCEPT ![c] = q] /\ stdout' = [stdout EXCEPT ![c] = o]
      /\ server' = [server EXCEPT ![c] = v] /\ stdin' = [stdin EXCEPT ![c] = i]
      /\ id' = id /\ registry' = registry /\ cancel' = cancel /\ unseen' = unseen
      /\ observed' = observed
  BY <1>0, <1>1 DEF deskVars, wire
<1>3. /\ registry' \in [Ids -> AskCalls \cup {NoAsk}] /\ unseen' \in [AskCalls -> BOOLEAN]
      /\ observed' \in [Clients -> Seq(Messages)] /\ recorded' \in SUBSET AskCalls
  BY <1>1, <1>2 DEF TurnsInv, TurnsTypeOK
<1>4. failures' \in 0..MaxFailures /\ failures' \in Nat /\ (failures' = 0 => failures = 0 /\ r = "ok")
  BY <1>0, <1>1, FaultStep
<1>a. AskHolds(u, v, o, q, observed[c], cancel[c], unseen[c], c \in recorded)
  BY RegistryTypes
<1> DEFINE x == [u EXCEPT !.pc = "shutdown", !.result = r]
<1>5. client' = [client EXCEPT ![c] = x]
  BY <1>1
<1> HIDE DEF u, v, i, o, q
<1>6. x \in Use /\ x.pc = "shutdown" /\ x.pc \in Ending /\ x.result = r /\ x.method = u.method
  BY <1>0, <1>1 DEF Use, Ending
<1> HIDE DEF x
<1>7. UseHolds(x, v, i, o, q, failures')
  BY <1>0, <1>4, <1>6, Ends
<1>8. c \in recorded' => x.result = "ok"
  BY <1>0, <1>1, <1>6, <1>a DEF UseHolds, AskHolds, Ending
<1>9. AskHolds(x, v, o, q, observed[c], cancel[c], unseen[c], c \in recorded')
  BY <1>a, <1>6, <1>8, AskEnds
<1>10. AskHolds(x, v, o, q, observed'[c], cancel[c], unseen'[c], c \in recorded')
  BY <1>2, <1>9
<1>11. \A a \in AskCalls \ {c} : /\ unseen'[a] = unseen[a] /\ observed'[a] = observed[a]
                                 /\ a \in recorded' <=> a \in recorded
  BY <1>1, <1>2
<1> QED
  BY <1>00, <1>0, <1>2, <1>3, <1>4, <1>5, <1>6, <1>7, <1>10, <1>11, UseStep

LEMMA ShutdownKeeps ==
  ASSUME TurnsInv, NEW c \in Clients, Shutdown(c)
  PROVE  TurnsInv'
<1> DEFINE u == client[c]
           v == server[c]
           i == stdin[c]
           o == stdout[c]
           q == queued[c]
           p == IF c \in AskCalls THEN "unregister" ELSE "done"
           x == [u EXCEPT !.pc = p]
           w == [v EXCEPT !.up = FALSE, !.stdin = FALSE]
<1>0. /\ u \in Use /\ v \in Server /\ i \in Seq(Methods) /\ o \in Seq(Messages)
      /\ q \in Seq(Messages) /\ UseHolds(u, v, i, o, q, failures)
      /\ failures \in 0..MaxFailures /\ failures \in Nat
      /\ queued = [queued EXCEPT ![c] = q]
      /\ stdin = [stdin EXCEPT ![c] = i] /\ stdout = [stdout EXCEPT ![c] = o]
  BY TurnsTypes
<1>1. /\ u.pc = "shutdown" /\ client' = [client EXCEPT ![c] = x]
      /\ server' = [server EXCEPT ![c] = w]
      /\ UNCHANGED <<deskVars, wire, queued, observed, recorded, failures>>
  BY DEF Shutdown
<1>2. /\ queued' = [queued EXCEPT ![c] = q] /\ stdout' = [stdout EXCEPT ![c] = o]
      /\ stdin' = [stdin EXCEPT ![c] = i] /\ failures' = failures
      /\ UNCHANGED <<deskVars, observed, recorded>>
  BY <1>0, <1>1 DEF wire
<1>a. c \in AskCalls => AskHolds(u, v, o, q, observed[c], cancel[c], unseen[c], c \in recorded)
  BY RegistryTypes
<1> HIDE DEF u, v, i, o, q
<1>3. p \in {"unregister", "done"}
  OBVIOUS
<1> HIDE DEF p
<1>4. x \in Use /\ x.pc \in Ending /\ x.method = u.method /\ x.result = u.result
  BY <1>0, <1>3 DEF Use, Ending
<1>5. w \in Server /\ w.turn = v.turn /\ w.n = v.n
  BY <1>0 DEF Server
<1> HIDE DEF x, w
<1>6. u.result # "none" /\ (failures = 0 => Reasons(u, v, o))
  BY <1>0, <1>1 DEF UseHolds, Ending
<1>7. failures = 0 /\ x.result = "failed" => x.method = "turn/interrupt" /\ w.turn = "completed"
  BY <1>4, <1>5, <1>6 DEF Reasons
<1>8. UseHolds(x, w, i, o, q, failures)
  BY <1>0, <1>4, <1>5, <1>6, <1>7, Ends
<1>9. ASSUME c \in AskCalls
      PROVE  AskHolds(x, w, o, q, observed[c], cancel[c], unseen[c], c \in recorded)
  <2>1. c \in recorded => x.result = "ok"
    BY <1>a, <1>4, <1>9 DEF AskHolds
  <2> QED
    BY <1>a, <1>4, <1>9, <2>1, AskEnds
<1> QED
  BY <1>0, <1>1, <1>2, <1>4, <1>5, <1>8, <1>9, WireStep

LEMMA UnregisterKeeps ==
  ASSUME TurnsInv, NEW c \in AskCalls, Unregister(c)
  PROVE  TurnsInv'
<1> DEFINE u == client[c]
           v == server[c]
           i == stdin[c]
           o == stdout[c]
           q == queued[c]
           x == [u EXCEPT !.pc = "done"]
<1>00. c \in Clients
  BY RegistryTypes
<1>0. /\ u \in Use /\ v \in Server /\ i \in Seq(Methods) /\ o \in Seq(Messages)
      /\ q \in Seq(Messages) /\ UseHolds(u, v, i, o, q, failures)
      /\ failures \in 0..MaxFailures /\ failures \in Nat
      /\ queued = [queued EXCEPT ![c] = q] /\ server = [server EXCEPT ![c] = v]
      /\ stdin = [stdin EXCEPT ![c] = i] /\ stdout = [stdout EXCEPT ![c] = o]
  BY <1>00, TurnsTypes
<1>1. /\ u.pc = "unregister" /\ client' = [client EXCEPT ![c] = x]
      /\ registry' = [registry EXCEPT ![id[c]] = NoAsk]
      /\ UNCHANGED <<id, cancel, unseen, server, wire, queued, observed, recorded, failures>>
  BY DEF Unregister
<1>2. /\ queued' = [queued EXCEPT ![c] = q] /\ stdout' = [stdout EXCEPT ![c] = o]
      /\ server' = [server EXCEPT ![c] = v] /\ stdin' = [stdin EXCEPT ![c] = i] /\ failures' = failures
      /\ UNCHANGED <<id, cancel, unseen, observed, recorded>>
  BY <1>0, <1>1 DEF wire
<1>3. registry' \in [Ids -> AskCalls \cup {NoAsk}]
  BY <1>1, RegistryTypes
<1>a. AskHolds(u, v, o, q, observed[c], cancel[c], unseen[c], c \in recorded)
  BY RegistryTypes
<1> HIDE DEF u, v, i, o, q
<1>4. x \in Use /\ x.pc \in Ending /\ x.method = u.method /\ x.result = u.result
  BY <1>0 DEF Use, Ending
<1> HIDE DEF x
<1>5. u.result # "none" /\ (failures = 0 => Reasons(u, v, o))
  BY <1>0, <1>1 DEF UseHolds, Ending
<1>6. failures = 0 /\ x.result = "failed" => x.method = "turn/interrupt" /\ v.turn = "completed"
  BY <1>4, <1>5 DEF Reasons
<1>7. UseHolds(x, v, i, o, q, failures)
  BY <1>0, <1>4, <1>5, <1>6, Ends
<1>8. AskHolds(x, v, o, q, observed[c], cancel[c], unseen[c], c \in recorded)
  <2>1. c \in recorded => x.result = "ok"
    BY <1>a, <1>4 DEF AskHolds
  <2> QED
    BY <1>a, <1>4, <2>1, AskEnds
<1>9. client' = [client EXCEPT ![c] = x] /\ UseHolds(x, v, i, o, q, failures') /\ x \in Use
  BY <1>1, <1>2, <1>4, <1>7
<1> QED
  BY <1>00, <1>0, <1>2, <1>3, <1>8, <1>9, DeskStep

-----------------------------------------------------------------------------
(* The invariant holds at first and is kept by every step.                 *)

LEMMA TurnsInvInit ==
  ASSUME TurnsInit
  PROVE  TurnsInv
<1> DEFINE u == [pc |-> "idle", method |-> "initialize", interrupted |-> FALSE, result |-> "none"]
           v == [up |-> FALSE, stdin |-> FALSE, turn |-> "none", n |-> 0]
<1>1. u \in Use /\ v \in Server
  BY TurnsAssumption DEF Use, Server, Methods
<1>2. /\ client = [c \in Clients |-> u] /\ server = [c \in Clients |-> v]
      /\ stdin = [c \in Clients |-> << >>] /\ stdout = [c \in Clients |-> << >>]
      /\ queued = [c \in Clients |-> << >>] /\ observed = [c \in Clients |-> << >>]
      /\ failures = 0 /\ id \in [AskCalls -> Ids] /\ registry = [q \in Ids |-> NoAsk]
      /\ cancel = [a \in AskCalls |-> FALSE] /\ unseen = [a \in AskCalls |-> FALSE] /\ recorded = {}
  BY DEF TurnsInit
<1>3. u.pc = "idle" /\ u.method = "initialize" /\ u.result = "none"
      /\ v.turn = "none" /\ v.n = 0
  OBVIOUS
<1> HIDE DEF u, v
<1>4. << >> \in Seq(Methods) /\ << >> \in Seq(Messages) /\ 0 \in 0..MaxFailures
  BY TurnsAssumption
<1>5. TurnsTypeOK
  BY <1>1, <1>2, <1>3, <1>4 DEF TurnsTypeOK
<1>6. UseHolds(u, v, << >>, << >>, << >>, 0)
  <2>1. DOMAIN << >> = {}
    OBVIOUS
  <2>2. Exchange(u, << >>, << >>, << >>)
    BY EmptyFacts DEF Exchange
  <2>3. TurnStarts(u, v, << >>, << >>)
    BY <1>3, <2>1 DEF TurnStarts
  <2>4. Reasons(u, v, << >>)
    BY <1>3, <2>1 DEF Reasons, Working
  <2> QED
    BY <1>3, <2>2, <2>3, <2>4 DEF UseHolds, Working, Ending
<1>7. Uses
  BY <1>2, <1>6 DEF Uses
<1>8. AskHolds(u, v, << >>, << >>, << >>, FALSE, FALSE, FALSE)
  BY <1>3, EmptyFacts DEF AskHolds, Working
<1>9. AsksHold
  <2>1. ASSUME NEW a \in AskCalls
        PROVE  AskHolds(client[a], server[a], stdout[a], queued[a], observed[a],
                        cancel[a], unseen[a], a \in recorded)
    <3>1. a \in Clients
      BY DEF Clients
    <3>2. /\ client[a] = u /\ server[a] = v /\ stdout[a] = << >> /\ queued[a] = << >>
          /\ observed[a] = << >> /\ cancel[a] = FALSE /\ unseen[a] = FALSE /\ ~(a \in recorded)
      BY <1>2, <3>1
    <3>3. (a \in recorded) = FALSE
      BY <3>2
    <3> QED
      BY <1>8, <3>2, <3>3
  <2> QED
    BY <2>1 DEF AsksHold
<1> QED
  BY <1>5, <1>7, <1>9 DEF TurnsInv

LEMMA TurnsInvKept ==
  ASSUME TurnsInv, [TurnsNext]_turnsVars
  PROVE  TurnsInv'
<1>1. CASE TurnsNext
  <2>1. CASE \E a \in AskCalls : BeginAsk(a)
    BY <2>1, BeginAskKeeps
  <2>2. CASE \E q \in Ids : Cancel(q)
    BY <2>2, CancelKeeps
  <2>3. ASSUME NEW c \in Clients, BeginRead(c) \/ SpawnFails(c) PROVE TurnsInv'
    BY <2>3, BeginReadKeeps, SpawnFailsKeeps
  <2>4. ASSUME NEW c \in Clients, Serves(c) \/ TurnSends(c) \/ ServerEnds(c) PROVE TurnsInv'
    BY <2>4, ServesKeeps, TurnSendsKeeps, ServerEndsKeeps
  <2>5. ASSUME NEW c \in Clients, ClientStep(c) PROVE TurnsInv'
    <3>1. CASE ReadOther(c) \/ Answered(c) \/ Closed(c) \/ Shutdown(c)
      BY <3>1, ReadOtherKeeps, AnsweredKeeps, ClosedKeeps, ShutdownKeeps
    <3>2. CASE c \in AskCalls /\ (LoopTop(c) \/ SeeCancellation(c) \/ TurnMessageSeen(c))
      BY <3>2, LoopTopKeeps, SeeCancellationKeeps, TurnMessageSeenKeeps
    <3>3. CASE c \in AskCalls /\ (Record(c) \/ Unregister(c))
      BY <3>3, RecordKeeps, UnregisterKeeps
    <3> QED
      BY <2>5, <3>1, <3>2, <3>3 DEF ClientStep
  <2> QED
    BY <1>1, <2>1, <2>2, <2>3, <2>4, <2>5 DEF TurnsNext
<1>2. CASE UNCHANGED turnsVars
  <2>1. /\ UNCHANGED <<id, registry, cancel, unseen, client, server, stdin, stdout>>
        /\ UNCHANGED <<queued, observed, recorded, failures>>
    BY <1>2 DEF turnsVars, deskVars, wire
  <2>2. TurnsTypeOK' /\ Uses' /\ AsksHold'
    BY <2>1 DEF TurnsInv, TurnsTypeOK, Uses, AsksHold
  <2> QED
    BY <2>2 DEF TurnsInv
<1> QED
  BY <1>1, <1>2

LEMMA TurnsInvAlways == TurnsSpec => []TurnsInv
<1>1. TurnsInit => TurnsInv
  BY TurnsInvInit
<1>2. TurnsInv /\ [TurnsNext]_turnsVars => TurnsInv'
  BY TurnsInvKept
<1> QED
  BY <1>1, <1>2, PTL DEF TurnsSpec

(* Requests, answers and turn messages keep their types, however many      *)
(* messages a turn sends, and a use that is done has its result.           *)
THEOREM TurnsTypeCorrect == TurnsSpec => []TurnsTypeOK
<1>1. TurnsInv => TurnsTypeOK
  BY DEF TurnsInv
<1> QED
  BY <1>1, TurnsInvAlways, PTL

LEMMA InvOrders ==
  ASSUME TurnsInv
  PROVE  MessagesInOrder
<1>1. ASSUME NEW a \in AskCalls, client[a].pc \in {"asking", "top", "select", "complete"}
      PROVE  InOrder(observed[a] \o queued[a] \o stdout[a], server[a].n)
  <2>1. a \in Clients
    BY DEF Clients
  <2>2. Parts(observed[a], queued[a], stdout[a], server[a].n)
    BY <1>1 DEF TurnsInv, AsksHold, AskHolds, Working
  <2>3. server[a].n \in Nat
    BY <2>1, TurnsTypes DEF Server
  <2>4. /\ observed[a] \in Seq(Messages) /\ queued[a] \in Seq(Messages)
        /\ stdout[a] \in Seq(Messages)
    BY <2>1, TurnsTypes
  <2> QED
    BY <2>2, <2>3, <2>4, WholeInOrder
<1> QED
  BY <1>1 DEF MessagesInOrder

(* The messages of a turn reach on_event in the order the app-server sent  *)
(* them, without a gap, whichever request was waiting when they came.      *)
THEOREM MessagesStayInOrder == TurnsSpec => []MessagesInOrder
<1>1. TurnsInv => MessagesInOrder
  BY InvOrders
<1> QED
  BY <1>1, TurnsInvAlways, PTL

LEMMA InvExplains ==
  ASSUME TurnsInv
  PROVE  FailureExplained
<1>1. ASSUME NEW a \in AskCalls, client[a].result = "failed", failures = 0
      PROVE  cancel[a] /\ server[a].turn = "completed" /\ a \notin recorded
  <2>1. a \in Clients
    BY DEF Clients
  <2>2. client[a].method = "turn/interrupt" /\ server[a].turn = "completed"
    BY <1>1, <2>1 DEF TurnsInv, Uses, UseHolds, Reasons
  <2>3. /\ client[a].method = "turn/interrupt" => cancel[a]
        /\ a \in recorded => client[a].result = "ok"
    BY DEF TurnsInv, AsksHold, AskHolds
  <2> QED
    BY <1>1, <2>2, <2>3
<1> QED
  BY <1>1 DEF FailureExplained

(* Without a failure of a process or of the catalog an ask fails only when *)
(* its cancellation crossed the turn's own completion.                     *)
THEOREM FailuresExplained == TurnsSpec => []FailureExplained
<1>1. TurnsInv => FailureExplained
  BY InvExplains
<1> QED
  BY <1>1, TurnsInvAlways, PTL
=============================================================================
