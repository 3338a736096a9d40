----------------------------- MODULE Discovery -----------------------------
(***************************************************************************)
(* How a provider turns the files of its product into the collection an    *)
(* Agent answers, and when it answers the one it has kept instead.         *)
(*                                                                         *)
(* The Codex provider first takes a cursor, the length and modification    *)
(* time of every file that counts.  If that is the cursor of the           *)
(* collection it has kept, it answers that one.  Otherwise it goes through *)
(* its roots, lists one directory after the other and reads each file once *)
(* for its artifact and most files once more for the configuration layer,  *)
(* guidance, memory record or session rows.  The providers of other        *)
(* products have no cursor: they list all their files and then read each   *)
(* once.  Users and Codex write, remove and archive files between any two  *)
(* of these steps, and nothing tells the provider.                         *)
(*                                                                         *)
(* A file is its stamp: its length, modification time and content, which   *)
(* every write makes new and a rename keeps.  A place is where it can be:  *)
(* Codex archives a session by moving its file from sessions to            *)
(* archived_sessions.  The session index lists sessions without a path;    *)
(* files that have an artifact only are left out.  The files that are read *)
(* by name may be symbolic links: a discovery follows them, the cursor     *)
(* does not count them.                                                    *)
(***************************************************************************)
EXTENDS Integers, Sequences, Functions

CONSTANTS
  Explicit,     \* names of config.toml and AGENTS.md in the Codex home, in the
                \* order in which they are read
  Profiles,     \* names of other *.config.toml files there
  SessionIndex, \* the name session_index.jsonl
  Guidance,     \* names of AGENTS.md and rules in the roots of projects
  SessionIds,   \* session ids, and the names of their files
  Memories,     \* names of the files in memories
  Candidates,   \* names of the files of another product
  Indexed,      \* the sessions the index lists
  Linked,       \* the places where the file is a symbolic link that is followed
  First,        \* where there are files at the start
  NoCollection, \* nothing kept yet
  MaxChanges,   \* bound on writes, removals and moves of files
  MaxFailures   \* bound on reads that fail

At(d, names) == [dir : {d}, name : names]
Index  == [dir |-> "home", name |-> SessionIndex]
Live(s)     == [dir |-> "sessions", name |-> s]
Archived(s) == [dir |-> "archived_sessions", name |-> s]

(* What a provider lists at once and visits next, in the order in which    *)
(* the file system gives it.  The roots of projects come first, as they    *)
(* are the deeper ones; for a discovery each file that is expected in the  *)
(* Codex home by name is a listing of its own.                             *)
Homes == [i \in 1..Len(Explicit) |-> At("home", {Explicit[i]})]

CodexListings ==
  <<At("project", Guidance)>> \o Homes \o
  <<{Index}, At("home", Profiles), At("sessions", SessionIds),
    At("archived_sessions", SessionIds), At("memories", Memories)>>

FileListings == <<At("user", Candidates)>>

Listings(v) == IF v = "codex" THEN CodexListings ELSE FileListings

(* What the cursor goes through: all of that but for the profiles; and     *)
(* what it counts of that: the files that are no links.                    *)
CursorListings ==
  <<At("project", Guidance), At("home", Range(Explicit) \cup {SessionIndex}),
    At("sessions", SessionIds), At("archived_sessions", SessionIds), At("memories", Memories)>>

Providers == {"codex", "files"}
Of(v) == UNION Range(Listings(v))
Counted == UNION Range(CursorListings) \ Linked
Places == Of("codex") \cup Of("files")
HoldsRows(p) == p = Index \/ p.dir \in {"sessions", "archived_sessions"}

ASSUME DiscoveryAssumption ==
  /\ Explicit \in Seq(Range(Explicit)) /\ IsInjective(Explicit)
  /\ SessionIndex \notin Range(Explicit) \cup Profiles
  /\ Range(Explicit) \cap Profiles = {}
  /\ Indexed \subseteq SessionIds
  /\ Linked \subseteq At("home", Range(Explicit) \cup {SessionIndex} \cup Profiles)
                      \cup At("project", Guidance)
  /\ First \subseteq Places
  /\ \A s \in SessionIds : ~({Live(s), Archived(s)} \subseteq First)
  /\ MaxChanges \in Nat /\ MaxFailures \in Nat

VARIABLES
  file,    \* per place, the stamp of the file there, 0 if there is none
  kept,    \* per provider, the last collection with its cursor, or NoCollection
  pass,    \* the collection under way
  changes, \* writes, removals and moves so far
  failures \* reads that failed so far

discoveryVars == <<file, kept, pass, changes, failures>>

Stamp == 1..(MaxChanges + 1)
Read  == [place : Places, stamp : Stamp]
Record == {e \in Read : ~HoldsRows(e.place)}
Row   == [session : SessionIds, place : Places, stamp : Stamp]

(* A collection, and as history the places whose record could not be read  *)
(* and the sessions that were moved while it was collected.                *)
Collections == [artifacts : SUBSET Read, records : SUBSET Record, rows : SUBSET Row,
                unread : SUBSET Places, moved : SUBSET SessionIds]
Kept  == [cursor : SUBSET Read, batch : Collections]

(* The last three are history, too.                                        *)
PassState == [phase : {"idle", "look", "read", "again"}, provider : Providers,
              cursor : SUBSET Read, listed : Nat, todo : SUBSET Places, at : Of("codex"),
              artifacts : SUBSET Read, records : SUBSET Record, rows : Seq(SUBSET Row),
              unread : SUBSET Places, touched : SUBSET Places, moved : SUBSET SessionIds]

Idle == [phase |-> "idle", provider |-> "codex", cursor |-> {}, listed |-> 0, todo |-> {},
         at |-> Index, artifacts |-> {}, records |-> {}, rows |-> << >>, unread |-> {},
         touched |-> {}, moved |-> {}]

(* The listings of the pass.                                               *)
Ahead == IF pass.phase = "look" THEN CursorListings ELSE Listings(pass.provider)

DiscoveryTypeOK ==
  /\ file \in [Places -> Stamp \cup {0}]
  /\ kept \in [Providers -> Kept \cup {NoCollection}]
  /\ pass \in PassState
  /\ pass.listed \in 0..Len(Ahead)
  /\ pass.todo \subseteq Of(pass.provider)
  /\ pass.phase \in {"look", "again"} => pass.provider = "codex"
  /\ changes \in 0..MaxChanges
  /\ failures \in 0..MaxFailures

DiscoveryInit ==
  /\ file = [p \in Places |-> IF p \in First THEN 1 ELSE 0]
  /\ kept = [v \in Providers |-> NoCollection]
  /\ pass = Idle
  /\ changes = 0
  /\ failures = 0
-----------------------------------------------------------------------------
(* The files.                                                              *)

(* History: what is touched, and which sessions are moved, during a pass.  *)
Disturbed(ps, ss) ==
  IF pass.phase = "idle" THEN pass
  ELSE [pass EXCEPT !.touched = @ \cup ps, !.moved = @ \cup ss]

Touch == changes < MaxChanges /\ changes' = changes + 1

Put(p, n) ==
  /\ Touch
  /\ file' = [file EXCEPT ![p] = n]
  /\ pass' = Disturbed({p}, {})
  /\ UNCHANGED <<kept, failures>>

(* A session has one file.                                                 *)
Write(p) ==
  /\ \A s \in SessionIds : p \in {Live(s), Archived(s)} =>
       \A q \in {Live(s), Archived(s)} \ {p} : file[q] = 0
  /\ Put(p, changes + 2)

Delete(p) == file[p] # 0 /\ Put(p, 0)

Move(s) ==
  \E p, q \in {Live(s), Archived(s)} :
    /\ Touch
    /\ file[p] # 0 /\ p # q
    /\ file' = [file EXCEPT ![p] = 0, ![q] = file[p]]
    /\ pass' = Disturbed({p, q}, {s})
    /\ UNCHANGED <<kept, failures>>
-----------------------------------------------------------------------------
Present(ps) == {p \in ps : file[p] # 0}

(* A file is there and cannot be read.                                     *)
ReadFault == failures < MaxFailures /\ failures' = failures + 1
-----------------------------------------------------------------------------
(* The cursor.                                                             *)

Entries(f, ps) == {[place |-> p, stamp |-> f[p]] : p \in {q \in ps : f[q] # 0}}

CursorOf(f) == Entries(f, Counted)

(* An Agent collects for one provider after the other.                     *)
Begin(v) ==
  /\ pass.phase = "idle"
  /\ pass' = [Idle EXCEPT !.phase = IF v = "codex" THEN "look" ELSE "read", !.provider = v]
  /\ UNCHANGED <<file, kept, changes, failures>>

LookOn ==
  /\ pass.phase = "look" /\ pass.todo = {}
  /\ pass.listed < Len(CursorListings)
  /\ pass' = [pass EXCEPT !.listed = @ + 1, !.todo = CursorListings[pass.listed + 1]]
  /\ UNCHANGED <<file, kept, changes, failures>>

LookAt ==
  /\ pass.phase = "look"
  /\ \E p \in pass.todo :
       pass' = [pass EXCEPT !.cursor = @ \cup Entries(file, {p} \ Linked), !.todo = @ \ {p}]
  /\ UNCHANGED <<file, kept, changes, failures>>

(* Directories or files that are there and cannot be read are left out of  *)
(* the cursor, and nothing tells.                                          *)
LookMisses ==
  /\ ReadFault
  /\ pass.phase = "look"
  /\ \E ps \in SUBSET pass.todo :
       Present(ps) # {} /\ pass' = [pass EXCEPT !.todo = @ \ ps]
  /\ UNCHANGED <<file, kept, changes>>

Looked == pass.phase = "look" /\ pass.todo = {} /\ pass.listed = Len(CursorListings)

(* Bug: nothing that was deleted makes a collection out of date.           *)
UnchangedOrLess ==
  kept["codex"] # NoCollection /\ pass.cursor \subseteq kept["codex"].cursor

SameCursor == kept["codex"] # NoCollection /\ kept["codex"].cursor = pass.cursor

(* The kept collection is answered.                                        *)
AnswerKept ==
  /\ Looked
  /\ SameCursor
  /\ pass' = Idle
  /\ UNCHANGED <<file, kept, changes, failures>>

GoOn ==
  /\ Looked
  /\ ~SameCursor
  /\ pass' = [pass EXCEPT !.phase = "read", !.listed = 0]
  /\ UNCHANGED <<file, kept, changes, failures>>
-----------------------------------------------------------------------------
(* The discovery.                                                          *)

(* What is there of the next listing is to be read.                        *)
List ==
  /\ pass.phase = "read" /\ pass.todo = {}
  /\ pass.listed < Len(Listings(pass.provider))
  /\ pass' = [pass EXCEPT !.listed = @ + 1,
                          !.todo = Present(Listings(pass.provider)[pass.listed + 1])]
  /\ UNCHANGED <<file, kept, changes, failures>>

(* A profile that is seen to be gone again is not read.                    *)
SkipProfile ==
  /\ pass.phase = "read"
  /\ \E p \in pass.todo \cap At("home", Profiles) :
       file[p] = 0 /\ pass' = [pass EXCEPT !.todo = @ \ {p}]
  /\ UNCHANGED <<file, kept, changes, failures>>

(* The file is read for its artifact.                                      *)
ReadArtifact ==
  /\ pass.phase = "read" /\ pass.provider = "codex"
  /\ \E p \in Present(pass.todo) :
       pass' = [pass EXCEPT !.phase = "again", !.at = p, !.todo = @ \ {p},
                            !.artifacts = @ \cup Entries(file, {p})]
  /\ UNCHANGED <<file, kept, changes, failures>>

(* The file is read for its artifact and its records, once for both.       *)
ReadCandidate ==
  /\ pass.phase = "read" /\ pass.provider = "files"
  /\ \E p \in Present(pass.todo) :
       pass' = [pass EXCEPT !.todo = @ \ {p},
                            !.artifacts = @ \cup Entries(file, {p}),
                            !.records = @ \cup Entries(file, {p})]
  /\ UNCHANGED <<file, kept, changes, failures>>

(* Bug: the record is read of a file of any kind.                          *)
ReadRecordOfAny ==
  /\ pass.phase = "again"
  /\ pass' = [pass EXCEPT !.phase = "read", !.records = @ \cup Entries(file, {pass.at})]
  /\ UNCHANGED <<file, kept, changes, failures>>

(* The file is read again for its record, if it is still there.            *)
ReadRecord ==
  /\ pass.phase = "again" /\ ~HoldsRows(pass.at)
  /\ pass' = [pass EXCEPT !.phase = "read", !.records = @ \cup Entries(file, {pass.at})]
  /\ UNCHANGED <<file, kept, changes, failures>>

RowsIn(p) == [session : IF p = Index THEN Indexed ELSE {p.name},
              place : {p}, stamp : {file[p]}]

(* The file is read again for the sessions it tells of.                    *)
ReadSessions ==
  /\ pass.phase = "again" /\ HoldsRows(pass.at)
  /\ file[pass.at] # 0
  /\ pass' = [pass EXCEPT !.phase = "read", !.rows = Append(@, RowsIn(pass.at))]
  /\ UNCHANGED <<file, kept, changes, failures>>

(* A session's own file comes before the index.                            *)
Priority(p) == IF p = Index THEN 1 ELSE 0

(* Bug: keep the first row of a session.                                   *)
FirstOfEach(rows) ==
  {r \in UNION Range(rows) : \E i \in DOMAIN rows : r \in rows[i] /\
     \A k \in 1..(i - 1) : \A q \in rows[k] : q.session # r.session}

(* Of the rows of a session the first of the best priority is kept.        *)
OneOfEach(rows) ==
  {r \in UNION Range(rows) : \E i \in DOMAIN rows : r \in rows[i] /\
     \A k \in DOMAIN rows : \A q \in rows[k] : q.session = r.session =>
       \/ Priority(r.place) < Priority(q.place)
       \/ Priority(r.place) = Priority(q.place) /\ i <= k}

Collected == [artifacts |-> pass.artifacts, records |-> pass.records,
              rows |-> OneOfEach(pass.rows),
              unread |-> pass.unread, moved |-> pass.moved]

Done ==
  /\ pass.phase = "read" /\ pass.todo = {}
  /\ pass.listed = Len(Listings(pass.provider))

(* Bug: keep the collection under a cursor taken after it.                 *)
FinishLookingAgain ==
  /\ Done
  /\ kept' = [kept EXCEPT ![pass.provider] = [cursor |-> CursorOf(file), batch |-> Collected]]
  /\ pass' = Idle
  /\ UNCHANGED <<file, changes, failures>>

(* The collection is kept under the cursor that was taken before it.       *)
Finish ==
  /\ Done
  /\ kept' = [kept EXCEPT ![pass.provider] = [cursor |-> pass.cursor, batch |-> Collected]]
  /\ pass' = Idle
  /\ UNCHANGED <<file, changes, failures>>

(* The kept collection is answered as degraded.                            *)
GiveUp == pass' = Idle /\ UNCHANGED kept

(* The files that the pass may read next, and cannot do without.           *)
Needed ==
  IF pass.phase = "again" THEN {p \in {pass.at} : HoldsRows(p)} ELSE pass.todo

(* A listed file is gone when it is read for its artifact or its sessions. *)
Gone ==
  /\ pass.phase \in {"read", "again"}
  /\ Present(Needed) # Needed
  /\ GiveUp
  /\ UNCHANGED <<file, changes, failures>>

ReadFails ==
  /\ ReadFault
  /\ pass.phase \in {"read", "again"}
  /\ Present(Needed) # {}
  /\ GiveUp
  /\ UNCHANGED <<file, changes>>

(* The record is left out, and nothing tells.                              *)
RecordUnread ==
  /\ ReadFault
  /\ pass.phase = "again" /\ ~HoldsRows(pass.at)
  /\ file[pass.at] # 0
  /\ pass' = [pass EXCEPT !.phase = "read", !.unread = @ \cup {pass.at}]
  /\ UNCHANGED <<file, kept, changes>>
-----------------------------------------------------------------------------
CollectStep ==
  \/ LookOn \/ LookAt \/ AnswerKept \/ GoOn
  \/ List \/ SkipProfile \/ Gone \/ Finish
  \/ ReadArtifact \/ ReadRecord \/ ReadSessions \/ ReadCandidate

DiscoveryNext ==
  \/ \E p \in Places : Write(p) \/ Delete(p)
  \/ \E s \in SessionIds : Move(s)
  \/ \E v \in Providers : Begin(v)
  \/ CollectStep
  \/ LookMisses \/ ReadFails \/ RecordUnread

DiscoverySpec == DiscoveryInit /\ [][DiscoveryNext]_discoveryVars

(* watch collects again and again, for every provider.                     *)
DiscoveryFairness ==
  /\ WF_discoveryVars(CollectStep)
  /\ \A v \in Providers : SF_discoveryVars(Begin(v))

DiscoveryFairSpec == DiscoverySpec /\ DiscoveryFairness
-----------------------------------------------------------------------------
(* What a discovery of files that stand still gives: each file once, as it *)
(* is, and a session by its own file, or by the index if it has none.      *)
OfPlace(entries, ps) == {e \in entries : e.place \in ps}

Exact(b, ps) ==
  /\ OfPlace(b.artifacts, ps) = Entries(file, ps)
  /\ OfPlace(b.records, ps) = Entries(file, {p \in ps \ b.unread : ~HoldsRows(p)})

Tellers(s) == {Live(s), Archived(s), Index}

TellerOf(s) ==
  LET own == {p \in {Live(s), Archived(s)} : file[p] # 0}
  IN  IF own = {} /\ s \in Indexed THEN {Index} ELSE own

ExactRows(b, s) ==
  {r \in b.rows : r.session = s} =
    {[session |-> s, place |-> e.place, stamp |-> e.stamp] : e \in Entries(file, TellerOf(s))}

(* Whatever moves around them, the files that nobody touched while they    *)
(* were collected are in the collection as they are, all of them and       *)
(* nothing else in their places; so are the sessions they tell of.         *)
UntouchedReported ==
  [][\A v \in Providers : kept'[v] # kept[v] =>
       LET b == kept'[v].batch IN
       /\ Exact(b, Of(v) \ pass.touched)
       /\ v = "codex" =>
            \A s \in SessionIds : Tellers(s) \cap pass.touched = {} => ExactRows(b, s)
   ]_discoveryVars

(* Files that were collected and that the cursor does not have: they came  *)
(* after it, or it could not read them.                                    *)
Came(k) == {e.place : e \in k.batch.artifacts} \ {c.place : c \in k.cursor}

KeptIsExact(k) ==
  /\ Exact(k.batch, {p \in Counted \ Came(k) : p.name \notin k.batch.moved})
  /\ \A s \in SessionIds \ k.batch.moved :
       Tellers(s) \subseteq Counted \ Came(k) => ExactRows(k.batch, s)

CursorHolds == kept["codex"] # NoCollection /\ kept["codex"].cursor = CursorOf(file)

(* A kept collection is what a discovery would give as long as the files   *)
(* have its cursor: it is then exact for all of them that count.  Two      *)
(* kinds of change leave no trace in the cursor: that of a session which   *)
(* was moved while it was collected and is moved back, and that of a file  *)
(* which came while it was collected, or could not be read by the look     *)
(* before, and is gone again.                                              *)
ExactWhileCursorHolds == CursorHolds => KeptIsExact(kept["codex"])

(* When the files come to rest so do the collections, and are exact for    *)
(* the files that count, although a look that could not read a file may    *)
(* have answered a collection without it.                                  *)
EventuallyExact ==
  <>[](/\ kept["codex"] # NoCollection /\ KeptIsExact(kept["codex"])
       /\ kept["files"] # NoCollection /\ Exact(kept["files"].batch, Of("files")))

(* A profile is followed like every other file.                            *)
ProfilesFollowed ==
  <>[](kept["codex"] # NoCollection /\ Exact(kept["codex"].batch, At("home", Profiles)))

(* A file that is a symbolic link is followed like every other file.       *)
LinksFollowed ==
  <>[](kept["codex"] # NoCollection /\ Exact(kept["codex"].batch, Linked))

(* The same as ExactWhileCursorHolds, also for a session that moves.       *)
NoSessionMissed ==
  CursorHolds => \A s \in SessionIds : ExactRows(kept["codex"].batch, s)

(* The same, also for a file that comes and goes.                          *)
NothingOutlivesItsFile ==
  CursorHolds => \A p \in Counted : p.name \notin kept["codex"].batch.moved =>
    Exact(kept["codex"].batch, {p})

(* No record is left out in the end.                                       *)
EveryRecordInTheEnd ==
  <>[](kept["codex"] # NoCollection /\ kept["codex"].batch.unread = {})
=============================================================================
