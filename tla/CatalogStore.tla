---------------------------- MODULE CatalogStore ----------------------------
(***************************************************************************)
(* The catalog file as the processes that share it see it: how a process   *)
(* opens it and migrates its schema, the backups taken on the way, and the *)
(* annotations a user keeps in it: saved searches, host aliases, tags and  *)
(* links between the artifacts of two hosts.                               *)
(*                                                                         *)
(* Every CLI command, desktop command and MCP request opens the catalog    *)
(* anew, in a process or a connection of its own.  SQLite makes one        *)
(* statement, or one explicit transaction, atomic and waits for the lock   *)
(* of another writer; migrate and the annotation operations use no         *)
(* transaction, so another process may act between two of their            *)
(* statements.  Each action below is one such statement, but for what an   *)
(* annotation reads before its first write (whether the artifacts are      *)
(* known, which id the key has), which is one action.                      *)
(***************************************************************************)
EXTENDS Integers, Sequences, FiniteSets, Functions

CONSTANTS
  Procs,          \* processes that open the catalog
  Artifacts,      \* artifact ids
  HostOf,         \* the host of an artifact
  Rank,           \* the order of artifact ids as strings
  Names,          \* tag names, saved-search names and aliases
  Kinds,          \* the kinds of a link
  Tables,         \* the tables, in the order migrate creates them
  Columns,        \* the columns of providers that migrate adds, in its order
  CurrentVersion, \* CURRENT_SCHEMA_VERSION
  Legacy,         \* the schemas an earlier release left behind
  None,           \* no value
  MaxOps,         \* bound on operations begun
  MaxFaults       \* bound on failures and crashes

Hosts == {HostOf[a] : a \in Artifacts}
AllColumns == Range(Columns)
AllTables == Range(Tables)
Ids == 1..MaxOps

Schemas ==
  [file : {"none", "empty", "written"}, tables : SUBSET AllTables,
   versions : SUBSET (1..CurrentVersion), columns : SUBSET AllColumns]

(* An earlier release did not record the current version.                  *)
ASSUME CatalogAssumption ==
  /\ DOMAIN HostOf = Artifacts
  /\ Rank \in [Artifacts -> Nat] /\ IsInjective(Rank)
  /\ Tables \in Seq(AllTables) /\ Columns \in Seq(AllColumns)
  /\ CurrentVersion \in Nat /\ CurrentVersion > 1
  /\ Legacy \subseteq Schemas
  /\ \A l \in Legacy : l.file = "written" /\ CurrentVersion \notin l.versions
  /\ MaxOps \in Nat /\ MaxFaults \in Nat

VARIABLES
  schema,   \* of the catalog: its file, tables, versions and columns
  kept,     \* whether a complete file in backups/ holds the catalog as found
  rows,     \* of the catalog: the rows the operations below touch
  proc,     \* per process, where it stands
  first,    \* history: the schema the catalog had at the start
  ops,      \* history: operations begun, which also makes new ids
  faults    \* history: failures so far

vars == <<schema, kept, rows, proc, first, ops, faults>>

PCs == {"closed", "create", "prepare", "check", "backup", "tables", "version1", "columns", "alter",
        "versions", "open", "connect", "tag-name", "tag-pair", "link", "save"}

TypeOK ==
  /\ schema \in Schemas
  /\ kept \in BOOLEAN
  /\ rows \in [hosts : SUBSET Hosts, connections : SUBSET Hosts, artifacts : SUBSET Artifacts,
               tags : SUBSET (Names \X Ids), tagged : SUBSET (Artifacts \X Ids),
               links : SUBSET (Artifacts \X Artifacts \X Kinds \X Ids),
               saved : SUBSET (Names \X Ids), aliases : SUBSET (Hosts \X Names)]
  /\ proc \in [Procs ->
       [pc : PCs, have : SUBSET AllColumns, i : 1..(Len(Columns) + 1),
        name : Names \cup Kinds \cup {None}, on : Artifacts \cup Hosts \cup {None},
        with : Artifacts \cup {None}, id : Ids \cup {None}]]
  /\ ops \in 0..MaxOps
  /\ faults \in 0..MaxFaults

Empty == [file |-> "none", tables |-> {}, versions |-> {}, columns |-> {}]

Closed == [pc |-> "closed", have |-> {}, i |-> 1, name |-> None, on |-> None, with |-> None, id |-> None]

(* An earlier release has left artifacts behind.                           *)
Init ==
  /\ schema \in Legacy \cup {Empty}
  /\ kept = FALSE
  /\ rows = [hosts |-> IF schema.file = "written" THEN Hosts ELSE {},
             connections |-> {},
             artifacts |-> IF schema.file = "written" THEN Artifacts ELSE {},
             tags |-> {}, tagged |-> {}, links |-> {}, saved |-> {}, aliases |-> {}]
  /\ proc = [p \in Procs |-> Closed]
  /\ first = schema
  /\ ops = 0
  /\ faults = 0

Goto(p, pc) == proc' = [proc EXCEPT ![p].pc = pc]
-----------------------------------------------------------------------------
(* Catalog::open.                                                          *)

(* Whether the catalog exists is decided before its file may be created.   *)
BeginOpen(p) ==
  /\ proc[p].pc = "closed"
  /\ Goto(p, IF schema.file = "written" THEN "prepare" ELSE "create")
  /\ UNCHANGED <<schema, kept, rows, first, ops, faults>>

Prepare(p) ==
  /\ proc[p].pc \in {"create", "prepare"}
  /\ schema' = [schema EXCEPT !.file = IF @ = "none" THEN "empty" ELSE @]
  /\ Goto(p, IF proc[p].pc = "prepare" THEN "check" ELSE "tables")
  /\ UNCHANGED <<kept, rows, first, ops, faults>>

(* Bug: a catalog without the table of versions is taken for a new one.    *)
RequiresMigrationByVersion ==
  "schema_migrations" \in schema.tables /\ CurrentVersion \notin schema.versions

RequiresMigration ==
  \/ "schema_migrations" \notin schema.tables
  \/ \A v \in schema.versions : v < CurrentVersion

Check(p) ==
  /\ proc[p].pc = "check"
  /\ Goto(p, IF RequiresMigration THEN "backup" ELSE "tables")
  /\ UNCHANGED <<schema, kept, rows, first, ops, faults>>

(* VACUUM INTO a new file; open fails when it does.                        *)
BackUp(p) ==
  /\ proc[p].pc = "backup"
  /\ kept' = (kept \/ schema = first)
  /\ Goto(p, "tables")
  /\ UNCHANGED <<schema, rows, first, ops, faults>>

(* The next table that does not exist; a new providers table has all the   *)
(* columns.                                                                *)
CreateTable(p) ==
  /\ proc[p].pc = "tables"
  /\ \/ /\ schema.tables = AllTables
        /\ schema' = [schema EXCEPT !.file = "written"]
        /\ Goto(p, "version1")
     \/ \E i \in DOMAIN Tables :
          /\ Tables[i] \notin schema.tables
          /\ \A j \in 1..(i - 1) : Tables[j] \in schema.tables
          /\ schema' = [schema EXCEPT
               !.file = "written",
               !.tables = @ \cup {Tables[i]},
               !.columns = IF Tables[i] = "providers" THEN AllColumns ELSE @]
          /\ UNCHANGED proc
  /\ UNCHANGED <<kept, rows, first, ops, faults>>

FirstVersion(p) ==
  /\ proc[p].pc = "version1"
  /\ schema' = [schema EXCEPT !.versions = @ \cup {1}]
  /\ Goto(p, "columns")
  /\ UNCHANGED <<kept, rows, first, ops, faults>>

(* Bug: the columns are added without looking which there are.             *)
ReadNoColumns(p) ==
  /\ proc[p].pc = "columns"
  /\ proc' = [proc EXCEPT ![p].pc = "alter", ![p].have = {}, ![p].i = 1]
  /\ UNCHANGED <<schema, kept, rows, first, ops, faults>>

ReadColumns(p) ==
  /\ proc[p].pc = "columns"
  /\ proc' = [proc EXCEPT ![p].pc = "alter", ![p].have = schema.columns, ![p].i = 1]
  /\ UNCHANGED <<schema, kept, rows, first, ops, faults>>

(* Bug: the last column is passed over.                                    *)
AlterAllButLast(p) ==
  /\ proc[p].pc = "alter"
  /\ UNCHANGED <<kept, rows, first, ops, faults>>
  /\ IF proc[p].i >= Len(Columns)
     THEN Goto(p, "versions") /\ UNCHANGED schema
     ELSE /\ schema' = [schema EXCEPT !.columns = @ \cup {Columns[proc[p].i]}]
          /\ proc' = [proc EXCEPT ![p].i = @ + 1]

(* Each column that was missing when they were read is added; the          *)
(* statement fails, and open with it, when another process has added it    *)
(* since.                                                                  *)
Alter(p) ==
  LET i == proc[p].i IN
  /\ proc[p].pc = "alter"
  /\ \/ /\ i > Len(Columns)
        /\ proc' = [proc EXCEPT ![p] = [Closed EXCEPT !.pc = "versions"]]
        /\ UNCHANGED schema
     \/ /\ i <= Len(Columns)
        /\ Columns[i] \in proc[p].have
        /\ proc' = [proc EXCEPT ![p].i = @ + 1]
        /\ UNCHANGED schema
     \/ /\ i <= Len(Columns)
        /\ Columns[i] \notin proc[p].have
        /\ IF Columns[i] \in schema.columns
           THEN /\ proc' = [proc EXCEPT ![p] = Closed]
                /\ UNCHANGED schema
           ELSE /\ proc' = [proc EXCEPT ![p].i = @ + 1]
                /\ schema' = [schema EXCEPT !.columns = @ \cup {Columns[i]}]
  /\ UNCHANGED <<kept, rows, first, ops, faults>>

(* Bug: a version past the current one is recorded too.                    *)
RecordVersionPast(p) ==
  /\ proc[p].pc = "versions"
  /\ LET v == Cardinality(schema.versions) + 1 IN
       IF v > CurrentVersion + 1
       THEN Goto(p, "open") /\ UNCHANGED schema
       ELSE schema' = [schema EXCEPT !.versions = @ \cup {v}] /\ UNCHANGED proc
  /\ UNCHANGED <<kept, rows, first, ops, faults>>

(* The versions from 2 on, one statement each, in their order.             *)
RecordVersion(p) ==
  /\ proc[p].pc = "versions"
  /\ \/ /\ 1..CurrentVersion \subseteq schema.versions
        /\ Goto(p, "open")
        /\ UNCHANGED schema
     \/ \E v \in (1..CurrentVersion) \ schema.versions :
          /\ 1..(v - 1) \subseteq schema.versions
          /\ schema' = [schema EXCEPT !.versions = @ \cup {v}]
          /\ UNCHANGED proc
  /\ UNCHANGED <<kept, rows, first, ops, faults>>

(* A statement fails or the process dies; what was written stays.          *)
Stops(p) ==
  /\ faults < MaxFaults
  /\ proc[p].pc # "closed"
  /\ faults' = faults + 1
  /\ proc' = [proc EXCEPT ![p] = Closed]
  /\ UNCHANGED <<schema, kept, rows, first, ops>>

Close(p) ==
  /\ proc[p].pc = "open"
  /\ proc' = [proc EXCEPT ![p] = Closed]
  /\ UNCHANGED <<schema, kept, rows, first, ops, faults>>
-----------------------------------------------------------------------------
(* The operations.  One that has several statements waits in proc between  *)
(* them, with what it read and the id it made up.                          *)

Begin(p) ==
  /\ proc[p].pc = "open"
  /\ ops < MaxOps
  /\ ops' = ops + 1

Wait(p, pc, name, on, with, id) ==
  proc' = [proc EXCEPT ![p].pc = pc, ![p].name = name, ![p].on = on,
                       ![p].with = with, ![p].id = id]

Back(p) == Wait(p, "open", None, None, None, None)

(* The id of the row with this key, or a new one.                          *)
IdOf(table, key) ==
  IF \E row \in table : row[1] = key
  THEN (CHOOSE row \in table : row[1] = key)[2]
  ELSE ops + 1

(* register_host, with what an ingest registers; register_connection goes  *)
(* on with a statement of its own.                                         *)
RegisterHost(p, h) ==
  /\ Begin(p)
  /\ rows' = [rows EXCEPT !.hosts = @ \cup {h}]
  /\ Wait(p, "connect", None, h, None, None)
  /\ UNCHANGED <<schema, kept, first, faults>>

RegisterConnection(p) ==
  /\ proc[p].pc = "connect"
  /\ rows' = [rows EXCEPT !.connections = @ \cup {proc[p].on}]
  /\ Back(p)
  /\ UNCHANGED <<schema, kept, first, ops, faults>>

(* ingest, in one transaction.                                             *)
Ingest(p, a) ==
  /\ Begin(p)
  /\ rows' = [rows EXCEPT !.hosts = @ \cup {HostOf[a]}, !.artifacts = @ \cup {a}]
  /\ UNCHANGED <<schema, kept, proc, first, faults>>

(* Bug: an artifact is deleted and the rows about it stay.                 *)
ForgetOnly(p, a) ==
  /\ Begin(p)
  /\ a \in rows.artifacts
  /\ rows' = [rows EXCEPT !.artifacts = @ \ {a}]
  /\ UNCHANGED <<schema, kept, proc, first, faults>>

(* forget_memory_record, in one transaction; tags and links go with the    *)
(* artifact (ON DELETE CASCADE).                                           *)
Forget(p, a) ==
  /\ Begin(p)
  /\ a \in rows.artifacts
  /\ rows' = [rows EXCEPT !.artifacts = @ \ {a},
                          !.tagged = {t \in @ : t[1] # a},
                          !.links = {l \in @ : a \notin {l[1], l[2]}}]
  /\ UNCHANGED <<schema, kept, proc, first, faults>>

(* save_search: the row of the name is looked up; the insert then keeps    *)
(* the id of a row that has the name by now.                               *)
LookUpSearch(p, n) ==
  /\ Begin(p)
  /\ Wait(p, "save", n, None, None, IdOf(rows.saved, n))
  /\ UNCHANGED <<schema, kept, rows, first, faults>>

SaveSearch(p) ==
  /\ proc[p].pc = "save"
  /\ rows' = [rows EXCEPT !.saved =
       IF \E s \in @ : s[1] = proc[p].name THEN @ ELSE @ \cup {<<proc[p].name, proc[p].id>>}]
  /\ Back(p)
  /\ UNCHANGED <<schema, kept, first, ops, faults>>

DeleteSearch(p) ==
  /\ Begin(p)
  /\ \E s \in rows.saved : rows' = [rows EXCEPT !.saved = @ \ {s}]
  /\ UNCHANGED <<schema, kept, proc, first, faults>>

(* set_host_alias, of a known host; an alias of another host is refused by *)
(* the index.  Hosts are never deleted, so the check needs no step.        *)
SetAlias(p, h, n) ==
  /\ Begin(p)
  /\ h \in rows.hosts
  /\ \A x \in rows.aliases : x[2] = n => x[1] = h
  /\ rows' = [rows EXCEPT !.aliases = {x \in @ : x[1] # h} \cup {<<h, n>>}]
  /\ UNCHANGED <<schema, kept, proc, first, faults>>

DeleteAlias(p, h) ==
  /\ Begin(p)
  /\ rows' = [rows EXCEPT !.aliases = {x \in @ : x[1] # h}]
  /\ UNCHANGED <<schema, kept, proc, first, faults>>

(* tag_artifact: the artifact and the tag are looked up.                   *)
LookUpTag(p, a, n) ==
  /\ Begin(p)
  /\ a \in rows.artifacts
  /\ Wait(p, "tag-name", n, a, None, IdOf(rows.tags, n))
  /\ UNCHANGED <<schema, kept, rows, first, faults>>

(* INSERT OR IGNORE: the row of another process with that name stays.      *)
InsertTag(p) ==
  /\ proc[p].pc = "tag-name"
  /\ rows' = [rows EXCEPT !.tags =
       IF \E t \in @ : t[1] = proc[p].name THEN @ ELSE @ \cup {<<proc[p].name, proc[p].id>>}]
  /\ Goto(p, "tag-pair")
  /\ UNCHANGED <<schema, kept, first, ops, faults>>

(* The foreign keys are checked here: the statement fails when the         *)
(* artifact has gone or the tag has the id of another process.             *)
InsertPair(p) ==
  /\ proc[p].pc = "tag-pair"
  /\ rows' = [rows EXCEPT !.tagged =
       IF proc[p].on \in rows.artifacts /\ \E t \in rows.tags : t[2] = proc[p].id
       THEN @ \cup {<<proc[p].on, proc[p].id>>} ELSE @]
  /\ Back(p)
  /\ UNCHANGED <<schema, kept, first, ops, faults>>

Untag(p) ==
  /\ Begin(p)
  /\ \E t \in rows.tagged : rows' = [rows EXCEPT !.tagged = @ \ {t}]
  /\ UNCHANGED <<schema, kept, proc, first, faults>>

(* link_cross_host_artifacts: both artifacts are looked up, and put in the *)
(* order of their ids.  Two artifacts may have a link of each kind.        *)
LookUpLink(p, a, b, kind) ==
  /\ Begin(p)
  /\ {a, b} \subseteq rows.artifacts
  /\ HostOf[a] # HostOf[b]
  /\ LET left  == IF Rank[a] < Rank[b] THEN a ELSE b
         right == IF Rank[a] < Rank[b] THEN b ELSE a
         table == {<< <<l[1], l[2], l[3]>>, l[4]>> : l \in rows.links}
     IN  Wait(p, "link", kind, left, right, IdOf(table, <<left, right, kind>>))
  /\ UNCHANGED <<schema, kept, rows, first, faults>>

(* INSERT OR IGNORE: a link of the same artifacts and kind stays; the      *)
(* statement fails when an artifact has gone.                              *)
InsertLink(p) ==
  LET q == proc[p] IN
  /\ q.pc = "link"
  /\ rows' = [rows EXCEPT !.links =
       IF {q.on, q.with} \subseteq rows.artifacts
          /\ \A l \in @ : <<l[1], l[2], l[3]>> # <<q.on, q.with, q.name>>
       THEN @ \cup {<<q.on, q.with, q.name, q.id>>} ELSE @]
  /\ Back(p)
  /\ UNCHANGED <<schema, kept, first, ops, faults>>

Unlink(p) ==
  /\ Begin(p)
  /\ \E l \in rows.links : rows' = [rows EXCEPT !.links = @ \ {l}]
  /\ UNCHANGED <<schema, kept, proc, first, faults>>

(* create_backup, asked for by the user.                                   *)
CreateBackup(p) ==
  /\ Begin(p)
  /\ kept' = (kept \/ schema = first)
  /\ UNCHANGED <<schema, rows, proc, first, faults>>
-----------------------------------------------------------------------------
OpenStep(p) ==
  \/ Prepare(p) \/ Check(p) \/ BackUp(p) \/ CreateTable(p) \/ FirstVersion(p)
  \/ ReadColumns(p) \/ Alter(p) \/ RecordVersion(p)

OperationStep(p) ==
  RegisterConnection(p) \/ SaveSearch(p) \/ InsertTag(p) \/ InsertPair(p) \/ InsertLink(p)

BeginOperation(p) ==
  \/ \E h \in Hosts : RegisterHost(p, h) \/ DeleteAlias(p, h)
  \/ \E h \in Hosts, n \in Names : SetAlias(p, h, n)
  \/ \E a \in Artifacts : Ingest(p, a) \/ Forget(p, a)
  \/ \E n \in Names : LookUpSearch(p, n)
  \/ \E a \in Artifacts, n \in Names : LookUpTag(p, a, n)
  \/ \E a, b \in Artifacts, kind \in Kinds : LookUpLink(p, a, b, kind)
  \/ DeleteSearch(p) \/ Untag(p) \/ Unlink(p) \/ CreateBackup(p)

Next ==
  \E p \in Procs :
    \/ BeginOpen(p) \/ OpenStep(p) \/ Stops(p) \/ Close(p)
    \/ BeginOperation(p) \/ OperationStep(p)

Spec == Init /\ [][Next]_vars

(* A process that has begun runs on, and one is opened again and again: by *)
(* each MCP request and each refresh of the desktop.                       *)
Fairness ==
  \A p \in Procs : WF_vars(BeginOpen(p)) /\ WF_vars(OpenStep(p)) /\ WF_vars(OperationStep(p))

FairSpec == Spec /\ Fairness
-----------------------------------------------------------------------------
(* A version says what it stands for: once one is recorded the tables are  *)
(* there, from version 2 on the columns of providers too (an earlier       *)
(* release recorded versions for its own tables and columns), and a        *)
(* process that has the catalog open finds every table, column and         *)
(* version, whichever other process migrated it, failed half-way or        *)
(* migrates it still.                                                      *)
SchemaComplete ==
  /\ 1 \in schema.versions => schema.tables = AllTables \/ first.versions # {}
  /\ \A v \in schema.versions \ {1} : v \in first.versions \/ schema.columns = AllColumns
  /\ \A p \in Procs :
       proc[p].pc \in {"open", "connect", "tag-name", "tag-pair", "link", "save"}
         => /\ schema.tables = AllTables
            /\ schema.columns = AllColumns
            /\ CurrentVersion \in schema.versions

(* "The Controller creates a consistent, private SQLite snapshot before a  *)
(* schema migration" (README.md:212): once the schema of an earlier        *)
(* release has been changed, a backup holds the catalog as it was.         *)
LegacyKept ==
  first.file = "written" /\ schema # first => kept

(* What the user keeps about artifacts and hosts refers to artifacts and   *)
(* hosts that are there; a name belongs to one tag and one saved search,   *)
(* and two artifacts of different hosts have at most one link of a kind,   *)
(* whichever of them was named first.                                      *)
AnnotationsHold ==
  /\ \A t \in rows.tagged : t[1] \in rows.artifacts /\ \E x \in rows.tags : x[2] = t[2]
  /\ \A l \in rows.links :
       /\ {l[1], l[2]} \subseteq rows.artifacts
       /\ HostOf[l[1]] # HostOf[l[2]]
  /\ \A l, m \in rows.links : {l[1], l[2]} = {m[1], m[2]} /\ l[3] = m[3] => l = m
  /\ \A x, y \in rows.tags : x[1] = y[1] \/ x[2] = y[2] => x = y
  /\ \A x, y \in rows.saved : x[1] = y[1] \/ x[2] = y[2] => x = y
  /\ rows.connections \cup {x[1] : x \in rows.aliases} \subseteq rows.hosts
  /\ \A x, y \in rows.aliases : x[2] = y[2] => x = y

(* Whoever else opens the catalog at the same time, a process that opens   *)
(* it again gets it open in the end.                                       *)
EventuallyOpens == \A p \in Procs : []<>(proc[p].pc = "open")
=============================================================================
