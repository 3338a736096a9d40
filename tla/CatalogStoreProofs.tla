------------------------- MODULE CatalogStoreProofs -------------------------
(***************************************************************************)
(* Theorems about CatalogStore, for every set of processes, artifacts and  *)
(* names, every list of tables and columns, every schema an earlier        *)
(* release may have left, and any number of operations and faults.         *)
(***************************************************************************)
EXTENDS CatalogStore, TLAPS

Rows ==
  [hosts : SUBSET Hosts, connections : SUBSET Hosts, artifacts : SUBSET Artifacts,
   tags : SUBSET (Names \X Ids), tagged : SUBSET (Artifacts \X Ids),
   links : SUBSET (Artifacts \X Artifacts \X Kinds \X Ids),
   saved : SUBSET (Names \X Ids), aliases : SUBSET (Hosts \X Names)]

Process ==
  [pc : PCs, have : SUBSET AllColumns, i : 1..(Len(Columns) + 1),
   name : Names \cup Kinds \cup {None}, on : Artifacts \cup Hosts \cup {None},
   with : Artifacts \cup {None}, id : Ids \cup {None}]

(* The type invariant with a name for each type.                           *)
Types ==
  /\ schema \in Schemas
  /\ kept \in BOOLEAN
  /\ rows \in Rows
  /\ proc \in [Procs -> Process]
  /\ ops \in 0..MaxOps
  /\ faults \in 0..MaxFaults

LEMMA TypeNames == (TypeOK <=> Types) /\ (TypeOK' <=> Types')
BY DEF TypeOK, Types, Rows, Process

LEMMA ColumnList ==
  /\ Len(Columns) \in Nat
  /\ AllColumns = {Columns[i] : i \in 1..Len(Columns)}
<1>1. Len(Columns) \in Nat /\ DOMAIN Columns = 1..Len(Columns)
  BY CatalogAssumption
<1> QED
  BY <1>1 DEF AllColumns, Range

LEMMA TableNames == \A i \in DOMAIN Tables : Tables[i] \in AllTables
BY DEF AllTables, Range

LEMMA HostOfType == \A a \in Artifacts : HostOf[a] \in Hosts
BY DEF Hosts

LEMMA ClosedType == Closed \in Process
BY ColumnList DEF Closed, Process, PCs

LEMMA InitType == Init => Types
<1> SUFFICES ASSUME Init PROVE Types
  OBVIOUS
<1>1. Empty \in Schemas
  BY DEF Empty, Schemas
<1>2. schema \in Schemas
  BY <1>1, CatalogAssumption DEF Init
<1>3. rows \in Rows
  BY DEF Init, Rows
<1>4. proc \in [Procs -> Process]
  BY ClosedType DEF Init
<1>5. ops \in 0..MaxOps /\ faults \in 0..MaxFaults
  BY CatalogAssumption DEF Init
<1>6. kept \in BOOLEAN
  BY DEF Init
<1> QED
  BY <1>2, <1>3, <1>4, <1>5, <1>6 DEF Types

(* What Goto and Wait write is a process again.                            *)
LEMMA GotoType ==
  ASSUME proc \in [Procs -> Process], NEW p \in Procs, NEW pc \in PCs, Goto(p, pc)
  PROVE  proc' \in [Procs -> Process]
BY DEF Goto, Process

LEMMA WaitType ==
  ASSUME proc \in [Procs -> Process], NEW p \in Procs, NEW pc \in PCs,
         NEW name \in Names \cup Kinds \cup {None}, NEW on \in Artifacts \cup Hosts \cup {None},
         NEW with \in Artifacts \cup {None}, NEW id \in Ids \cup {None},
         Wait(p, pc, name, on, with, id)
  PROVE  proc' \in [Procs -> Process]
<1>1. [proc[p] EXCEPT !.pc = pc, !.name = name, !.on = on, !.with = with, !.id = id] \in Process
  BY DEF Process
<1> QED
  BY <1>1 DEF Wait

LEMMA BackType ==
  ASSUME proc \in [Procs -> Process], NEW p \in Procs, Back(p)
  PROVE  proc' \in [Procs -> Process]
BY WaitType DEF Back, PCs

LEMMA BeginType ==
  ASSUME Types, NEW p \in Procs, Begin(p)
  PROVE  ops' \in 0..MaxOps /\ ops + 1 \in Ids
BY CatalogAssumption DEF Types, Begin, Ids

LEMMA IdOfType ==
  ASSUME Types, NEW p \in Procs, Begin(p), NEW K, NEW table \in SUBSET (K \X Ids), NEW key \in K
  PROVE  IdOf(table, key) \in Ids
<1>1. CASE \E row \in table : row[1] = key
  <2>1. (CHOOSE row \in table : row[1] = key) \in table
    BY <1>1
  <2> QED
    BY <1>1, <2>1 DEF IdOf
<1>2. CASE ~ \E row \in table : row[1] = key
  BY <1>2, BeginType DEF IdOf
<1> QED
  BY <1>1, <1>2
-----------------------------------------------------------------------------
(* Opening.                                                                *)
LEMMA OpenType ==
  ASSUME Types, NEW p \in Procs, BeginOpen(p) \/ OpenStep(p) \/ Stops(p) \/ Close(p)
  PROVE  Types'
<1> USE DEF Types
<1>0. proc[p] \in Process
  OBVIOUS
<1>1. CASE BeginOpen(p)
  <2>1. proc' \in [Procs -> Process]
    BY <1>1, GotoType DEF BeginOpen, PCs
  <2> QED
    BY <1>1, <2>1 DEF BeginOpen
<1>2. CASE Prepare(p)
  <2>1. schema' \in Schemas
    BY <1>2 DEF Prepare, Schemas
  <2>2. proc' \in [Procs -> Process]
    BY <1>2, GotoType DEF Prepare, PCs
  <2> QED
    BY <1>2, <2>1, <2>2 DEF Prepare
<1>3. CASE Check(p)
  <2>1. proc' \in [Procs -> Process]
    BY <1>3, GotoType DEF Check, PCs
  <2> QED
    BY <1>3, <2>1 DEF Check
<1>4. CASE BackUp(p)
  <2>1. proc' \in [Procs -> Process]
    BY <1>4, GotoType DEF BackUp, PCs
  <2>2. kept' \in BOOLEAN
    BY <1>4, Zenon DEF BackUp
  <2> QED
    BY <1>4, <2>1, <2>2 DEF BackUp
<1>5. CASE CreateTable(p)
  <2>1. CASE /\ schema' = [schema EXCEPT !.file = "written"]
             /\ Goto(p, "version1")
    BY <1>5, <2>1, GotoType DEF CreateTable, PCs, Schemas
  <2>2. ASSUME NEW i \in DOMAIN Tables,
               schema' = [schema EXCEPT
                 !.file = "written",
                 !.tables = @ \cup {Tables[i]},
                 !.columns = IF Tables[i] = "providers" THEN AllColumns ELSE @],
               UNCHANGED proc
        PROVE  Types'
    <3>1. schema' \in Schemas
      BY <2>2, TableNames DEF Schemas
    <3> QED
      BY <1>5, <2>2, <3>1 DEF CreateTable
  <2> QED
    BY <1>5, <2>1, <2>2 DEF CreateTable
<1>6. CASE FirstVersion(p)
  <2>0. 1 \in 1..CurrentVersion
    BY CatalogAssumption
  <2>1. schema' \in Schemas
    BY <1>6, <2>0 DEF FirstVersion, Schemas
  <2>2. proc' \in [Procs -> Process]
    BY <1>6, GotoType DEF FirstVersion, PCs
  <2> QED
    BY <1>6, <2>1, <2>2 DEF FirstVersion
<1>7. CASE ReadColumns(p)
  <2>1. schema.columns \in SUBSET AllColumns /\ 1 \in 1..(Len(Columns) + 1)
    BY ColumnList DEF Schemas
  <2>2. [proc[p] EXCEPT !.pc = "alter", !.have = schema.columns, !.i = 1] \in Process
    BY <1>0, <2>1 DEF Process, PCs
  <2> QED
    BY <1>7, <2>2 DEF ReadColumns
<1>8. CASE Alter(p)
  <2>1. [Closed EXCEPT !.pc = "versions"] \in Process
    BY ClosedType DEF Process, PCs
  <2>2. proc[p].i \in Nat /\ (proc[p].i <= Len(Columns) => proc[p].i + 1 \in 1..(Len(Columns) + 1))
    BY <1>0, ColumnList DEF Process
  <2>3. proc[p].i <= Len(Columns) => [proc[p] EXCEPT !.i = @ + 1] \in Process
    BY <1>0, <2>2 DEF Process
  <2>4. proc' \in [Procs -> Process]
    BY <1>8, <2>1, <2>3, ClosedType DEF Alter
  <2>5. proc[p].i <= Len(Columns) => Columns[proc[p].i] \in AllColumns
    BY <1>0, <2>2, ColumnList DEF Process
  <2>6. schema' \in Schemas
    BY <1>8, <2>5 DEF Alter, Schemas
  <2> QED
    BY <1>8, <2>4, <2>6 DEF Alter
<1>9. CASE RecordVersion(p)
  <2>1. schema' \in Schemas
    BY <1>9 DEF RecordVersion, Schemas
  <2>2. proc' \in [Procs -> Process]
    BY <1>9, GotoType DEF RecordVersion, PCs
  <2> QED
    BY <1>9, <2>1, <2>2 DEF RecordVersion
<1>10. CASE Stops(p)
  BY <1>10, ClosedType, CatalogAssumption DEF Stops
<1>11. CASE Close(p)
  BY <1>11, ClosedType DEF Close
<1> QED
  BY <1>1, <1>2, <1>3, <1>4, <1>5, <1>6, <1>7, <1>8, <1>9, <1>10, <1>11 DEF OpenStep
-----------------------------------------------------------------------------
(* The operations.  One that waits between two statements has in its       *)
(* process what the second one writes.                                     *)
Waits(q) ==
  /\ proc[q].pc = "connect" => proc[q].on \in rows.hosts
  /\ proc[q].pc \in {"save", "tag-name"} => proc[q].name \in Names
  /\ proc[q].pc \in {"save", "tag-name", "tag-pair", "link"} => proc[q].id \in Ids
  /\ proc[q].pc \in {"tag-name", "tag-pair", "link"} => proc[q].on \in Artifacts
  /\ proc[q].pc = "link"
       => /\ proc[q].with \in Artifacts /\ proc[q].name \in Kinds
          /\ HostOf[proc[q].on] # HostOf[proc[q].with]
          /\ Rank[proc[q].on] < Rank[proc[q].with]

TypesAndWaits == Types /\ \A q \in Procs : Waits(q)

LEMMA WaitsKept ==
  ASSUME TypesAndWaits, Types', NEW p \in Procs, rows.hosts \subseteq rows'.hosts,
         \A q \in Procs \ {p} : proc'[q] = proc[q], Waits(p)'
  PROVE  TypesAndWaits'
<1>1. ASSUME NEW q \in Procs \ {p} PROVE Waits(q)'
  BY <1>1 DEF TypesAndWaits, Waits
<1> QED
  BY <1>1 DEF TypesAndWaits

(* What Back, Wait and Goto leave.                                         *)
LEMMA BackWaits ==
  ASSUME proc \in [Procs -> Process], NEW p \in Procs, Back(p)
  PROVE  /\ \A q \in Procs \ {p} : proc'[q] = proc[q]
         /\ proc'[p].pc = "open"
         /\ Waits(p)'
<1>1. (\A q \in Procs \ {p} : proc'[q] = proc[q]) /\ proc'[p].pc = "open"
  BY DEF Back, Wait, Process
<1> QED
  BY <1>1 DEF Waits

LEMMA WaitWaits ==
  ASSUME proc \in [Procs -> Process], NEW p \in Procs, NEW pc, NEW name, NEW on, NEW with, NEW id,
         Wait(p, pc, name, on, with, id)
  PROVE  /\ \A q \in Procs \ {p} : proc'[q] = proc[q]
         /\ proc'[p].pc = pc /\ proc'[p].name = name /\ proc'[p].on = on
         /\ proc'[p].with = with /\ proc'[p].id = id
BY DEF Wait, Process

(* What the steps of opening do to the processes.                          *)
LEMMA OpenMoves ==
  ASSUME proc \in [Procs -> Process], NEW p \in Procs,
         BeginOpen(p) \/ OpenStep(p) \/ Stops(p) \/ Close(p)
  PROVE  /\ \A q \in Procs \ {p} : proc'[q] = proc[q]
         /\ proc'[p].pc \notin {"connect", "save", "tag-name", "tag-pair", "link"}
<1>1. \A q \in Procs \ {p} : proc'[q] = proc[q]
  BY DEF BeginOpen, OpenStep, Stops, Close, Goto, Prepare, Check, BackUp, CreateTable,
              FirstVersion, ReadColumns, Alter, RecordVersion
<1>2. proc'[p].pc \notin {"connect", "save", "tag-name", "tag-pair", "link"}
  <2>1. CASE BeginOpen(p) \/ Prepare(p) \/ Check(p) \/ BackUp(p) \/ FirstVersion(p)
    BY <2>1 DEF BeginOpen, Goto, Prepare, Check, BackUp, FirstVersion, Process
  <2>2. CASE CreateTable(p)
    BY <2>2 DEF Goto, CreateTable, Process
  <2>3. CASE RecordVersion(p)
    BY <2>3 DEF Goto, RecordVersion, Process
  <2>4. CASE ReadColumns(p)
    BY <2>4 DEF ReadColumns, Process
  <2>5. CASE Alter(p)
    <3>1. proc'[p] = [Closed EXCEPT !.pc = "versions"] \/ proc'[p] = Closed
            \/ proc'[p] = [proc[p] EXCEPT !.i = @ + 1]
      BY <2>5 DEF Alter
    <3>2. proc[p].pc = "alter" /\ proc[p] \in Process
      BY <2>5 DEF Alter
    <3> QED
      BY <3>1, <3>2 DEF Closed, Process
  <2>6. CASE Stops(p) \/ Close(p)
    BY <2>6 DEF Stops, Close, Closed
  <2> QED
    BY <2>1, <2>2, <2>3, <2>4, <2>5, <2>6 DEF OpenStep
<1> QED
  BY <1>1, <1>2

LEMMA OpenWaits ==
  ASSUME TypesAndWaits, NEW p \in Procs, BeginOpen(p) \/ OpenStep(p) \/ Stops(p) \/ Close(p)
  PROVE  TypesAndWaits'
<1>1. Types'
  BY OpenType DEF TypesAndWaits
<1>2. proc \in [Procs -> Process]
  BY DEF TypesAndWaits, Types
<1>3. /\ \A q \in Procs \ {p} : proc'[q] = proc[q]
      /\ proc'[p].pc \notin {"connect", "save", "tag-name", "tag-pair", "link"}
  BY <1>2, OpenMoves
<1>5. rows' = rows
  BY DEF BeginOpen, OpenStep, Stops, Close, Prepare, Check, BackUp, CreateTable,
         FirstVersion, ReadColumns, Alter, RecordVersion
<1>6. Waits(p)'
  BY <1>3 DEF Waits
<1> QED
  BY <1>1, <1>3, <1>5, <1>6, WaitsKept

LEMMA OperationWaits ==
  ASSUME TypesAndWaits, NEW p \in Procs, OperationStep(p)
  PROVE  TypesAndWaits'
<1>0. Types /\ proc[p] \in Process /\ proc \in [Procs -> Process] /\ Waits(p)
  BY DEF TypesAndWaits, Types
<1>1. CASE RegisterConnection(p)
  <2>1. rows.hosts \subseteq Hosts
    BY <1>0 DEF Types, Rows
  <2>2. rows' \in Rows /\ rows'.hosts = rows.hosts
    BY <1>0, <1>1, <2>1 DEF RegisterConnection, Waits, Types, Rows
  <2>3. Types'
    BY <1>0, <1>1, <2>2, BackType DEF RegisterConnection, Types
  <2> QED
    BY <1>0, <1>1, <2>2, <2>3, BackWaits, WaitsKept DEF RegisterConnection
<1>2. CASE SaveSearch(p)
  <2>1. <<proc[p].name, proc[p].id>> \in Names \X Ids
    BY <1>0, <1>2 DEF SaveSearch, Waits
  <2>2. rows' \in Rows /\ rows'.hosts = rows.hosts
    BY <1>0, <1>2, <2>1 DEF SaveSearch, Types, Rows
  <2>3. Types'
    BY <1>0, <1>2, <2>2, BackType DEF SaveSearch, Types
  <2> QED
    BY <1>0, <1>2, <2>2, <2>3, BackWaits, WaitsKept DEF SaveSearch
<1>3. CASE InsertTag(p)
  <2>1. <<proc[p].name, proc[p].id>> \in Names \X Ids
    BY <1>0, <1>3 DEF InsertTag, Waits
  <2>2. rows' \in Rows /\ rows'.hosts = rows.hosts
    BY <1>0, <1>3, <2>1 DEF InsertTag, Types, Rows
  <2>3. proc' \in [Procs -> Process]
    BY <1>0, <1>3, GotoType DEF InsertTag, PCs
  <2>4. Types'
    BY <1>0, <1>3, <2>2, <2>3 DEF InsertTag, Types
  <2>5. /\ \A q \in Procs \ {p} : proc'[q] = proc[q]
        /\ proc'[p].pc = "tag-pair" /\ proc'[p].id = proc[p].id /\ proc'[p].on = proc[p].on
    BY <1>0, <1>3 DEF InsertTag, Goto, Process
  <2>6. Waits(p)'
    BY <1>0, <1>3, <2>5 DEF Waits, InsertTag
  <2> QED
    BY <2>2, <2>4, <2>5, <2>6, WaitsKept
<1>4. CASE InsertPair(p)
  <2>1. <<proc[p].on, proc[p].id>> \in Artifacts \X Ids
    BY <1>0, <1>4 DEF InsertPair, Waits
  <2>2. rows' \in Rows /\ rows'.hosts = rows.hosts
    BY <1>0, <1>4, <2>1 DEF InsertPair, Types, Rows
  <2>3. Types'
    BY <1>0, <1>4, <2>2, BackType DEF InsertPair, Types
  <2> QED
    BY <1>0, <1>4, <2>2, <2>3, BackWaits, WaitsKept DEF InsertPair
<1>5. CASE InsertLink(p)
  <2>1. <<proc[p].on, proc[p].with, proc[p].name, proc[p].id>>
          \in Artifacts \X Artifacts \X Kinds \X Ids
    BY <1>0, <1>5 DEF InsertLink, Waits
  <2>2. rows' \in Rows /\ rows'.hosts = rows.hosts
    BY <1>0, <1>5, <2>1 DEF InsertLink, Types, Rows
  <2>3. Types'
    BY <1>0, <1>5, <2>2, BackType DEF InsertLink, Types
  <2> QED
    BY <1>0, <1>5, <2>2, <2>3, BackWaits, WaitsKept DEF InsertLink
<1> QED
  BY <1>1, <1>2, <1>3, <1>4, <1>5 DEF OperationStep

(* An operation of one statement leaves its process as it is.              *)
LEMMA OneStatement ==
  ASSUME TypesAndWaits, NEW p \in Procs, Begin(p), rows' \in Rows, rows.hosts \subseteq rows'.hosts,
         kept' \in BOOLEAN, UNCHANGED <<schema, proc, faults>>
  PROVE  TypesAndWaits'
<1>1. Types'
  BY BeginType, Zenon DEF TypesAndWaits, Types
<1>2. Waits(p)'
  BY DEF TypesAndWaits, Waits
<1> QED
  BY <1>1, <1>2, WaitsKept

(* One of two statements waits with what the second one writes.            *)
LEMMA TwoStatements ==
  ASSUME TypesAndWaits, NEW p \in Procs, Begin(p), rows' \in Rows, rows.hosts \subseteq rows'.hosts,
         NEW pc \in {"connect", "save", "tag-name", "link"},
         NEW name \in Names \cup Kinds \cup {None}, NEW on \in Artifacts \cup Hosts \cup {None},
         NEW with \in Artifacts \cup {None}, NEW id \in Ids \cup {None},
         Wait(p, pc, name, on, with, id),
         pc = "connect" => on \in rows'.hosts,
         pc \in {"save", "tag-name"} => name \in Names,
         pc \in {"save", "tag-name", "link"} => id \in Ids,
         pc \in {"tag-name", "link"} => on \in Artifacts,
         pc = "link" => /\ with \in Artifacts /\ name \in Kinds
                        /\ HostOf[on] # HostOf[with] /\ Rank[on] < Rank[with],
         UNCHANGED <<schema, kept, faults>>
  PROVE  TypesAndWaits'
<1>0. Types /\ proc \in [Procs -> Process]
  BY DEF TypesAndWaits, Types
<1>1. pc \in PCs
  BY DEF PCs
<1>2. proc' \in [Procs -> Process]
  BY <1>0, <1>1, WaitType
<1>3. Types'
  BY <1>0, <1>2, BeginType DEF Types
<1>4. Waits(p)'
  BY <1>0, WaitWaits DEF Waits
<1> QED
  BY <1>0, <1>3, <1>4, WaitWaits, WaitsKept

LEMMA BeginWaits ==
  ASSUME TypesAndWaits, NEW p \in Procs, BeginOperation(p)
  PROVE  TypesAndWaits'
<1>0. Types /\ rows \in Rows /\ kept \in BOOLEAN
  BY DEF TypesAndWaits, Types
<1>1. ASSUME NEW h \in Hosts, RegisterHost(p, h) PROVE TypesAndWaits'
  <2>1. rows' \in Rows /\ rows'.hosts = rows.hosts \cup {h}
    BY <1>0, <1>1 DEF RegisterHost, Rows
  <2> QED
    BY <1>1, <2>1, TwoStatements DEF RegisterHost
<1>2. ASSUME NEW h \in Hosts, DeleteAlias(p, h) PROVE TypesAndWaits'
  <2>1. rows' \in Rows /\ rows'.hosts = rows.hosts
    BY <1>0, <1>2 DEF DeleteAlias, Rows
  <2> QED
    BY <1>0, <1>2, <2>1, OneStatement DEF DeleteAlias
<1>3. ASSUME NEW h \in Hosts, NEW n \in Names, SetAlias(p, h, n) PROVE TypesAndWaits'
  <2>1. rows' \in Rows /\ rows'.hosts = rows.hosts
    BY <1>0, <1>3 DEF SetAlias, Rows
  <2> QED
    BY <1>0, <1>3, <2>1, OneStatement DEF SetAlias
<1>4. ASSUME NEW a \in Artifacts, Ingest(p, a) PROVE TypesAndWaits'
  <2>1. rows' \in Rows /\ rows'.hosts = rows.hosts \cup {HostOf[a]}
    BY <1>0, <1>4, HostOfType DEF Ingest, Rows
  <2> QED
    BY <1>0, <1>4, <2>1, OneStatement DEF Ingest
<1>5. ASSUME NEW a \in Artifacts, Forget(p, a) PROVE TypesAndWaits'
  <2>1. rows' \in Rows /\ rows'.hosts = rows.hosts
    BY <1>0, <1>5 DEF Forget, Rows
  <2> QED
    BY <1>0, <1>5, <2>1, OneStatement DEF Forget
<1>6. ASSUME NEW n \in Names, LookUpSearch(p, n) PROVE TypesAndWaits'
  <2>1. rows.saved \in SUBSET (Names \X Ids)
    BY <1>0 DEF Rows
  <2>2. IdOf(rows.saved, n) \in Ids
    BY <1>0, <1>6, <2>1, IdOfType DEF LookUpSearch
  <2> QED
    BY <1>0, <1>6, <2>2, TwoStatements DEF LookUpSearch
<1>7. ASSUME NEW a \in Artifacts, NEW n \in Names, LookUpTag(p, a, n) PROVE TypesAndWaits'
  <2>1. rows.tags \in SUBSET (Names \X Ids)
    BY <1>0 DEF Rows
  <2>2. IdOf(rows.tags, n) \in Ids
    BY <1>0, <1>7, <2>1, IdOfType DEF LookUpTag
  <2> QED
    BY <1>0, <1>7, <2>2, TwoStatements DEF LookUpTag
<1>8. ASSUME NEW a \in Artifacts, NEW b \in Artifacts, NEW kind \in Kinds, LookUpLink(p, a, b, kind)
      PROVE  TypesAndWaits'
  <2> DEFINE left  == IF Rank[a] < Rank[b] THEN a ELSE b
             right == IF Rank[a] < Rank[b] THEN b ELSE a
             table == {<< <<l[1], l[2], l[3]>>, l[4]>> : l \in rows.links}
             id    == IdOf(table, <<left, right, kind>>)
  <2>0. a # b /\ HostOf[a] # HostOf[b]
    BY <1>8 DEF LookUpLink
  <2>9. Rank[a] \in Nat /\ Rank[b] \in Nat /\ Rank[a] # Rank[b]
    BY <2>0, CatalogAssumption DEF IsInjective
  <2>1. /\ left \in Artifacts /\ right \in Artifacts
        /\ HostOf[left] # HostOf[right] /\ Rank[left] < Rank[right]
    BY <2>0, <2>9
  <2>2. rows.links \in SUBSET (Artifacts \X Artifacts \X Kinds \X Ids)
    BY <1>0 DEF Rows
  <2>3. table \in SUBSET ((Artifacts \X Artifacts \X Kinds) \X Ids)
    BY <2>2
  <2>4. <<left, right, kind>> \in Artifacts \X Artifacts \X Kinds
    BY <2>1
  <2>5. Begin(p) /\ Wait(p, "link", kind, left, right, id) /\ UNCHANGED <<schema, kept, rows, faults>>
    BY <1>8 DEF LookUpLink
  <2> HIDE DEF left, right, table
  <2>6. id \in Ids
    BY <1>0, <2>3, <2>4, <2>5, IdOfType
  <2> HIDE DEF id
  <2> QED
    BY <1>0, <2>1, <2>5, <2>6, TwoStatements
<1>9. CASE DeleteSearch(p)
  <2>1. rows' \in Rows /\ rows'.hosts = rows.hosts
    BY <1>0, <1>9 DEF DeleteSearch, Rows
  <2> QED
    BY <1>0, <1>9, <2>1, OneStatement DEF DeleteSearch
<1>10. CASE Untag(p)
  <2>1. rows' \in Rows /\ rows'.hosts = rows.hosts
    BY <1>0, <1>10 DEF Untag, Rows
  <2> QED
    BY <1>0, <1>10, <2>1, OneStatement DEF Untag
<1>11. CASE Unlink(p)
  <2>1. rows' \in Rows /\ rows'.hosts = rows.hosts
    BY <1>0, <1>11 DEF Unlink, Rows
  <2> QED
    BY <1>0, <1>11, <2>1, OneStatement DEF Unlink
<1>12. CASE CreateBackup(p)
  <2>1. kept' \in BOOLEAN
    BY <1>12, Zenon DEF CreateBackup
  <2> QED
    BY <1>0, <1>12, <2>1, OneStatement DEF CreateBackup
<1> QED
  BY <1>1, <1>2, <1>3, <1>4, <1>5, <1>6, <1>7, <1>8, <1>9, <1>10, <1>11, <1>12 DEF BeginOperation

LEMMA NextWaits == TypesAndWaits /\ [Next]_vars => TypesAndWaits'
<1> SUFFICES ASSUME TypesAndWaits, [Next]_vars PROVE TypesAndWaits'
  OBVIOUS
<1>1. CASE Next
  BY <1>1, OpenWaits, OperationWaits, BeginWaits DEF Next
<1>2. CASE UNCHANGED vars
  BY <1>2 DEF vars, TypesAndWaits, Types, Waits
<1> QED
  BY <1>1, <1>2

LEMMA AlwaysWaits == Spec => []TypesAndWaits
<1>1. Init => TypesAndWaits
  <2> SUFFICES ASSUME Init PROVE TypesAndWaits
    OBVIOUS
  <2>1. \A q \in Procs : proc[q].pc = "closed"
    BY DEF Init, Closed
  <2> QED
    BY <2>1, InitType DEF TypesAndWaits, Waits
<1> QED
  BY <1>1, NextWaits, PTL DEF Spec

(* Whatever the processes do to the catalog and to each other, its schema, *)
(* rows and the processes themselves keep their types.                     *)
THEOREM TypeCorrect == Spec => []TypeOK
<1>1. TypesAndWaits => TypeOK
  BY TypeNames DEF TypesAndWaits
<1> QED
  BY <1>1, AlwaysWaits, PTL
-----------------------------------------------------------------------------
(* The schema.                                                             *)
Ready == {"open", "connect", "tag-name", "tag-pair", "link", "save"}

(* Operations and closing leave the schema alone, and a process that was   *)
(* ready is ready after them or closed; they leave the others alone.       *)
LEMMA OperationsAfterOpen ==
  ASSUME TypesAndWaits, NEW p \in Procs,
         BeginOperation(p) \/ OperationStep(p)
  PROVE  /\ UNCHANGED <<schema, first>>
         /\ \A q \in Procs \ {p} : proc'[q] = proc[q]
         /\ proc[p].pc \in Ready /\ proc'[p].pc \in Ready
<1>0. proc \in [Procs -> Process]
  BY DEF TypesAndWaits, Types
<1>1. CASE OperationStep(p)
  <2>1. CASE InsertTag(p)
    BY <1>0, <2>1 DEF InsertTag, Goto, Process, Ready
  <2>2. CASE ~InsertTag(p)
    BY <1>0, <1>1, <2>2, BackWaits
       DEF OperationStep, RegisterConnection, SaveSearch, InsertPair, InsertLink, Ready
  <2> QED
    BY <2>1, <2>2
<1>2. ASSUME NEW h \in Hosts, RegisterHost(p, h)
      PROVE  /\ UNCHANGED <<schema, first>>
             /\ \A q \in Procs \ {p} : proc'[q] = proc[q]
             /\ proc[p].pc \in Ready /\ proc'[p].pc \in Ready
  BY <1>0, <1>2, WaitWaits DEF RegisterHost, Begin, Ready
<1>3. ASSUME NEW n \in Names, LookUpSearch(p, n)
      PROVE  /\ UNCHANGED <<schema, first>>
             /\ \A q \in Procs \ {p} : proc'[q] = proc[q]
             /\ proc[p].pc \in Ready /\ proc'[p].pc \in Ready
  BY <1>0, <1>3, WaitWaits DEF LookUpSearch, Begin, Ready
<1>4. ASSUME NEW a \in Artifacts, NEW n \in Names, LookUpTag(p, a, n)
      PROVE  /\ UNCHANGED <<schema, first>>
             /\ \A q \in Procs \ {p} : proc'[q] = proc[q]
             /\ proc[p].pc \in Ready /\ proc'[p].pc \in Ready
  BY <1>0, <1>4, WaitWaits DEF LookUpTag, Begin, Ready
<1>5. ASSUME NEW a \in Artifacts, NEW b \in Artifacts, NEW kind \in Kinds, LookUpLink(p, a, b, kind)
      PROVE  /\ UNCHANGED <<schema, first>>
             /\ \A q \in Procs \ {p} : proc'[q] = proc[q]
             /\ proc[p].pc \in Ready /\ proc'[p].pc \in Ready
  BY <1>0, <1>5, WaitWaits DEF LookUpLink, Begin, Ready
<1>6. ASSUME Begin(p), UNCHANGED <<schema, first, proc>>
      PROVE  /\ UNCHANGED <<schema, first>>
             /\ \A q \in Procs \ {p} : proc'[q] = proc[q]
             /\ proc[p].pc \in Ready /\ proc'[p].pc \in Ready
  BY <1>6 DEF Begin, Ready
<1>7. CASE BeginOperation(p)
  BY <1>7, <1>2, <1>3, <1>4, <1>5, <1>6
     DEF BeginOperation, DeleteAlias, SetAlias, Ingest, Forget, DeleteSearch, Untag, Unlink,
         CreateBackup
<1> QED
  BY <1>1, <1>7

(* What the versions recorded say, and how far the schema is when a        *)
(* process has come to a step of migrate.                                  *)
VersionsTell ==
  /\ 1 \in schema.versions => schema.tables = AllTables \/ first.versions # {}
  /\ \A v \in schema.versions \ {1} : v \in first.versions \/ schema.columns = AllColumns

Reached(q) ==
  /\ proc[q].pc \in {"version1", "columns", "alter", "versions"} \cup Ready
       => schema.tables = AllTables
  /\ proc[q].pc = "alter"
       => /\ proc[q].have \subseteq schema.columns
          /\ \A j \in 1..Len(Columns) : j < proc[q].i => Columns[j] \in schema.columns
  /\ proc[q].pc \in {"versions"} \cup Ready => schema.columns = AllColumns
  /\ proc[q].pc \in Ready => 1..CurrentVersion \subseteq schema.versions

Grows ==
  /\ schema.tables \subseteq schema'.tables
  /\ schema.columns \subseteq schema'.columns
  /\ schema.versions \subseteq schema'.versions

SchemaInv == TypesAndWaits /\ VersionsTell /\ \A q \in Procs : Reached(q)

LEMMA SchemaKept ==
  ASSUME SchemaInv, TypesAndWaits', NEW p \in Procs, Grows, VersionsTell',
         \A q \in Procs \ {p} : proc'[q] = proc[q], Reached(p)'
  PROVE  SchemaInv'
<1>1. schema \in Schemas /\ schema' \in Schemas
  BY DEF SchemaInv, TypesAndWaits, Types
<1>2. ASSUME NEW q \in Procs \ {p} PROVE Reached(q)'
  <2>1. Reached(q) /\ proc'[q] = proc[q]
    BY <1>2 DEF SchemaInv
  <2>2. schema.tables = AllTables => schema'.tables = AllTables
    BY <1>1 DEF Grows, Schemas
  <2>3. schema.columns = AllColumns => schema'.columns = AllColumns
    BY <1>1 DEF Grows, Schemas
  <2> QED
    BY <2>1, <2>2, <2>3 DEF Reached, Grows
<1> QED
  BY <1>2 DEF SchemaInv

(* A step that leaves the schema alone, and its process at a point that    *)
(* the schema has reached.                                                 *)
LEMMA SchemaSame ==
  ASSUME SchemaInv, TypesAndWaits', NEW p \in Procs, UNCHANGED <<schema, first>>,
         \A q \in Procs \ {p} : proc'[q] = proc[q], Reached(p)'
  PROVE  SchemaInv'
<1>1. Grows
  BY DEF Grows
<1>2. VersionsTell'
  BY DEF SchemaInv, VersionsTell
<1> QED
  BY <1>1, <1>2, SchemaKept

LEMMA SchemaStep ==
  ASSUME SchemaInv, NEW p \in Procs,
         BeginOpen(p) \/ OpenStep(p) \/ Stops(p) \/ Close(p)
           \/ BeginOperation(p) \/ OperationStep(p)
  PROVE  SchemaInv'
<1>0. /\ proc \in [Procs -> Process] /\ proc[p] \in Process /\ schema \in Schemas
      /\ Reached(p) /\ TypesAndWaits /\ VersionsTell
  BY DEF SchemaInv, TypesAndWaits, Types
<1>t. TypesAndWaits'
  BY <1>0, OpenWaits, OperationWaits, BeginWaits
<1>1. CASE BeginOperation(p) \/ OperationStep(p)
  <2>1. Reached(p)'
    BY <1>0, <1>1, OperationsAfterOpen DEF Reached, Ready
  <2> QED
    BY <1>0, <1>t, <1>1, <2>1, OperationsAfterOpen, SchemaSame
<1>2. CASE Stops(p) \/ Close(p)
  <2>1. proc'[p].pc = "closed" /\ UNCHANGED <<schema, first>>
        /\ \A q \in Procs \ {p} : proc'[q] = proc[q]
    BY <1>0, <1>2 DEF Stops, Close, Closed
  <2>2. Reached(p)'
    BY <2>1 DEF Reached, Ready
  <2> QED
    BY <1>t, <2>1, <2>2, SchemaSame
<1>3. CASE BeginOpen(p) \/ Check(p) \/ BackUp(p)
  <2>1. proc'[p].pc \in {"create", "prepare", "backup", "tables"} /\ UNCHANGED <<schema, first>>
        /\ \A q \in Procs \ {p} : proc'[q] = proc[q]
    BY <1>0, <1>3 DEF BeginOpen, Check, BackUp, Goto, Process
  <2>2. Reached(p)'
    BY <2>1 DEF Reached, Ready
  <2> QED
    BY <1>t, <2>1, <2>2, SchemaSame
<1>4. CASE Prepare(p)
  <2>1. proc'[p].pc \in {"check", "tables"} /\ first' = first
        /\ \A q \in Procs \ {p} : proc'[q] = proc[q]
    BY <1>0, <1>4 DEF Prepare, Goto, Process
  <2>2. schema'.tables = schema.tables /\ schema'.columns = schema.columns
        /\ schema'.versions = schema.versions
    BY <1>0, <1>4 DEF Prepare, Schemas
  <2>3. Grows /\ VersionsTell'
    BY <1>0, <2>1, <2>2 DEF Grows, VersionsTell
  <2>4. Reached(p)'
    BY <2>1 DEF Reached, Ready
  <2> QED
    BY <1>t, <2>1, <2>3, <2>4, SchemaKept
<1>5. CASE CreateTable(p)
  <2>1. CASE /\ schema.tables = AllTables
             /\ schema' = [schema EXCEPT !.file = "written"]
             /\ Goto(p, "version1")
    <3>1. proc'[p].pc = "version1" /\ first' = first /\ \A q \in Procs \ {p} : proc'[q] = proc[q]
      BY <1>0, <1>5, <2>1 DEF CreateTable, Goto, Process
    <3>2. schema'.tables = schema.tables /\ schema'.columns = schema.columns
          /\ schema'.versions = schema.versions
      BY <1>0, <2>1 DEF Schemas
    <3>3. Grows /\ VersionsTell'
      BY <1>0, <3>1, <3>2 DEF Grows, VersionsTell
    <3>4. Reached(p)'
      BY <2>1, <3>1, <3>2 DEF Reached, Ready
    <3> QED
      BY <1>t, <3>1, <3>3, <3>4, SchemaKept
  <2>2. ASSUME NEW i \in DOMAIN Tables,
               schema' = [schema EXCEPT
                 !.file = "written",
                 !.tables = @ \cup {Tables[i]},
                 !.columns = IF Tables[i] = "providers" THEN AllColumns ELSE @],
               UNCHANGED proc
        PROVE  SchemaInv'
    <3>1. first' = first /\ proc[p].pc = "tables"
      BY <1>5 DEF CreateTable
    <3>2. /\ schema'.tables = schema.tables \cup {Tables[i]}
          /\ schema'.columns = schema.columns \/ schema'.columns = AllColumns
          /\ schema'.versions = schema.versions
      BY <1>0, <2>2 DEF Schemas
    <3>3. schema.columns \subseteq AllColumns /\ schema.tables \subseteq AllTables
      BY <1>0 DEF Schemas
    <3>4. Grows
      BY <3>2, <3>3 DEF Grows
    <3>5. schema.tables = AllTables => schema'.tables = AllTables
      BY <3>2, TableNames
    <3>6. VersionsTell'
      BY <1>0, <3>1, <3>2, <3>5 DEF VersionsTell
    <3>7. Reached(p)'
      BY <2>2, <3>1 DEF Reached, Ready
    <3> QED
      BY <1>t, <2>2, <3>4, <3>6, <3>7, SchemaKept
  <2> QED
    BY <1>5, <2>1, <2>2 DEF CreateTable
<1>6. CASE FirstVersion(p)
  <2>1. proc'[p].pc = "columns" /\ proc[p].pc = "version1" /\ first' = first
        /\ \A q \in Procs \ {p} : proc'[q] = proc[q]
    BY <1>0, <1>6 DEF FirstVersion, Goto, Process
  <2>2. schema'.tables = schema.tables /\ schema'.columns = schema.columns
        /\ schema'.versions = schema.versions \cup {1}
    BY <1>0, <1>6 DEF FirstVersion, Schemas
  <2>3. schema.tables = AllTables
    BY <1>0, <2>1 DEF Reached
  <2>4. Grows /\ VersionsTell'
    BY <1>0, <2>1, <2>2, <2>3 DEF Grows, VersionsTell
  <2>5. Reached(p)'
    BY <2>1, <2>2, <2>3 DEF Reached, Ready
  <2> QED
    BY <1>t, <2>1, <2>4, <2>5, SchemaKept
<1>7. CASE ReadColumns(p)
  <2>1. proc'[p].pc = "alter" /\ proc'[p].have = schema.columns /\ proc'[p].i = 1
        /\ proc[p].pc = "columns" /\ UNCHANGED <<schema, first>>
        /\ \A q \in Procs \ {p} : proc'[q] = proc[q]
    BY <1>0, <1>7 DEF ReadColumns, Process
  <2>2. schema.tables = AllTables
    BY <1>0, <2>1 DEF Reached
  <2>3. Reached(p)'
    BY <2>1, <2>2, ColumnList DEF Reached, Ready
  <2> QED
    BY <1>t, <2>1, <2>3, SchemaSame
<1>8. CASE Alter(p)
  <2> DEFINE i == proc[p].i
  <2>0. proc[p].pc = "alter" /\ first' = first /\ i \in Nat /\ schema.tables = AllTables
        /\ proc[p].have \subseteq schema.columns
        /\ \A j \in 1..Len(Columns) : j < i => Columns[j] \in schema.columns
    BY <1>0, <1>8, ColumnList DEF Alter, Process, Reached
  <2>1. CASE i > Len(Columns) /\ UNCHANGED schema
             /\ proc' = [proc EXCEPT ![p] = [Closed EXCEPT !.pc = "versions"]]
    <3>1. proc'[p].pc = "versions" /\ \A q \in Procs \ {p} : proc'[q] = proc[q]
      BY <1>0, <2>1 DEF Closed
    <3>2. schema.columns \subseteq AllColumns
      BY <1>0 DEF Schemas
    <3>3. schema.columns = AllColumns
      BY <2>0, <2>1, <3>2, ColumnList
    <3>4. Reached(p)'
      BY <2>0, <2>1, <3>1, <3>3 DEF Reached, Ready
    <3> QED
      BY <1>t, <2>0, <2>1, <3>1, <3>4, SchemaSame
  <2>2. CASE i <= Len(Columns) /\ Columns[i] \in proc[p].have /\ UNCHANGED schema
             /\ proc' = [proc EXCEPT ![p].i = @ + 1]
    <3>1. /\ proc'[p].pc = "alter" /\ proc'[p].i = i + 1 /\ proc'[p].have = proc[p].have
          /\ \A q \in Procs \ {p} : proc'[q] = proc[q]
      BY <1>0, <2>0, <2>2 DEF Process
    <3>2. ASSUME NEW j \in 1..Len(Columns), j < i + 1 PROVE Columns[j] \in schema.columns
      BY <2>0, <2>2, <3>2, ColumnList
    <3>3. Reached(p)'
      BY <2>0, <2>2, <3>1, <3>2 DEF Reached, Ready
    <3> QED
      BY <1>t, <2>0, <2>2, <3>1, <3>3, SchemaSame
  <2>3. CASE proc' = [proc EXCEPT ![p] = Closed] /\ UNCHANGED schema
    <3>1. proc'[p].pc = "closed" /\ \A q \in Procs \ {p} : proc'[q] = proc[q]
      BY <1>0, <2>3 DEF Closed
    <3>2. Reached(p)'
      BY <3>1 DEF Reached, Ready
    <3> QED
      BY <1>t, <2>0, <2>3, <3>1, <3>2, SchemaSame
  <2>4. CASE i <= Len(Columns) /\ proc' = [proc EXCEPT ![p].i = @ + 1]
             /\ schema' = [schema EXCEPT !.columns = @ \cup {Columns[i]}]
    <3>1. /\ proc'[p].pc = "alter" /\ proc'[p].i = i + 1 /\ proc'[p].have = proc[p].have
          /\ \A q \in Procs \ {p} : proc'[q] = proc[q]
      BY <1>0, <2>0, <2>4 DEF Process
    <3>2. schema'.tables = schema.tables /\ schema'.columns = schema.columns \cup {Columns[i]}
          /\ schema'.versions = schema.versions
      BY <1>0, <2>4 DEF Schemas
    <3>3. i \in 1..Len(Columns)
      BY <1>0, <2>4, ColumnList DEF Process
    <3>4. schema.columns = AllColumns => schema'.columns = AllColumns
      BY <3>2, <3>3, ColumnList
    <3>5. Grows /\ VersionsTell'
      BY <1>0, <2>0, <3>2, <3>4 DEF Grows, VersionsTell
    <3>6. ASSUME NEW j \in 1..Len(Columns), j < i + 1 PROVE Columns[j] \in schema'.columns
      BY <2>0, <3>2, <3>6, ColumnList
    <3>7. Reached(p)'
      BY <2>0, <3>1, <3>2, <3>6 DEF Reached, Ready
    <3> QED
      BY <1>t, <3>1, <3>5, <3>7, SchemaKept
  <2> QED
    BY <1>8, <2>1, <2>2, <2>3, <2>4 DEF Alter
<1>9. CASE RecordVersion(p)
  <2>0. proc[p].pc = "versions" /\ first' = first /\ schema.tables = AllTables
        /\ schema.columns = AllColumns
    BY <1>0, <1>9 DEF RecordVersion, Reached
  <2>1. CASE 1..CurrentVersion \subseteq schema.versions /\ Goto(p, "open") /\ UNCHANGED schema
    <3>1. proc'[p].pc = "open" /\ \A q \in Procs \ {p} : proc'[q] = proc[q]
      BY <1>0, <2>1 DEF Goto, Process
    <3>2. Reached(p)'
      BY <2>0, <2>1, <3>1 DEF Reached, Ready
    <3> QED
      BY <1>t, <2>0, <2>1, <3>1, <3>2, SchemaSame
  <2>2. ASSUME NEW v \in (1..CurrentVersion) \ schema.versions,
               schema' = [schema EXCEPT !.versions = @ \cup {v}], UNCHANGED proc
        PROVE  SchemaInv'
    <3>1. schema'.tables = schema.tables /\ schema'.columns = schema.columns
          /\ schema'.versions = schema.versions \cup {v}
      BY <1>0, <2>2 DEF Schemas
    <3>2. Grows /\ VersionsTell'
      BY <1>0, <2>0, <3>1 DEF Grows, VersionsTell
    <3>3. Reached(p)'
      BY <2>0, <2>2, <3>1 DEF Reached, Ready
    <3> QED
      BY <1>t, <2>2, <3>2, <3>3, SchemaKept
  <2> QED
    BY <1>9, <2>1, <2>2 DEF RecordVersion
<1> QED
  BY <1>1, <1>2, <1>3, <1>4, <1>5, <1>6, <1>7, <1>8, <1>9 DEF OpenStep

LEMMA AlwaysSchemaInv == Spec => []SchemaInv
<1>1. Init => SchemaInv
  <2> SUFFICES ASSUME Init PROVE SchemaInv
    OBVIOUS
  <2>1. TypesAndWaits
    <3>1. \A q \in Procs : proc[q].pc = "closed"
      BY DEF Init, Closed
    <3> QED
      BY <3>1, InitType DEF TypesAndWaits, Waits
  <2>2. VersionsTell
    BY DEF Init, VersionsTell
  <2>3. \A q \in Procs : Reached(q)
    BY DEF Init, Closed, Reached, Ready
  <2> QED
    BY <2>1, <2>2, <2>3 DEF SchemaInv
<1>2. SchemaInv /\ [Next]_vars => SchemaInv'
  <2> SUFFICES ASSUME SchemaInv, [Next]_vars PROVE SchemaInv'
    OBVIOUS
  <2>1. CASE Next
    BY <2>1, SchemaStep DEF Next
  <2>2. CASE UNCHANGED vars
    BY <2>2 DEF vars, SchemaInv, TypesAndWaits, Types, Waits, VersionsTell, Reached
  <2> QED
    BY <2>1, <2>2
<1> QED
  BY <1>1, <1>2, PTL DEF Spec

(* However the processes that open the catalog interleave, and wherever    *)
(* they fail, a version recorded by migrate stands for the tables and      *)
(* columns it says, and a process that has the catalog open finds them.    *)
THEOREM MigrationComplete == Spec => []SchemaComplete
<1>1. SchemaInv => SchemaComplete
  BY CatalogAssumption DEF SchemaInv, SchemaComplete, VersionsTell, Reached, Ready
<1> QED
  BY <1>1, AlwaysSchemaInv, PTL
-----------------------------------------------------------------------------
(* The backup.                                                             *)
Untouched ==
  first.file = "written" /\ ~kept
    => /\ schema = first /\ first \in Legacy
       /\ \A q \in Procs : proc[q].pc \in {"closed", "prepare", "check", "backup"}

KeptInv == TypesAndWaits /\ Untouched

LEMMA KeptStep ==
  ASSUME KeptInv, NEW p \in Procs,
         BeginOpen(p) \/ OpenStep(p) \/ Stops(p) \/ Close(p)
           \/ BeginOperation(p) \/ OperationStep(p)
  PROVE  Untouched'
<1>0. /\ proc \in [Procs -> Process] /\ schema \in Schemas /\ TypesAndWaits /\ Untouched
  BY DEF KeptInv, TypesAndWaits, Types
<1>1. CASE BeginOperation(p) \/ OperationStep(p)
  <2>1. proc[p].pc \in Ready /\ UNCHANGED first
    BY <1>0, <1>1, OperationsAfterOpen
  <2>2. ~(first.file = "written" /\ ~kept)
    BY <1>0, <2>1 DEF Untouched, Ready
  <2>3. kept => kept'
    BY <1>1 DEF BeginOperation, OperationStep, RegisterHost, DeleteAlias, SetAlias, Ingest, Forget,
                LookUpSearch, LookUpTag, LookUpLink, DeleteSearch, Untag, Unlink, CreateBackup,
                RegisterConnection, SaveSearch, InsertTag, InsertPair, InsertLink
  <2> QED
    BY <2>1, <2>2, <2>3 DEF Untouched
<1> SUFFICES ASSUME BeginOpen(p) \/ OpenStep(p) \/ Stops(p) \/ Close(p),
                    first'.file = "written", ~kept'
             PROVE  /\ schema' = first' /\ first' \in Legacy
                    /\ \A q \in Procs : proc'[q].pc \in {"closed", "prepare", "check", "backup"}
  BY <1>1 DEF Untouched
<1>2. first' = first
  BY DEF BeginOpen, OpenStep, Stops, Close, Prepare, Check, BackUp, CreateTable,
         FirstVersion, ReadColumns, Alter, RecordVersion
<1>3. ~kept
  BY DEF BeginOpen, OpenStep, Stops, Close, Prepare, Check, BackUp, CreateTable,
         FirstVersion, ReadColumns, Alter, RecordVersion
<1>4. /\ schema = first /\ first \in Legacy /\ schema.file = "written"
      /\ \A q \in Procs : proc[q].pc \in {"closed", "prepare", "check", "backup"}
  BY <1>0, <1>2, <1>3 DEF Untouched
<1>5. CASE BeginOpen(p)
  BY <1>0, <1>2, <1>4, <1>5 DEF BeginOpen, Goto, Process
<1>6. CASE Prepare(p)
  <2>1. schema' = schema
    BY <1>0, <1>4, <1>6 DEF Prepare, Schemas
  <2>2. \A q \in Procs : proc'[q].pc \in {"closed", "prepare", "check", "backup"}
    BY <1>0, <1>4, <1>6 DEF Prepare, Goto, Process
  <2> QED
    BY <1>2, <1>4, <2>1, <2>2
<1>7. CASE Check(p)
  <2>1. \A v \in schema.versions : v < CurrentVersion
    BY <1>0, <1>4, CatalogAssumption DEF Schemas
  <2>2. \A q \in Procs : proc'[q].pc \in {"closed", "prepare", "check", "backup"}
    BY <1>0, <1>4, <1>7, <2>1 DEF Check, RequiresMigration, Goto, Process
  <2> QED
    BY <1>2, <1>4, <1>7, <2>2 DEF Check
<1>8. ~BackUp(p)
  BY <1>4 DEF BackUp
<1>9. CASE Stops(p) \/ Close(p)
  BY <1>0, <1>2, <1>4, <1>9 DEF Stops, Close, Closed
<1>10. ~(CreateTable(p) \/ FirstVersion(p) \/ ReadColumns(p) \/ Alter(p) \/ RecordVersion(p))
  BY <1>4 DEF CreateTable, FirstVersion, ReadColumns, Alter, RecordVersion
<1> QED
  BY <1>5, <1>6, <1>7, <1>8, <1>9, <1>10 DEF OpenStep

(* Once the schema an earlier release left has been changed, a backup      *)
(* holds the catalog as it was: whichever process migrates it, no process  *)
(* gets past the backup before one is complete.                            *)
THEOREM BackupComesFirst == Spec => []LegacyKept
<1>1. Init => Untouched
  BY DEF Init, Closed, Untouched, Empty
<1>2. TypesAndWaits /\ Untouched /\ [Next]_vars => Untouched'
  <2> SUFFICES ASSUME TypesAndWaits, Untouched, [Next]_vars PROVE Untouched'
    OBVIOUS
  <2>1. CASE Next
    BY <2>1, KeptStep DEF Next, KeptInv
  <2>2. CASE UNCHANGED vars
    BY <2>2 DEF vars, Untouched
  <2> QED
    BY <2>1, <2>2
<1>3. Untouched => LegacyKept
  BY DEF Untouched, LegacyKept
<1> QED
  BY <1>1, <1>2, <1>3, AlwaysWaits, PTL DEF Spec
-----------------------------------------------------------------------------
(* The annotations.  A name and an id claimed together: in the table, or   *)
(* by a process that waits to insert them.                                 *)
Waiting(pc) == {<<proc[q].name, proc[q].id>> : q \in {r \in Procs : proc[r].pc = pc}}
Tags == rows.tags \cup Waiting("tag-name")
Searches == rows.saved \cup Waiting("save")

Apart(claims) ==
  /\ \A x \in claims : x[2] <= ops
  /\ \A x, y \in claims : x[2] = y[2] => x = y

(* AnnotationsHold in parts.                                               *)
TaggedThere == \A t \in rows.tagged : t[1] \in rows.artifacts /\ \E x \in rows.tags : x[2] = t[2]
LinksThere ==
  \A l \in rows.links : /\ {l[1], l[2]} \subseteq rows.artifacts
                        /\ HostOf[l[1]] # HostOf[l[2]] /\ Rank[l[1]] < Rank[l[2]]
OneLink == \A l, m \in rows.links : {l[1], l[2]} = {m[1], m[2]} /\ l[3] = m[3] => l = m
OneId(table) == \A x, y \in table : x[1] = y[1] \/ x[2] = y[2] => x = y
HostsThere == rows.connections \cup {x[1] : x \in rows.aliases} \subseteq rows.hosts
OneAlias == \A x, y \in rows.aliases : x[2] = y[2] => x = y

Annotations ==
  /\ TaggedThere /\ LinksThere /\ OneLink /\ OneId(rows.tags) /\ OneId(rows.saved)
  /\ HostsThere /\ OneAlias

LEMMA AnnotationParts == Annotations => AnnotationsHold
BY DEF Annotations, AnnotationsHold, TaggedThere, LinksThere, OneLink, OneId, HostsThere, OneAlias

Claims == Apart(Tags) /\ Apart(Searches)

LEMMA ApartKept ==
  ASSUME NEW claims, NEW fewer, fewer \subseteq claims, Apart(claims),
         Types, Types', ops <= ops', \A x \in claims : x[2] \in Nat
  PROVE  Apart(fewer)'
BY DEF Apart, Types

LEMMA ApartAdded ==
  ASSUME NEW claims, NEW more, NEW name, more \subseteq claims \cup {<<name, ops + 1>>},
         Apart(claims), Types, ops' = ops + 1, \A x \in claims : x[2] \in Nat
  PROVE  Apart(more)'
BY DEF Apart, Types

(* What is claimed when one process moves on.                              *)
LEMMA WaitingLess ==
  ASSUME NEW p \in Procs, NEW pc, \A q \in Procs \ {p} : proc'[q] = proc[q], proc'[p].pc # pc
  PROVE  Waiting(pc)' \subseteq Waiting(pc)
BY DEF Waiting

LEMMA WaitingMore ==
  ASSUME NEW p \in Procs, NEW pc, \A q \in Procs \ {p} : proc'[q] = proc[q]
  PROVE  Waiting(pc)' \subseteq Waiting(pc) \cup {<<proc'[p].name, proc'[p].id>>}
BY DEF Waiting

LEMMA ClaimIds ==
  ASSUME TypesAndWaits
  PROVE  (\A x \in Tags : x[2] \in Nat) /\ (\A x \in Searches : x[2] \in Nat)
<1>1. rows.tags \in SUBSET (Names \X Ids) /\ rows.saved \in SUBSET (Names \X Ids)
  BY DEF TypesAndWaits, Types, Rows
<1>2. Ids \subseteq Nat
  BY DEF Ids
<1>3. \A q \in Procs : proc[q].pc \in {"tag-name", "save"} => proc[q].id \in Ids
  BY DEF TypesAndWaits, Waits
<1>4. ASSUME NEW pc \in {"tag-name", "save"}, NEW x \in Waiting(pc) PROVE x[2] \in Nat
  <2>1. PICK q \in Procs : proc[q].pc = pc /\ x = <<proc[q].name, proc[q].id>>
    BY <1>4 DEF Waiting
  <2> QED
    BY <1>2, <1>3, <2>1
<1> QED
  BY <1>1, <1>2, <1>4 DEF Tags, Searches

(* Steps that leave what is claimed, or claim no more than before.         *)
LEMMA ClaimsKept ==
  ASSUME TypesAndWaits, TypesAndWaits', Claims, ops <= ops',
         Tags' \subseteq Tags, Searches' \subseteq Searches
  PROVE  Claims'
<1>1. Types /\ Types'
  BY DEF TypesAndWaits
<1>2. Apart(Tags) /\ Apart(Searches)
  BY DEF Claims
<1>3. Apart(Tags)'
  BY <1>1, <1>2, ClaimIds, ApartKept DEF Apart
<1>4. Apart(Searches)'
  BY <1>1, <1>2, ClaimIds, ApartKept DEF Apart
<1> QED
  BY <1>3, <1>4 DEF Claims

(* Of the rows, only what the annotations do not depend on has changed, or *)
(* nothing has.                                                            *)
LEMMA AnnotationsSame ==
  ASSUME Annotations, NEW hs, NEW as,
         rows' = [rows EXCEPT !.hosts = @ \cup hs, !.artifacts = @ \cup as],
         rows \in Rows
  PROVE  Annotations'
<1>1. /\ rows'.hosts = rows.hosts \cup hs /\ rows'.artifacts = rows.artifacts \cup as
      /\ rows'.tags = rows.tags /\ rows'.tagged = rows.tagged /\ rows'.links = rows.links
      /\ rows'.saved = rows.saved /\ rows'.aliases = rows.aliases
      /\ rows'.connections = rows.connections
  BY DEF Rows
<1>2. TaggedThere' /\ OneLink' /\ OneId(rows.tags)' /\ OneId(rows.saved)' /\ OneAlias'
  BY <1>1 DEF Annotations, TaggedThere, OneLink, OneId, OneAlias
<1>3. LinksThere'
  BY <1>1 DEF Annotations, LinksThere
<1>4. HostsThere'
  BY <1>1 DEF Annotations, HostsThere
<1> QED
  BY <1>2, <1>3, <1>4 DEF Annotations

AnnotationInv == TypesAndWaits /\ Claims /\ Annotations

(* A step that leaves the rows alone and claims nothing.                   *)
LEMMA NothingClaimed ==
  ASSUME AnnotationInv, TypesAndWaits', NEW p \in Procs, ops <= ops',
         \A q \in Procs \ {p} : proc'[q] = proc[q],
         proc'[p].pc \notin {"tag-name", "save"}, rows'.tags = rows.tags, rows'.saved = rows.saved
  PROVE  Claims'
<1>1. Waiting("tag-name")' \subseteq Waiting("tag-name") /\ Waiting("save")' \subseteq Waiting("save")
  BY WaitingLess
<1>2. Tags' \subseteq Tags /\ Searches' \subseteq Searches
  BY <1>1 DEF Tags, Searches
<1> QED
  BY <1>2, ClaimsKept DEF AnnotationInv

LEMMA RowsUntouched ==
  ASSUME AnnotationInv, TypesAndWaits', UNCHANGED rows
  PROVE  Annotations'
BY DEF AnnotationInv, Annotations, TaggedThere, LinksThere, OneLink, OneId, HostsThere, OneAlias

LEMMA OpenAnnotations ==
  ASSUME AnnotationInv, NEW p \in Procs, BeginOpen(p) \/ OpenStep(p) \/ Stops(p) \/ Close(p)
  PROVE  AnnotationInv'
<1>0. TypesAndWaits /\ proc \in [Procs -> Process] /\ ops \in Nat
  BY CatalogAssumption DEF AnnotationInv, TypesAndWaits, Types
<1>1. TypesAndWaits'
  BY <1>0, OpenWaits
<1>2. UNCHANGED <<rows, ops>>
  BY DEF BeginOpen, OpenStep, Stops, Close, Prepare, Check, BackUp, CreateTable,
         FirstVersion, ReadColumns, Alter, RecordVersion
<1>3. (\A q \in Procs \ {p} : proc'[q] = proc[q]) /\ proc'[p].pc \notin {"tag-name", "save"}
  BY <1>0, OpenMoves
<1> QED
  BY <1>0, <1>1, <1>2, <1>3, NothingClaimed, RowsUntouched DEF AnnotationInv

(* A row that was claimed is inserted where no row has its name.           *)
LEMMA OneIdKept ==
  ASSUME NEW claims, NEW table, NEW row, Apart(claims), OneId(table),
         table \subseteq claims, row \in claims, \A x \in table : x[1] # row[1]
  PROVE  OneId(table \cup {row})
BY DEF Apart, OneId

LEMMA OperationAnnotations ==
  ASSUME AnnotationInv, NEW p \in Procs, OperationStep(p)
  PROVE  AnnotationInv'
<1>0. /\ TypesAndWaits /\ proc \in [Procs -> Process] /\ ops \in Nat /\ rows \in Rows
      /\ Waits(p) /\ Annotations /\ Apart(Tags) /\ Apart(Searches)
  BY CatalogAssumption DEF AnnotationInv, TypesAndWaits, Types, Claims
<1>t. TypesAndWaits'
  BY <1>0, OperationWaits
<1>o. ops' = ops
  BY DEF OperationStep, RegisterConnection, SaveSearch, InsertTag, InsertPair, InsertLink
<1>p. \A q \in Procs \ {p} : proc'[q] = proc[q]
  BY <1>0, OperationsAfterOpen
<1>1. CASE RegisterConnection(p)
  <2>1. proc'[p].pc = "open" /\ proc[p].on \in rows.hosts
    BY <1>0, <1>1, BackWaits DEF RegisterConnection, Waits
  <2>2. /\ rows'.connections = rows.connections \cup {proc[p].on}
        /\ rows'.hosts = rows.hosts /\ rows'.artifacts = rows.artifacts
        /\ rows'.tags = rows.tags /\ rows'.tagged = rows.tagged /\ rows'.links = rows.links
        /\ rows'.saved = rows.saved /\ rows'.aliases = rows.aliases
    BY <1>0, <1>1 DEF RegisterConnection, Rows
  <2>3. Claims'
    BY <1>t, <1>o, <1>p, <1>0, <2>1, <2>2, NothingClaimed
  <2>4. Annotations'
    BY <1>0, <2>1, <2>2
       DEF Annotations, TaggedThere, LinksThere, OneLink, OneId, HostsThere, OneAlias
  <2> QED
    BY <1>t, <2>3, <2>4 DEF AnnotationInv
<1>2. CASE SaveSearch(p)
  <2> DEFINE row == <<proc[p].name, proc[p].id>>
  <2>1. proc'[p].pc = "open" /\ row \in Waiting("save")
    BY <1>0, <1>2, BackWaits DEF SaveSearch, Waiting
  <2>2. /\ rows'.hosts = rows.hosts /\ rows'.artifacts = rows.artifacts
        /\ rows'.tags = rows.tags /\ rows'.tagged = rows.tagged /\ rows'.links = rows.links
        /\ rows'.connections = rows.connections /\ rows'.aliases = rows.aliases
        /\ \/ rows'.saved = rows.saved
           \/ rows'.saved = rows.saved \cup {row} /\ \A s \in rows.saved : s[1] # row[1]
    BY <1>0, <1>2 DEF SaveSearch, Rows
  <2>3. Waiting("tag-name")' \subseteq Waiting("tag-name") /\ Waiting("save")' \subseteq Waiting("save")
    BY <1>p, <2>1, WaitingLess
  <2>4. Tags' \subseteq Tags /\ Searches' \subseteq Searches
    BY <2>1, <2>2, <2>3 DEF Tags, Searches
  <2>5. Claims'
    BY <1>0, <1>t, <1>o, <2>4, ClaimsKept DEF AnnotationInv
  <2>6. row \in Searches /\ rows.saved \subseteq Searches
    BY <2>1 DEF Searches
  <2>7. OneId(rows'.saved)
    BY <1>0, <2>2, <2>6, OneIdKept DEF Annotations
  <2>8. TaggedThere' /\ LinksThere' /\ OneLink' /\ OneId(rows'.tags) /\ HostsThere' /\ OneAlias'
    BY <1>0, <2>2 DEF Annotations, TaggedThere, LinksThere, OneLink, OneId, HostsThere, OneAlias
  <2> QED
    BY <1>t, <2>5, <2>7, <2>8 DEF AnnotationInv, Annotations, OneId
<1>3. CASE InsertTag(p)
  <2> DEFINE row == <<proc[p].name, proc[p].id>>
  <2>1. proc'[p].pc = "tag-pair" /\ row \in Waiting("tag-name")
    BY <1>0, <1>3 DEF InsertTag, Goto, Process, Waiting
  <2>2. /\ rows'.hosts = rows.hosts /\ rows'.artifacts = rows.artifacts
        /\ rows'.saved = rows.saved /\ rows'.tagged = rows.tagged /\ rows'.links = rows.links
        /\ rows'.connections = rows.connections /\ rows'.aliases = rows.aliases
        /\ \/ rows'.tags = rows.tags
           \/ rows'.tags = rows.tags \cup {row} /\ \A t \in rows.tags : t[1] # row[1]
    BY <1>0, <1>3 DEF InsertTag, Rows
  <2>3. Waiting("tag-name")' \subseteq Waiting("tag-name") /\ Waiting("save")' \subseteq Waiting("save")
    BY <1>p, <2>1, WaitingLess
  <2>4. Tags' \subseteq Tags /\ Searches' \subseteq Searches
    BY <2>1, <2>2, <2>3 DEF Tags, Searches
  <2>5. Claims'
    BY <1>0, <1>t, <1>o, <2>4, ClaimsKept DEF AnnotationInv
  <2>6. row \in Tags /\ rows.tags \subseteq Tags
    BY <2>1 DEF Tags
  <2>7. OneId(rows'.tags)
    BY <1>0, <2>2, <2>6, OneIdKept DEF Annotations
  <2>8. LinksThere' /\ OneLink' /\ OneId(rows'.saved) /\ HostsThere' /\ OneAlias'
    BY <1>0, <2>2 DEF Annotations, LinksThere, OneLink, OneId, HostsThere, OneAlias
  <2>9. TaggedThere'
    BY <1>0, <2>2 DEF Annotations, TaggedThere
  <2> QED
    BY <1>t, <2>5, <2>7, <2>8, <2>9 DEF AnnotationInv, Annotations, OneId
<1>4. CASE InsertPair(p)
  <2> DEFINE pair == <<proc[p].on, proc[p].id>>
  <2>1. proc'[p].pc = "open"
    BY <1>0, <1>4, BackWaits DEF InsertPair
  <2>2. /\ rows'.hosts = rows.hosts /\ rows'.artifacts = rows.artifacts
        /\ rows'.tags = rows.tags /\ rows'.saved = rows.saved /\ rows'.links = rows.links
        /\ rows'.connections = rows.connections /\ rows'.aliases = rows.aliases
        /\ \/ rows'.tagged = rows.tagged
           \/ /\ rows'.tagged = rows.tagged \cup {pair}
              /\ proc[p].on \in rows.artifacts /\ \E t \in rows.tags : t[2] = proc[p].id
    BY <1>0, <1>4 DEF InsertPair, Rows
  <2>3. Claims'
    BY <1>t, <1>o, <1>p, <1>0, <2>1, <2>2, NothingClaimed
  <2>4. TaggedThere'
    BY <1>0, <2>2 DEF Annotations, TaggedThere
  <2>5. LinksThere' /\ OneLink' /\ OneId(rows.tags)' /\ OneId(rows.saved)' /\ HostsThere' /\ OneAlias'
    BY <1>0, <2>2 DEF Annotations, LinksThere, OneLink, OneId, HostsThere, OneAlias
  <2> QED
    BY <1>t, <2>3, <2>4, <2>5 DEF AnnotationInv, Annotations
<1>5. CASE InsertLink(p)
  <2> DEFINE link == <<proc[p].on, proc[p].with, proc[p].name, proc[p].id>>
  <2>1. /\ proc'[p].pc = "open" /\ proc[p].on \in Artifacts /\ proc[p].with \in Artifacts
        /\ HostOf[proc[p].on] # HostOf[proc[p].with] /\ Rank[proc[p].on] < Rank[proc[p].with]
    BY <1>0, <1>5, BackWaits DEF InsertLink, Waits
  <2>2. /\ rows'.hosts = rows.hosts /\ rows'.artifacts = rows.artifacts
        /\ rows'.tags = rows.tags /\ rows'.saved = rows.saved /\ rows'.tagged = rows.tagged
        /\ rows'.connections = rows.connections /\ rows'.aliases = rows.aliases
        /\ \/ rows'.links = rows.links
           \/ /\ rows'.links = rows.links \cup {link}
              /\ {proc[p].on, proc[p].with} \subseteq rows.artifacts
              /\ \A l \in rows.links :
                   <<l[1], l[2], l[3]>> # <<proc[p].on, proc[p].with, proc[p].name>>
    BY <1>0, <1>5 DEF InsertLink, Rows
  <2>3. Claims'
    BY <1>t, <1>o, <1>p, <1>0, <2>1, <2>2, NothingClaimed
  <2>7. /\ link[1] = proc[p].on /\ link[2] = proc[p].with
        /\ link[3] = proc[p].name /\ link[4] = proc[p].id
    OBVIOUS
  <2> HIDE DEF link
  <2>4. LinksThere'
    BY <1>0, <2>1, <2>2, <2>7 DEF Annotations, LinksThere
  <2>8. ASSUME NEW l \in rows.links, {l[1], l[2]} = {link[1], link[2]}
        PROVE  l[1] = link[1] /\ l[2] = link[2]
    <3>1. Rank[l[1]] < Rank[l[2]] /\ l[1] \in Artifacts /\ l[2] \in Artifacts
      BY <1>0 DEF Annotations, LinksThere, Rows
    <3>2. Rank[l[1]] \in Nat /\ Rank[l[2]] \in Nat
      BY <3>1, CatalogAssumption
    <3>3. CASE l[1] = link[2] /\ l[2] = link[1]
      <4>1. Rank[l[2]] < Rank[l[1]]
        BY <2>1, <2>7, <3>3
      <4> QED
        BY <3>1, <3>2, <4>1
    <3>4. \/ l[1] = link[1] /\ l[2] = link[2]
          \/ l[1] = link[2] /\ l[2] = link[1]
      <4>1. Rank[l[1]] # Rank[l[2]]
        BY <3>1, <3>2
      <4>2. l[1] # l[2]
        BY <4>1
      <4>3. l[1] \in {link[1], link[2]} /\ l[2] \in {link[1], link[2]}
        BY <2>8
      <4> QED
        BY <4>2, <4>3
    <3> QED
      BY <3>3, <3>4
  <2>5. OneLink'
    <3>1. ASSUME NEW l \in rows'.links, NEW m \in rows'.links,
                 {l[1], l[2]} = {m[1], m[2]}, l[3] = m[3]
          PROVE  l = m
      <4>1. CASE l \in rows.links /\ m \in rows.links
        BY <1>0, <3>1, <4>1 DEF Annotations, OneLink
      <4>2. CASE l = link /\ m = link
        BY <4>2
      <4>3. CASE l \in rows.links /\ m = link /\ rows'.links # rows.links
        BY <2>2, <2>7, <2>8, <3>1, <4>3
      <4>4. CASE m \in rows.links /\ l = link /\ rows'.links # rows.links
        BY <2>2, <2>7, <2>8, <3>1, <4>4
      <4> QED
        BY <2>2, <4>1, <4>2, <4>3, <4>4
    <3> QED
      BY <3>1 DEF OneLink
  <2>6. TaggedThere' /\ OneId(rows.tags)' /\ OneId(rows.saved)' /\ HostsThere' /\ OneAlias'
    BY <1>0, <2>2 DEF Annotations, TaggedThere, OneId, HostsThere, OneAlias
  <2> QED
    BY <1>t, <2>3, <2>4, <2>5, <2>6 DEF AnnotationInv, Annotations
<1> QED
  BY <1>1, <1>2, <1>3, <1>4, <1>5 DEF OperationStep

(* The id that a process looks up for a name, or makes up, is claimed with *)
(* no other name.                                                          *)
LEMMA IdOfApart ==
  ASSUME Types, NEW claims, NEW table, table \in SUBSET (Names \X Ids), table \subseteq claims,
         NEW n, NEW more, more \subseteq claims \cup {<<n, IdOf(table, n)>>},
         Apart(claims), ops' = ops + 1, \A x \in claims : x[2] \in Nat
  PROVE  Apart(more)'
<1>1. CASE \E row \in table : row[1] = n
  <2> DEFINE row == CHOOSE row \in table : row[1] = n
  <2>1. row \in table /\ row[1] = n
    BY <1>1
  <2>2. IdOf(table, n) = row[2]
    BY <1>1 DEF IdOf
  <2> HIDE DEF row
  <2>3. row = <<n, row[2]>>
    BY <2>1
  <2>4. more \subseteq claims
    BY <2>1, <2>2, <2>3
  <2>5. ops \in Nat
    BY CatalogAssumption DEF Types
  <2> QED
    BY <2>4, <2>5 DEF Apart
<1>2. CASE ~ \E row \in table : row[1] = n
  <2>1. IdOf(table, n) = ops + 1
    BY <1>2 DEF IdOf
  <2> QED
    BY <2>1, ApartAdded DEF Apart
<1> QED
  BY <1>1, <1>2

(* An operation of one statement that leaves the names alone claims        *)
(* nothing, and one that takes rows away leaves the rest of them apart.    *)
LEMMA FewerAnnotations ==
  ASSUME AnnotationInv, TypesAndWaits', NEW p \in Procs, Begin(p), UNCHANGED proc,
         rows'.tags = rows.tags, rows'.saved \subseteq rows.saved, Annotations'
  PROVE  AnnotationInv'
<1>1. Waiting("tag-name")' = Waiting("tag-name") /\ Waiting("save")' = Waiting("save")
  BY DEF Waiting
<1>2. Tags' \subseteq Tags /\ Searches' \subseteq Searches
  BY <1>1 DEF Tags, Searches
<1>3. ops <= ops'
  BY CatalogAssumption DEF AnnotationInv, TypesAndWaits, Types, Begin
<1> QED
  BY <1>2, <1>3, ClaimsKept DEF AnnotationInv

LEMMA BeginAnnotations ==
  ASSUME AnnotationInv, NEW p \in Procs, BeginOperation(p)
  PROVE  AnnotationInv'
<1>0. /\ TypesAndWaits /\ Types /\ proc \in [Procs -> Process] /\ ops \in Nat /\ rows \in Rows
      /\ Annotations /\ Apart(Tags) /\ Apart(Searches)
  BY CatalogAssumption DEF AnnotationInv, TypesAndWaits, Types, Claims
<1>t. TypesAndWaits'
  BY <1>0, BeginWaits
<1>o. ops' = ops + 1
  BY DEF BeginOperation, RegisterHost, DeleteAlias, SetAlias, Ingest, Forget,
         LookUpSearch, LookUpTag, LookUpLink, DeleteSearch, Untag, Unlink, CreateBackup, Begin
<1>p. \A q \in Procs \ {p} : proc'[q] = proc[q]
  BY <1>0, OperationsAfterOpen
<1>1. ASSUME NEW h \in Hosts, RegisterHost(p, h) PROVE AnnotationInv'
  <2>1. rows' = [rows EXCEPT !.hosts = @ \cup {h}, !.artifacts = @ \cup {}]
    BY <1>0, <1>1 DEF RegisterHost, Rows
  <2>2. Annotations'
    BY <1>0, <2>1, AnnotationsSame
  <2>3. proc'[p].pc = "connect" /\ rows'.tags = rows.tags /\ rows'.saved = rows.saved
    BY <1>0, <1>1, WaitWaits DEF RegisterHost, Rows
  <2>4. Claims'
    BY <1>0, <1>t, <1>o, <1>p, <2>3, NothingClaimed
  <2> QED
    BY <1>t, <2>2, <2>4 DEF AnnotationInv
<1>2. ASSUME NEW h \in Hosts, DeleteAlias(p, h) PROVE AnnotationInv'
  <2>1. /\ rows'.hosts = rows.hosts /\ rows'.artifacts = rows.artifacts
        /\ rows'.tags = rows.tags /\ rows'.saved = rows.saved /\ rows'.tagged = rows.tagged
        /\ rows'.links = rows.links /\ rows'.connections = rows.connections
        /\ rows'.aliases \subseteq rows.aliases
    BY <1>0, <1>2 DEF DeleteAlias, Rows
  <2>2. TaggedThere' /\ LinksThere' /\ OneLink' /\ OneId(rows.tags)' /\ OneId(rows.saved)'
    BY <1>0, <2>1 DEF Annotations, TaggedThere, LinksThere, OneLink, OneId
  <2>3. HostsThere' /\ OneAlias'
    BY <1>0, <2>1 DEF Annotations, HostsThere, OneAlias
  <2> QED
    BY <1>2, <1>t, <2>1, <2>2, <2>3, FewerAnnotations DEF DeleteAlias, Annotations
<1>3. ASSUME NEW h \in Hosts, NEW n \in Names, SetAlias(p, h, n) PROVE AnnotationInv'
  <2>1. /\ rows'.hosts = rows.hosts /\ rows'.artifacts = rows.artifacts
        /\ rows'.tags = rows.tags /\ rows'.saved = rows.saved /\ rows'.tagged = rows.tagged
        /\ rows'.links = rows.links /\ rows'.connections = rows.connections
        /\ rows'.aliases = {x \in rows.aliases : x[1] # h} \cup {<<h, n>>}
    BY <1>0, <1>3 DEF SetAlias, Rows
  <2>2. TaggedThere' /\ LinksThere' /\ OneLink' /\ OneId(rows.tags)' /\ OneId(rows.saved)'
    BY <1>0, <2>1 DEF Annotations, TaggedThere, LinksThere, OneLink, OneId
  <2>3. h \in rows.hosts /\ \A x \in rows.aliases : x[2] = n => x[1] = h
    BY <1>3 DEF SetAlias
  <2>4. HostsThere'
    BY <1>0, <2>1, <2>3 DEF Annotations, HostsThere
  <2>5. OneAlias'
    BY <1>0, <2>1, <2>3 DEF Annotations, OneAlias
  <2> QED
    BY <1>3, <1>t, <2>1, <2>2, <2>4, <2>5, FewerAnnotations DEF SetAlias, Annotations
<1>4. ASSUME NEW a \in Artifacts, Ingest(p, a) PROVE AnnotationInv'
  <2>1. Annotations'
    BY <1>0, <1>4, AnnotationsSame DEF Ingest
  <2>2. rows'.tags = rows.tags /\ rows'.saved = rows.saved
    BY <1>0, <1>4 DEF Ingest, Rows
  <2> QED
    BY <1>4, <1>t, <2>1, <2>2, FewerAnnotations DEF Ingest
<1>5. ASSUME NEW a \in Artifacts, Forget(p, a) PROVE AnnotationInv'
  <2>1. /\ rows'.hosts = rows.hosts /\ rows'.artifacts = rows.artifacts \ {a}
        /\ rows'.tags = rows.tags /\ rows'.saved = rows.saved
        /\ rows'.tagged = {t \in rows.tagged : t[1] # a}
        /\ rows'.links = {l \in rows.links : a \notin {l[1], l[2]}}
        /\ rows'.connections = rows.connections /\ rows'.aliases = rows.aliases
    BY <1>0, <1>5 DEF Forget, Rows
  <2>2. OneId(rows.tags)' /\ OneId(rows.saved)' /\ HostsThere' /\ OneAlias'
    BY <1>0, <2>1 DEF Annotations, HostsThere, OneAlias, OneId
  <2>3. TaggedThere'
    BY <1>0, <2>1 DEF Annotations, TaggedThere
  <2>4. LinksThere'
    BY <1>0, <2>1 DEF Annotations, LinksThere
  <2>5. OneLink'
    BY <1>0, <2>1 DEF Annotations, OneLink
  <2> QED
    BY <1>5, <1>t, <2>1, <2>2, <2>3, <2>4, <2>5, FewerAnnotations DEF Forget, Annotations
<1>6. ASSUME NEW n \in Names, LookUpSearch(p, n) PROVE AnnotationInv'
  <2>1. proc'[p].pc = "save" /\ proc'[p].name = n /\ proc'[p].id = IdOf(rows.saved, n)
        /\ UNCHANGED rows
    BY <1>0, <1>6, WaitWaits DEF LookUpSearch
  <2>2. Waiting("tag-name")' \subseteq Waiting("tag-name")
        /\ Waiting("save")' \subseteq Waiting("save") \cup {<<n, IdOf(rows.saved, n)>>}
    BY <1>p, <2>1, WaitingLess, WaitingMore
  <2>3. Tags' \subseteq Tags /\ Searches' \subseteq Searches \cup {<<n, IdOf(rows.saved, n)>>}
        /\ rows.saved \subseteq Searches
    BY <2>1, <2>2 DEF Tags, Searches
  <2>4. rows.saved \in SUBSET (Names \X Ids)
    BY <1>0 DEF Rows
  <2>5. Apart(Searches)'
    <3>1. \A x \in Searches : x[2] \in Nat
      BY <1>0, ClaimIds
    <3> QED
      BY <1>0, <1>o, <2>3, <2>4, <3>1, IdOfApart DEF Apart
  <2>6. Apart(Tags)'
    <3>1. Types' /\ ops <= ops'
      BY <1>0, <1>t, <1>o DEF TypesAndWaits
    <3> QED
      BY <1>0, <2>3, <3>1, ClaimIds, ApartKept DEF Apart
  <2> QED
    BY <1>t, <2>1, <2>5, <2>6, RowsUntouched DEF AnnotationInv, Claims
<1>7. ASSUME NEW a \in Artifacts, NEW n \in Names, LookUpTag(p, a, n) PROVE AnnotationInv'
  <2>1. proc'[p].pc = "tag-name" /\ proc'[p].name = n /\ proc'[p].id = IdOf(rows.tags, n)
        /\ UNCHANGED rows
    BY <1>0, <1>7, WaitWaits DEF LookUpTag
  <2>2. Waiting("save")' \subseteq Waiting("save")
        /\ Waiting("tag-name")' \subseteq Waiting("tag-name") \cup {<<n, IdOf(rows.tags, n)>>}
    BY <1>p, <2>1, WaitingLess, WaitingMore
  <2>3. Searches' \subseteq Searches /\ Tags' \subseteq Tags \cup {<<n, IdOf(rows.tags, n)>>}
        /\ rows.tags \subseteq Tags
    BY <2>1, <2>2 DEF Tags, Searches
  <2>4. rows.tags \in SUBSET (Names \X Ids)
    BY <1>0 DEF Rows
  <2>5. Apart(Tags)'
    <3>1. \A x \in Tags : x[2] \in Nat
      BY <1>0, ClaimIds
    <3> QED
      BY <1>0, <1>o, <2>3, <2>4, <3>1, IdOfApart DEF Apart
  <2>6. Apart(Searches)'
    <3>1. Types' /\ ops <= ops'
      BY <1>0, <1>t, <1>o DEF TypesAndWaits
    <3> QED
      BY <1>0, <2>3, <3>1, ClaimIds, ApartKept DEF Apart
  <2> QED
    BY <1>t, <2>1, <2>5, <2>6, RowsUntouched DEF AnnotationInv, Claims
<1>8. ASSUME NEW a \in Artifacts, NEW b \in Artifacts, NEW kind \in Kinds, LookUpLink(p, a, b, kind)
      PROVE  AnnotationInv'
  <2>1. proc'[p].pc = "link" /\ UNCHANGED rows
    BY <1>0, <1>8, WaitWaits DEF LookUpLink
  <2>2. Claims'
    BY <1>0, <1>t, <1>o, <1>p, <2>1, NothingClaimed
  <2> QED
    BY <1>t, <2>1, <2>2, RowsUntouched DEF AnnotationInv
<1>9. CASE DeleteSearch(p)
  <2>1. PICK s \in rows.saved : rows' = [rows EXCEPT !.saved = @ \ {s}]
    BY <1>9 DEF DeleteSearch
  <2>2. /\ rows'.hosts = rows.hosts /\ rows'.artifacts = rows.artifacts
        /\ rows'.tags = rows.tags /\ rows'.saved \subseteq rows.saved
        /\ rows'.tagged = rows.tagged /\ rows'.links = rows.links
        /\ rows'.connections = rows.connections /\ rows'.aliases = rows.aliases
    BY <1>0, <2>1 DEF Rows
  <2>3. Annotations'
    BY <1>0, <2>2 DEF Annotations, TaggedThere, LinksThere, OneLink, OneId, HostsThere, OneAlias
  <2> QED
    BY <1>9, <1>t, <2>2, <2>3, FewerAnnotations DEF DeleteSearch
<1>10. CASE Untag(p) \/ Unlink(p)
  <2>1. /\ rows'.hosts = rows.hosts /\ rows'.artifacts = rows.artifacts
        /\ rows'.tags = rows.tags /\ rows'.saved = rows.saved
        /\ rows'.tagged \subseteq rows.tagged /\ rows'.links \subseteq rows.links
        /\ rows'.connections = rows.connections /\ rows'.aliases = rows.aliases
    BY <1>0, <1>10 DEF Untag, Unlink, Rows
  <2>2. OneId(rows.tags)' /\ OneId(rows.saved)' /\ HostsThere' /\ OneAlias'
    BY <1>0, <2>1 DEF Annotations, HostsThere, OneAlias, OneId
  <2>3. TaggedThere' /\ LinksThere' /\ OneLink'
    BY <1>0, <2>1 DEF Annotations, TaggedThere, LinksThere, OneLink
  <2>4. Annotations'
    BY <2>2, <2>3 DEF Annotations
  <2> QED
    BY <1>10, <1>t, <2>1, <2>4, FewerAnnotations DEF Untag, Unlink
<1>11. CASE CreateBackup(p)
  BY <1>11, <1>t, RowsUntouched, FewerAnnotations DEF CreateBackup
<1> QED
  BY <1>1, <1>2, <1>3, <1>4, <1>5, <1>6, <1>7, <1>8, <1>9, <1>10, <1>11 DEF BeginOperation

(* What users keep in the catalog refers to artifacts, hosts and tags that *)
(* are there, under names and ids that stay unique, though the lookup and  *)
(* the insert of an operation are statements of their own.                 *)
THEOREM AnnotationsConsistent == Spec => []AnnotationsHold
<1>1. Init => Claims /\ Annotations
  <2> SUFFICES ASSUME Init PROVE Claims /\ Annotations
    OBVIOUS
  <2>1. Waiting("tag-name") = {} /\ Waiting("save") = {}
    BY DEF Init, Closed, Waiting
  <2>2. Claims
    BY <2>1 DEF Init, Claims, Tags, Searches, Apart
  <2>3. Annotations
    BY DEF Init, Annotations, TaggedThere, LinksThere, OneLink, OneId, HostsThere, OneAlias
  <2> QED
    BY <2>2, <2>3
<1>2. AnnotationInv /\ [Next]_vars => AnnotationInv'
  <2> SUFFICES ASSUME AnnotationInv, [Next]_vars PROVE AnnotationInv'
    OBVIOUS
  <2>1. CASE Next
    BY <2>1, OpenAnnotations, OperationAnnotations, BeginAnnotations DEF Next
  <2>2. CASE UNCHANGED vars
    <3>1. TypesAndWaits'
      BY <2>2, NextWaits DEF AnnotationInv
    <3>2. Claims'
      BY <2>2 DEF vars, AnnotationInv, Claims, Apart, Tags, Searches, Waiting
    <3> QED
      BY <2>2, <3>1, <3>2, RowsUntouched DEF vars, AnnotationInv
  <2> QED
    BY <2>1, <2>2
<1>3. Init => TypesAndWaits
  <2> SUFFICES ASSUME Init PROVE TypesAndWaits
    OBVIOUS
  <2>1. \A q \in Procs : proc[q].pc = "closed"
    BY DEF Init, Closed
  <2> QED
    BY <2>1, InitType DEF TypesAndWaits, Waits
<1>4. Init => AnnotationInv
  BY <1>1, <1>3 DEF AnnotationInv
<1>5. AnnotationInv => AnnotationsHold
  BY AnnotationParts DEF AnnotationInv
<1> QED
  BY <1>2, <1>4, <1>5, PTL DEF Spec
=============================================================================
