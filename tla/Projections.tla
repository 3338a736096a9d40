---------------------------- MODULE Projections ----------------------------
(***************************************************************************)
(* What is derived from the catalog's artifacts: the rows of the full text *)
(* table search_content, and the chunks of the optional RAG index.         *)
(*                                                                         *)
(* Every Controller command, MCP server and desktop window is a process of *)
(* its own on one SQLite file, whose transactions are atomic.  An ingest   *)
(* and a forget write artifact and search row in one transaction.  A       *)
(* rebuild clears the table and fills it again in chunks, reading each     *)
(* chunk outside the transaction that inserts it.  A retrieval searches,   *)
(* removes stale chunks, loads the rest, adds what it found, embeds it and *)
(* replaces the whole chunk table, all in separate transactions.           *)
(*                                                                         *)
(* Artifacts are numbered in the order of artifact_id, which is random.    *)
(***************************************************************************)
EXTENDS Integers, FiniteSets

CONSTANTS
  N,            \* artifacts that may ever exist
  Contents,     \* title and content of an artifact, as stored
  None,         \* no artifact
  Rebuilds,     \* processes that run rebuild-index
  Retrievals,   \* processes that serve amcp_retrieve_context
  BatchSize     \* artifacts in a chunk of a rebuild, 1 to 1000

ASSUME ConstantsAssumption ==
  /\ N \in Nat
  /\ None \notin Contents
  /\ None \notin Rebuilds
  /\ BatchSize \in Nat \ {0}

Ids    == 1..N
Stored == Contents \cup {None}
Row    == [id : Ids, content : Contents]

VARIABLES
  artifact,   \* content of each artifact in the catalog
  entries,    \* how many search rows an artifact has with a content
  rebuild,    \* per process, how far its rebuild is
  chunks,     \* the artifacts with chunks in rag_chunks
  retrieval,  \* per process, how far its retrieval is
  tombstones, \* the artifacts whose contents have a policy tombstone
  cleared,    \* history: the process that last emptied search_content
  whole,      \* history: "yes" when that rebuild has completed
  quiet,      \* history: per rebuild, "yes" while nobody else wrote
  known       \* history: per retrieval, the artifacts there were since it began

catalogVars == <<artifact, tombstones>>
searchVars  == <<entries, cleared, whole>>
vars == <<catalogVars, searchVars, rebuild, quiet, chunks, retrieval, known>>

Catalogued == {i \in Ids : artifact[i] # None}

Rebuild   == [phase : {"idle", "begun", "reading", "inserting", "done"},
              last : 0..N, rows : SUBSET Row]
Retrieval == [phase : {"idle", "searched", "compared", "marked", "invalidated",
                       "loaded", "answering"},
              hits   : SUBSET Ids,    \* artifacts the search returned
              stale  : SUBSET Ids,    \* artifacts whose chunks are to go
              memory : SUBSET Ids]    \* artifacts with chunks in the manager

NoRebuild == [phase |-> "idle", last |-> 0, rows |-> {}]
NoRetrieval == [phase |-> "idle", hits |-> {}, stale |-> {}, memory |-> {}]

TypeOK ==
  /\ artifact \in [Ids -> Stored]
  /\ tombstones \in SUBSET (Ids \ Catalogued)
  /\ entries \in [Ids -> [Contents -> Nat]]
  /\ rebuild \in [Rebuilds -> Rebuild]
  /\ chunks \in SUBSET Ids
  /\ retrieval \in [Retrievals -> Retrieval]
  /\ cleared \in Rebuilds \cup {None}
  /\ whole \in {"yes", "no"}
  /\ quiet \in [Rebuilds -> {"yes", "no"}]
  /\ known \in [Retrievals -> SUBSET Ids]

Init ==
  /\ artifact = [i \in Ids |-> None]
  /\ tombstones = {}
  /\ entries = [i \in Ids |-> [c \in Contents |-> 0]]
  /\ rebuild = [p \in Rebuilds |-> NoRebuild]
  /\ chunks = {}
  /\ retrieval = [q \in Retrievals |-> NoRetrieval]
  /\ cleared = None
  /\ whole = "yes"
  /\ quiet = [p \in Rebuilds |-> "yes"]
  /\ known = [q \in Retrievals |-> {}]
-----------------------------------------------------------------------------
(* Some process other than those in S writes search_content.               *)
Disturb(S) == quiet' = [p \in Rebuilds |-> IF p \in S THEN quiet[p] ELSE "no"]

Only(c) == [d \in Contents |-> IF d = c THEN 1 ELSE 0]

(* A collected artifact, new, there already or back from an older batch:   *)
(* its search rows are replaced by one.  A tombstone keeps it out.         *)
Ingest(i, c) ==
  /\ i \notin tombstones
  /\ artifact' = [artifact EXCEPT ![i] = c]
  /\ entries' = [entries EXCEPT ![i] = Only(c)]
  /\ known' = [q \in Retrievals |-> known[q] \cup {i}]
  /\ Disturb({})
  /\ UNCHANGED <<tombstones, cleared, whole, rebuild, chunks, retrieval>>

(* Forget a memory record: the artifacts of its source, their search rows  *)
(* and their chunks.  The one with the record's content gets a tombstone.  *)
Forget(S, T) ==
  /\ S # {}
  /\ artifact' = [i \in Ids |-> IF i \in S THEN None ELSE artifact[i]]
  /\ entries' = [i \in Ids |-> IF i \in S THEN [c \in Contents |-> 0] ELSE entries[i]]
  /\ chunks' = chunks \ S
  /\ tombstones' = tombstones \cup T
  /\ Disturb({})
  /\ UNCHANGED <<cleared, whole, rebuild, retrieval, known>>
-----------------------------------------------------------------------------
(* rebuild-index.  The run is recorded as running.                         *)
Begin(p) ==
  /\ rebuild[p].phase \in {"idle", "done"}
  /\ rebuild' = [rebuild EXCEPT ![p] = [NoRebuild EXCEPT !.phase = "begun"]]
  /\ quiet' = [quiet EXCEPT ![p] = "yes"]
  /\ UNCHANGED <<catalogVars, searchVars, chunks, retrieval, known>>

(* Bug: rely on the chunks to replace what is there.                       *)
ClearNothing(p) ==
  /\ rebuild[p].phase = "begun"
  /\ rebuild' = [rebuild EXCEPT ![p].phase = "reading"]
  /\ UNCHANGED <<catalogVars, searchVars, quiet, chunks, retrieval, known>>

Clear(p) ==
  /\ rebuild[p].phase = "begun"
  /\ rebuild' = [rebuild EXCEPT ![p].phase = "reading"]
  /\ entries' = [i \in Ids |-> [c \in Contents |-> 0]]
  /\ cleared' = p
  /\ whole' = "no"
  /\ Disturb({p})
  /\ UNCHANGED <<catalogVars, chunks, retrieval, known>>

(* Bug: the boundary of a chunk is skipped.                                *)
AheadExclusive(p, k) == {i \in Catalogued : rebuild[p].last < i /\ i < k}

(* The artifacts after the last one that was read, up to k.                *)
Ahead(p, k) == {i \in Catalogued : rebuild[p].last < i /\ i <= k}

(* The next BatchSize artifacts, or all that are left.                     *)
ReadChunk(p) ==
  /\ rebuild[p].phase = "reading"
  /\ \E k \in Catalogued :
       /\ rebuild[p].last < k
       /\ Cardinality(Ahead(p, k)) <= BatchSize
       /\ Cardinality(Ahead(p, k)) = BatchSize \/ \A i \in Catalogued : i <= k
       /\ rebuild' = [rebuild EXCEPT ![p] =
            [phase |-> "inserting", last |-> k,
             rows |-> {r \in Row : r.id \in Ahead(p, k) /\ r.content = artifact[r.id]}]]
  /\ UNCHANGED <<catalogVars, searchVars, quiet, chunks, retrieval, known>>

(* The table has no key: a row is added whatever is there.                 *)
InsertChunk(p) ==
  /\ rebuild[p].phase = "inserting"
  /\ entries' = [i \in Ids |-> [c \in Contents |->
                   IF [id |-> i, content |-> c] \in rebuild[p].rows
                   THEN entries[i][c] + 1 ELSE entries[i][c]]]
  /\ rebuild' = [rebuild EXCEPT ![p].phase = "reading", ![p].rows = {}]
  /\ Disturb({p})
  /\ UNCHANGED <<catalogVars, cleared, whole, chunks, retrieval, known>>

Complete(p) ==
  /\ rebuild[p].phase = "reading"
  /\ \A i \in Catalogued : i <= rebuild[p].last
  /\ rebuild' = [rebuild EXCEPT ![p].phase = "done"]
  /\ whole' = IF cleared = p THEN "yes" ELSE whole
  /\ UNCHANGED <<catalogVars, entries, cleared, quiet, chunks, retrieval, known>>

(* A statement fails or the process dies; what was cleared stays cleared.  *)
Stop(p) ==
  /\ rebuild[p].phase \in {"begun", "reading", "inserting"}
  /\ rebuild' = [rebuild EXCEPT ![p] = NoRebuild]
  /\ UNCHANGED <<catalogVars, searchVars, quiet, chunks, retrieval, known>>
-----------------------------------------------------------------------------
(* amcp_retrieve_context.                                                  *)
Step(q, r) == retrieval' = [retrieval EXCEPT ![q] = r]

(* A search joins its rows with the artifacts that are there; the query    *)
(* and the limit decide which it returns.                                  *)
Found == {i \in Catalogued : \E c \in Contents : entries[i][c] > 0}

Search(q, hits) ==
  /\ retrieval[q].phase = "idle"
  /\ Step(q, [phase |-> "searched", hits |-> hits, stale |-> {}, memory |-> {}])
  /\ known' = [known EXCEPT ![q] = Catalogued]
  /\ UNCHANGED <<catalogVars, searchVars, rebuild, quiet, chunks>>

(* Read which artifacts there are.  An artifact keeps its source hash, so  *)
(* a chunk is stale when its artifact has gone.                            *)
Compare(q) ==
  /\ retrieval[q].phase = "searched"
  /\ Step(q, [retrieval[q] EXCEPT !.phase = "compared", !.stale = Ids \ Catalogued])
  /\ UNCHANGED <<catalogVars, searchVars, rebuild, quiet, chunks, known>>

(* Load the chunks, to see which of them are stale.                        *)
Mark(q) ==
  /\ retrieval[q].phase = "compared"
  /\ Step(q, [retrieval[q] EXCEPT !.phase = "marked", !.stale = @ \cap chunks])
  /\ UNCHANGED <<catalogVars, searchVars, rebuild, quiet, chunks, known>>

(* Bug: load the chunks only, and leave the stale ones for later.          *)
InvalidateNothing(q) ==
  /\ retrieval[q].phase = "marked"
  /\ Step(q, [retrieval[q] EXCEPT !.phase = "invalidated", !.stale = {}])
  /\ UNCHANGED <<catalogVars, searchVars, rebuild, quiet, chunks, known>>

Invalidate(q) ==
  /\ retrieval[q].phase = "marked"
  /\ chunks' = chunks \ retrieval[q].stale
  /\ Step(q, [retrieval[q] EXCEPT !.phase = "invalidated", !.stale = {}])
  /\ UNCHANGED <<catalogVars, searchVars, rebuild, quiet, known>>

(* Load the chunks, replace those the search found and drop what is out of *)
(* scope or expired; the embeddings are computed before the next step.     *)
Load(q, dropped) ==
  /\ retrieval[q].phase = "invalidated"
  /\ Step(q, [phase |-> "loaded", hits |-> {}, stale |-> {},
              memory |-> (chunks \cup retrieval[q].hits) \ dropped])
  /\ UNCHANGED <<catalogVars, searchVars, rebuild, quiet, chunks, known>>

(* Delete all chunks and insert those in memory, in one transaction; the   *)
(* answer is chosen from memory.                                           *)
Replace(q) ==
  /\ retrieval[q].phase = "loaded"
  /\ chunks' = retrieval[q].memory
  /\ Step(q, [retrieval[q] EXCEPT !.phase = "answering"])
  /\ UNCHANGED <<catalogVars, searchVars, rebuild, quiet, known>>

(* The answer is given; or the process fails or dies on the way.           *)
EndRetrieval(q) ==
  /\ retrieval[q].phase # "idle"
  /\ Step(q, NoRetrieval)
  /\ known' = [known EXCEPT ![q] = {}]
  /\ UNCHANGED <<catalogVars, searchVars, rebuild, quiet, chunks>>

(* rag-clear.                                                              *)
ClearRag ==
  /\ chunks' = {}
  /\ UNCHANGED <<catalogVars, searchVars, rebuild, quiet, retrieval, known>>
-----------------------------------------------------------------------------
RebuildStep(p) ==
  Begin(p) \/ Clear(p) \/ ReadChunk(p) \/ InsertChunk(p) \/ Complete(p) \/ Stop(p)

RetrievalStep(q) ==
  \/ \E hits \in SUBSET Found : Search(q, hits)
  \/ Compare(q)
  \/ Mark(q)
  \/ Invalidate(q)
  \/ \E dropped \in SUBSET Ids : Load(q, dropped)
  \/ Replace(q)
  \/ EndRetrieval(q)

Next ==
  \/ \E i \in Ids, c \in Contents : Ingest(i, c)
  \/ \E S \in SUBSET Catalogued : \E T \in {{}} \cup {{i} : i \in S} : Forget(S, T)
  \/ \E p \in Rebuilds : RebuildStep(p)
  \/ \E q \in Retrievals : RetrievalStep(q)
  \/ ClearRag

Spec == Init /\ [][Next]_vars
-----------------------------------------------------------------------------
(* Everything in the catalog can be found by what it says now, unless the  *)
(* rebuild that last emptied the table is still going on or was stopped:   *)
(* no ingest is lost to a rebuild, and no rebuild to another one.          *)
Searchable ==
  whole = "yes" => \A i \in Catalogued : entries[i][artifact[i]] > 0

(* A rebuild that worked alone leaves one row per artifact and no other.   *)
RebuildExact ==
  \A p \in Rebuilds :
    rebuild[p].phase = "done" /\ quiet[p] = "yes" =>
      \A i \in Ids, c \in Contents : entries[i][c] = IF artifact[i] = c THEN 1 ELSE 0

(* One retrieval at a time.                                                *)
SingleRetrieval == \A q, r \in Retrievals : q = r

(* A retrieval answers from artifacts that were in the catalog when it     *)
(* began or came since, never from one that was forgotten before.          *)
CitesKnown ==
  \A q \in Retrievals : retrieval[q].phase = "answering" =>
    retrieval[q].memory \subseteq known[q]

(* What is not in the catalog, or no longer, is in neither projection.     *)
ForgottenErased ==
  \A i \in Ids \ Catalogued : i \notin chunks /\ \A c \in Contents : entries[i][c] = 0
=============================================================================
