--------------------------- MODULE MCCatalogStore ---------------------------
(* Two artifacts of two hosts, and the catalogs an earlier release left:   *)
(* one before versions were recorded, one that stopped at version 2.       *)
EXTENDS CatalogStore

CONSTANTS h1, h2, a1, a2, c1, c2

MCHostOf == [a \in {a1, a2} |-> IF a = a1 THEN h1 ELSE h2]
MCRank == [a \in {a1, a2} |-> IF a = a1 THEN 1 ELSE 2]
MCTables == <<"schema_migrations", "providers", "annotations">>
MCColumns == <<c1, c2>>
MCLegacy ==
  {[file |-> "written", tables |-> {"providers"}, versions |-> {}, columns |-> {}],
   [file |-> "written", tables |-> {"schema_migrations", "providers"},
    versions |-> {1, 2}, columns |-> {c1}]}
=============================================================================
