CONSTANTS
  Procs = {p1, p2}
  a1 = a1
  a2 = a2
  h1 = h1
  h2 = h2
  c1 = c1
  c2 = c2
  Artifacts = {a1, a2}
  HostOf <- MCHostOf
  Rank <- MCRank
  Names = {n1}
  Kinds = {k1, k2}
  Tables <- MCTables
  Columns <- MCColumns
  CurrentVersion = 3
  Legacy <- MCLegacy
  None = None
  MaxOps = 2
  MaxFaults = 1
SPECIFICATION FairSpec
INVARIANTS TypeOK SchemaComplete LegacyKept AnnotationsHold
PROPERTIES EventuallyOpens
