CONSTANTS
  N = 2
  Contents = {A, B}
  None = None
  Rebuilds = {p1, p2}
  Retrievals = {q1}
  BatchSize = 1
SPECIFICATION Spec
SYMMETRY Symmetry
INVARIANTS Searchable RebuildExact CitesKnown
CONSTRAINT Apart
