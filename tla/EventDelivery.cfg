CONSTANTS
  Agents = {a1}
  NoAgent = NoAgent
  Sessions = {s1, s2}
  Threads = {t1}
  Snapshots = {A}
  Untitled = {}
  NoSnapshot = NoSnapshot
  Filed = {t1}
  FromFile = FromFile
  Notices = {n1, n2}
  OutboxCap = 2
  PageLimit = 2
  MaxFaults = 1
SPECIFICATION Spec
SYMMETRY Symmetry
INVARIANTS AtLeastOnce
PROPERTIES NothingLostSilently ImplementsLog
