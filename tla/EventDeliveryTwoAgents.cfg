CONSTANTS
  Agents = {a1, a2}
  NoAgent = NoAgent
  Sessions = {s1}
  Threads = {t1}
  Snapshots = {A}
  Untitled = {}
  NoSnapshot = NoSnapshot
  Filed = {}
  FromFile = FromFile
  Notices = {n1, n2}
  OutboxCap = 3
  PageLimit = 3
  MaxFaults = 0
SPECIFICATION Spec
INVARIANTS AtLeastOnce
