CONSTANTS
  Agents = {a1}
  NoAgent = NoAgent
  Sessions = {s1, s2}
  Threads = {t1}
  Snapshots = {A, B}
  Untitled = {B}
  NoSnapshot = NoSnapshot
  Filed = {t1}
  FromFile = FromFile
  Notices = {}
  OutboxCap = 2
  PageLimit = 1
  MaxFaults = 1
SPECIFICATION FairSpec
PROPERTIES EventuallyDelivered RowsConverge
