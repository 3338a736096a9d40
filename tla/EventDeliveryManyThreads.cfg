CONSTANTS
  Agents = {a1}
  NoAgent = NoAgent
  Sessions = {s1}
  Threads = {t1, t2, t3}
  Snapshots = {A}
  Untitled = {}
  NoSnapshot = NoSnapshot
  Filed = {}
  FromFile = FromFile
  Notices = {}
  OutboxCap = 2
  PageLimit = 2
  MaxFaults = 0
SPECIFICATION FairSpec
PROPERTIES EveryThreadDelivered
