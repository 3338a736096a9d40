CONSTANTS
  Sessions = {s1}
  Contents = {A}
  Absent = Absent
  NoBatch = NoBatch
  MaxVersions = 3
  OutboxCap = 2
  MaxFaults = 1
  MaxIgnored = 1
SPECIFICATION FairSpec
INVARIANTS CursorBacked TombstonesHold LiveIsFresh
PROPERTIES CatchesUp
