CONSTANTS
  Sessions = {s1, s2}
  Contents = {A, B}
  Absent = Absent
  NoBatch = NoBatch
  MaxVersions = 2
  OutboxCap = 2
  MaxFaults = 0
  MaxIgnored = 0
SPECIFICATION Spec
INVARIANTS LiveIsFresh
