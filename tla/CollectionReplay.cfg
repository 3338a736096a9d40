CONSTANTS
  Sessions = {s1}
  Contents = {A, B}
  Absent = Absent
  NoBatch = NoBatch
  MaxVersions = 2
  OutboxCap = 2
  MaxFaults = 0
  MaxIgnored = 0
SPECIFICATION Spec
PROPERTIES ReplayIdempotent
