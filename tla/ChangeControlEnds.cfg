SPECIFICATION FairSpec
CONSTANTS
  Files = {f}
  RuntimeDocs = {t}
  Contents = {A, B}
  Absent = Absent
  Changes = {c1}
  Approvals = {a1, a2}
  Controllers = {k1}
  Retries = {}
  NoChange = NoChange
  NoApproval = NoApproval
  NoCopy = NoCopy
  ReplayCap = 2
  MaxEdits = 1
  MaxFaults = 1
CHECK_DEADLOCK FALSE
INVARIANTS StatusTells
PROPERTIES InvocationEnds
