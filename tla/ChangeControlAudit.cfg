SPECIFICATION Spec
CONSTANTS
  Files = {f}
  RuntimeDocs = {}
  Contents = {A, B}
  Absent = Absent
  Changes = {c1}
  Approvals = {a1}
  Controllers = {k1}
  Retries = {}
  NoChange = NoChange
  NoApproval = NoApproval
  NoCopy = NoCopy
  ReplayCap = 2
  MaxEdits = 0
  MaxFaults = 1
CHECK_DEADLOCK FALSE
INVARIANTS WritesAudited
