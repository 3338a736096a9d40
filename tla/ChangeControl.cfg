SPECIFICATION Spec
CONSTANTS
  Files = {f}
  RuntimeDocs = {}
  Contents = {A, B}
  Absent = Absent
  Changes = {c1}
  Approvals = {a1, a2}
  Controllers = {k1, k2}
  Retries = {r1}
  NoChange = NoChange
  NoApproval = NoApproval
  NoCopy = NoCopy
  ReplayCap = 2
  MaxEdits = 1
  MaxFaults = 1
SYMMETRY Symmetry
CHECK_DEADLOCK FALSE
INVARIANTS ApprovalUsedOnce Reversible AuditTruthful
PROPERTIES ReplacesExpected ImplementsDocuments
