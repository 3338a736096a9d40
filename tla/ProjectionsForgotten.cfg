CONSTANTS
  N = 2
  Contents = {A}
  None = None
  Rebuilds = {p1}
  Retrievals = {q1}
  BatchSize = 1
SPECIFICATION Spec
INVARIANTS ForgottenErased
