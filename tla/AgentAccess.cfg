CONSTANTS
  Commands = {c1, c2}
  Collectors = {c1}
  Enrollers = {e1, e2}
  Resident = Resident
  None = None
  Dev = Dev
  Own = Own
  Deployments <- AllDeployments
  MaxStarts = 2
  MaxFaults = 1
SPECIFICATION FairSpec
CHECK_DEADLOCK FALSE
INVARIANTS KeptIsAccepted
PROPERTIES InvocationEnds
