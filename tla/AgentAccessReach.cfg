CONSTANTS
  Commands = {c1, c2}
  Collectors = {c1}
  Enrollers = {e1, e2}
  Resident = Resident
  None = None
  Dev = Dev
  Own = Own
  Deployments <- AllDeployments
  MaxStarts = 2
  MaxFaults = 1
SPECIFICATION Spec
CHECK_DEADLOCK FALSE
INVARIANT ResidentReachable
