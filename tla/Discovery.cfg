CONSTANTS
  Explicit <- MCExplicitLinked
  Profiles = {p}
  SessionIndex = SessionIndex
  Guidance = {}
  SessionIds = {s}
  Memories = {}
  Candidates = {f1}
  Indexed = {s}
  Linked <- MCLinked
  First <- MCFirst
  NoCollection = NoCollection
  MaxChanges = 2
  MaxFailures = 1
SPECIFICATION DiscoveryFairSpec
INVARIANTS DiscoveryTypeOK ExactWhileCursorHolds
PROPERTIES UntouchedReported EventuallyExact
