CONSTANTS
  Explicit <- MCExplicit
  Profiles = {}
  SessionIndex = SessionIndex
  Guidance = {}
  SessionIds = {s}
  Memories = {}
  Candidates = {f1}
  Indexed = {s}
  Linked = {}
  First <- MCFirst
  NoCollection = NoCollection
  MaxChanges = 2
  MaxFailures = 0
SPECIFICATION DiscoverySpec
INVARIANTS NoSessionMissed
