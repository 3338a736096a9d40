CONSTANTS
  Explicit <- MCExplicit
  Profiles = {}
  SessionIndex = SessionIndex
  Guidance = {}
  SessionIds = {}
  Memories = {}
  Candidates = {f1}
  Indexed = {}
  Linked = {}
  First <- MCFirst
  NoCollection = NoCollection
  MaxChanges = 2
  MaxFailures = 0
SPECIFICATION DiscoverySpec
INVARIANTS NothingOutlivesItsFile
