CONSTANTS
  Explicit <- MCExplicit
  Profiles = {}
  SessionIndex = SessionIndex
  Guidance = {}
  SessionIds = {}
  Memories = {}
  Candidates = {f1}
  Indexed = {}
  Linked = {}
  First <- MCFirst
  NoCollection = NoCollection
  MaxChanges = 1
  MaxFailures = 1
SPECIFICATION DiscoveryFairSpec
PROPERTIES EveryRecordInTheEnd
