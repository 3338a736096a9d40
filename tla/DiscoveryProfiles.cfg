CONSTANTS
  Explicit <- MCExplicit
  Profiles = {p}
  SessionIndex = SessionIndex
  Guidance = {}
  SessionIds = {}
  Memories = {}
  Candidates = {f1}
  Indexed = {}
  Linked = {}
  First <- MCFirst
  NoCollection = NoCollection
  MaxChanges = 1
  MaxFailures = 0
SPECIFICATION DiscoveryFairSpec
PROPERTIES ProfilesFollowed
