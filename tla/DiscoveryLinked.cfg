CONSTANTS
  Explicit <- MCExplicitLinked
  Profiles = {}
  SessionIndex = SessionIndex
  Guidance = {}
  SessionIds = {}
  Memories = {}
  Candidates = {f1}
  Indexed = {}
  Linked <- MCLinked
  First <- MCFirst
  NoCollection = NoCollection
  MaxChanges = 1
  MaxFailures = 0
SPECIFICATION DiscoveryFairSpec
PROPERTIES LinksFollowed
