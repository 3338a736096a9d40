CONSTANTS
  Events = {r1, n1, n2}
  Recurring = {r1}
  NoEvent = NoEvent
  OutboxCap = 2
  MaxInFlight = 2
  FrameBuffer = 1
  MaxHeartbeats = 1
  MaxStreams = 1
  MaxFaults = 1
SPECIFICATION FairSpec
INVARIANTS FramesInOrder WindowHolds
PROPERTIES NothingLostSilently ImplementsLog EventuallyStreamed
