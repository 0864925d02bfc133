CONSTANTS
  EventIds = {e1}
  Capacity = 2
  PruneInterval = 1
  PruneBatch = 1
  MaxRows = 4
  Streams = {s1}
  PageSize = 1
  LiveLimit = 1
  LiveMultiplier = 2
SPECIFICATION FairSpec
INVARIANTS NewestRowsSurvive WaitingIsCaughtUp NoLeakedListener
PROPERTIES DeliversLog EveryRowReachesOpenStreams
