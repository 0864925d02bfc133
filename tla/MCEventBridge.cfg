SPECIFICATION FairSpec
CONSTANTS
  Gaps <- MCGaps
  Overlap = 2
  PersistInterval = 2
  BridgeCapacity = 1
  MaxEvents = 4
  MaxIncidents = 2
INVARIANTS CursorsSkipNothing
PROPERTIES FirstTriesInOrder EveryRecordHandled
CHECK_DEADLOCK FALSE
