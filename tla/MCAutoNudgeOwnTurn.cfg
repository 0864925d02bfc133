\* No background continuation is needed to nudge after a nudge's own turn.
CONSTANTS
  MaxRevision = 1
  Caps = {2}
  MaxTurns = 2
  MaxEnds = 1
  MaxStops = 0
  MaxInFlight = 1
  Places = {"archived"}
  Holds = {"continued"}
  MaxBoots = 0
SPECIFICATION Spec
PROPERTY OwnTurnNeverAuthorizes
CHECK_DEADLOCK FALSE
