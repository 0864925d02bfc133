\* Two turns to nudge after, a revision that reaches its maximum.
CONSTANTS
  MaxRevision = 2
  Caps = {1}
  MaxTurns = 2
  MaxEnds = 2
  MaxStops = 1
  MaxInFlight = 2
  Places = {"archived"}
  Holds = {"queued","continued"}
  MaxBoots = 1
SPECIFICATION Spec
INVARIANTS NudgedOnce RoundsWithinCap
PROPERTIES StopHolds NudgesAreFresh
CHECK_DEADLOCK FALSE
