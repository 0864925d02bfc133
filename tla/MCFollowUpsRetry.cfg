SPECIFICATION Spec
CONSTANTS
  f1 = f1
  f2 = f2
  direct = direct
  Items <- MCOne
  Direct <- direct
  MaxQueue = 1
  MaxSends = 3
  MaxTurns = 2
  MaxIncidents = 1
INVARIANT OnceUnlessUnanswered
INVARIANT AcceptedWasDelivered
INVARIANT HandoffIsOwned
CHECK_DEADLOCK FALSE
