SPECIFICATION Spec
CONSTANTS
  f1 = f1
  f2 = f2
  direct = direct
  Items <- MCItems
  Direct <- direct
  MaxQueue = 2
  MaxSends = 2
  MaxTurns = 1
  MaxIncidents = 1
INVARIANT TypeOK
INVARIANT HandoffIsHead
PROPERTY DeliveredFromTheHead
CHECK_DEADLOCK FALSE
