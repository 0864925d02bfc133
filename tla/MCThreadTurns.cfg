SPECIFICATION Spec
CONSTANTS
  Turns = {1, 2}
  MaxRequests = 2
  MaxUpsets = 1
  MayComplete = {1, 2}
  MayFail = {1}
INVARIANT TypeOK
INVARIANT SettledAtRest
INVARIANT CheckpointsAgree
PROPERTY LatestForward
PROPERTY TurnsStayEnded
CHECK_DEADLOCK FALSE
