SPECIFICATION Spec
CONSTANTS
  Turns = {1, 2}
  MaxRequests = 2
  MaxUpsets = 0
  MayComplete = {1, 2}
  MayFail = {}
PROPERTY CapturedStays
CHECK_DEADLOCK FALSE
