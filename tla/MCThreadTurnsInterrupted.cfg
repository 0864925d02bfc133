SPECIFICATION Spec
CONSTANTS
  Turns = {1}
  MaxRequests = 1
  MaxUpsets = 1
  MayComplete = {}
  MayFail = {}
PROPERTY InterruptedStays
CHECK_DEADLOCK FALSE
