SPECIFICATION Spec
CONSTANTS
  MaxFiles = 1
  MaxRecounted = 1
  MaxRequests = 1
  Modes = {"recounting"}
  Faults = {}
PROPERTY ManualAlwaysWins
CHECK_DEADLOCK FALSE
