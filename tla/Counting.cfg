SPECIFICATION FairSpec
CONSTANTS
  MaxFiles = 2
  MaxRecounted = 1
  MaxRequests = 1
  Modes = {"serial", "overlapping", "recounting"}
  Faults = {"throw", "timeout", "kill", "late", "api"}
INVARIANTS TypeOK TotalsMatch
PROPERTIES ManualWins CountSettles
CHECK_DEADLOCK FALSE
