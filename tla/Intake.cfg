SPECIFICATION Spec
CONSTANTS
  PMs = {pm1, pm2}
  Client = Client
  Nobody = Nobody
  MaxFiles = 2
  MaxRequests = 2
  WithdrawDrafts = TRUE
SYMMETRY Symmetry
PROPERTY OwnerIsFinal
CHECK_DEADLOCK FALSE
