SPECIFICATION Spec
CONSTANTS
  Projects = {p1, p2}
  Translators = {t1, t2}
  FileIds = {f1, f2}
  None = None
  MaxAssignments = 2
  MaxRounds = 2
  MaxInFlight = 3
SYMMETRY Symmetry
INVARIANTS OneActive StatusIsBacked
PROPERTIES
  DeliveryIsFinal
  RoundsFollowDeliveries
  ClientViewHolds
