SPECIFICATION Spec
SYMMETRY Symmetry
CONSTANTS
  Desk = {pm, admin}
  Converters = {pm, admin}
  Visitors = {"visitor"}
  References = {1, 2}
  Prices = {1, 2}
  MaxRequests = 2
  MaxProjects = 2
  MaxMoves = 4
  MaxPricings = 2
  MaxLost = 1
INVARIANTS OneOfEach PricesHold
PROPERTY LaneFollowed
CHECK_DEADLOCK FALSE
