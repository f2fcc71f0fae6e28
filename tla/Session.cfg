SPECIFICATION FairSpec
CONSTANTS
  Staff = {"a", "b"}
  Clients = {"c", "d"}
  MaxTokens = 3
  MaxOpens = 1
  MaxLate = 1
INVARIANT ShownIsOwner
PROPERTIES RealmsApart GuardSettles
CHECK_DEADLOCK FALSE
