SPECIFICATION FairSpec
CONSTANTS
  Docs = {"f", "g"}
  Seals = {"seal"}
  Nothing = "nothing"
  MaxPicks = 2
  MaxSends = 2
  MaxRounds = 2
  MaxEdits = 1
INVARIANTS TypeOK PlacedOnItsOwn HandedOverOnce ApprovedAsShown
PROPERTY NothingHangs
CHECK_DEADLOCK FALSE
