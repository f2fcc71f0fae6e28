SPECIFICATION FairScreensSpec
CONSTANTS
  Starts = {"draft", "available", "claimed", "delivered", "in_review",
            "revision_requested", "approved", "completed", "archived", "cancelled"}
  MaxChanges = 1
INVARIANTS ScreensTypeOK NotBehind OffersAreHonest
PROPERTY CatchesUp
CHECK_DEADLOCK FALSE
