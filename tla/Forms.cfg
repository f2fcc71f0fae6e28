SPECIFICATION FormsSpec
CONSTANTS
  Desks = {d1, d2}
  Families = {"user", "pairs", "client", "template", "invoice", "day", "preferences"}
  MaxEdits = 2
  MaxVisits = 3
  MaxCalls = 2
INVARIANTS FormsTypeOK ArtworkOnDisk
PROPERTIES FormsUndoNothing TypingSurvives
CHECK_DEADLOCK FALSE
SYMMETRY Symmetry
