SPECIFICATION FairSpec
CONSTANTS
  Sources = {"certificate"}
  Office = {"pm", "pm2"}
  Client = "client"
  Whole = "none"
  MaxRows = 3
  Askers = {"pm2"}
  MaxCrashes = 1
INVARIANTS FulfilledIsAnswered OneBoxPerAsk NothingUnreachable
PROPERTIES WithdrawnStays BoxComesBack
CHECK_DEADLOCK FALSE
