SPECIFICATION Spec
CONSTANTS
  Orders <- MCOrders
  Texts <- MCTexts
  Slots = {"repo", "url"}
  PageSlot = "url"
  Resets <- MCResets
  NoLink = "none"
  NoOrder = 0
  MaxTexts = 3
  MaxDisturbances = 1
INVARIANTS TypeOK BoughtIsJudged RerunSeesLatest NudgedOnce
PROPERTIES QuietIsNudged
CHECK_DEADLOCK FALSE
