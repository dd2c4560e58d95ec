SPECIFICATION PSpec
CONSTANTS
  Producers = {"hook", "watch"}
  Capacity = 2
  MaxEvents = 2
  MaxBreaks = 1
  MaxEdits = 2
  Emptied = {1}
INVARIANTS
  PTypeOK
  NoSpuriousNudge
  BlipDropsNothing
  NoDuplicates
  InOrder
  SeenIsShown
PROPERTIES
  FeedSpec
  Drains
  HubSeesEdits
CHECK_DEADLOCK FALSE
