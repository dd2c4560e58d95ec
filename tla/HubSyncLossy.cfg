SPECIFICATION Spec
CONSTANTS
  Jids = {"team"}
  Flags = {"whitelisted", "noMention", "profile"}
  ByHand = {"whitelisted", "profile"}
  MayFail = TRUE
  MaxEdits = 2
  MaxPushes = 2
INVARIANTS
  LatestSurvives
PROPERTIES
  Agreement
  LastWriteWins
