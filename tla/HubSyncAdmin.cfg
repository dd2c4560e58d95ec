SPECIFICATION Spec
CONSTANTS
  Jids = {"amy"}
  Flags = {"isAdmin"}
  ByHand = {}
  MayFail = FALSE
  MaxEdits = 1
  MaxPushes = 0
PROPERTY Reconciled
