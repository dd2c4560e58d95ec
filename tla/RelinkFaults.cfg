SPECIFICATION Spec
CONSTANTS
  GracePolls = 2
  Elsewhere = TRUE
  MaxFaults = 2
INVARIANTS
  PairsOnlyBare
  SlowNotStopped
PROPERTIES
  CredsKept
  Recovers
  NeedsPairing
  HubLearns
