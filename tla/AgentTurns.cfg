SPECIFICATION Spec
CONSTANTS
  Bucket = 2
  Overlap = 3
  Late = 1
  Spread = 1
  Announced = FALSE
  Lookback = 1
  Batch = 1
  MaxTime = 5
  MaxDeaths = 2
  MaxStarts = 4
  MaxFaults = 1
  AdminGroup = TRUE
  MaxTurns = 1
  AskDeaths = 0
INVARIANTS
  NothingMissed
  DropsHeard
  OomNamed
  HeldBack
  PromiseKept
PROPERTIES
  RescanAddsNothing
  Accounted
CHECK_DEADLOCK FALSE
