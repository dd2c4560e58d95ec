SPECIFICATION ScanSpec
CONSTANTS
  Bucket = 2
  Overlap = 3
  Late = 1
  Spread = 1
  Announced = FALSE
  Lookback = 5
  Batch = 2
  MaxTime = 5
  MaxDeaths = 1
  MaxStarts = 2
  MaxFaults = 0
INVARIANT OneRowPerDeath
CHECK_DEADLOCK FALSE
