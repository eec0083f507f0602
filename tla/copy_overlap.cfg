SPECIFICATION Spec
CONSTANTS
  w1 = w1
  w2 = w2
  Workers <- TwoWorkers
  Rows <- ThreeRows
  keyOf <- SingleColumn
  HasKey = TRUE
  BatchSize = 2
  MaxRows = 9
  Engine = "PG"
  Drops = {"unfinished"}
  StaleWhileAlive = TRUE
  MaxFaults = 0
INVARIANT OverlapLosesNothing
