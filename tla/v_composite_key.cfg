SPECIFICATION Spec
CONSTANTS
  w1 = w1
  w2 = w2
  Workers <- OneWorker
  Rows <- ThreeRows
  keyOf <- Composite
  HasKey = TRUE
  BatchSize = 2
  MaxRows = 9
  Engine = "PG"
  Drops = {}
  StaleWhileAlive = FALSE
  MaxFaults = 0
INVARIANT CompletedIsWhole
