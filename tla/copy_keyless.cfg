SPECIFICATION Spec
CONSTANTS
  w1 = w1
  w2 = w2
  Workers <- OneWorker
  Rows <- FourRows
  keyOf <- SingleColumn
  HasKey = FALSE
  BatchSize = 2
  MaxRows = 9
  Engine = "PG"
  Drops = {}
  StaleWhileAlive = FALSE
  MaxFaults = 2
INVARIANT NoDuplicates
