SPECIFICATION FairSpec
CONSTANTS
  w1 = w1
  w2 = w2
  Workers <- OneWorker
  Rows <- FourRows
  keyOf <- SingleColumn
  HasKey = TRUE
  BatchSize = 2
  MaxRows = 4
  Engine = "PG"
  Drops = {}
  StaleWhileAlive = FALSE
  MaxFaults = 2
INVARIANTS CompletedIsWhole CheckpointCovered OneBatchReapplied
PROPERTY EventuallySettles
