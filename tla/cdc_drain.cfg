SPECIFICATION FairSpec
CONSTANTS
  Jobs = {j1}
  Keys = {1, 2, 3}
  Vals = {a, b}
  Writers = {s1}
  SourceEngine = "ORACLE"
  Hub = FALSE
  SerialWriters = TRUE
  KeyUpdates = FALSE
  BatchSize = 2
  MaxChanges = 3
  MaxFaults = 1
INVARIANTS NothingLost
PROPERTIES PositionAdvances Converges
