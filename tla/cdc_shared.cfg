SPECIFICATION Spec
CONSTANTS
  Jobs = {j1, j2}
  Keys = {1, 2}
  Vals = {a}
  Writers = {s1}
  SourceEngine = "MYSQL"
  Hub = TRUE
  SerialWriters = TRUE
  KeyUpdates = TRUE
  BatchSize = 1
  MaxChanges = 2
  MaxFaults = 0
INVARIANT TriggersRestored
PROPERTY PrunedWasApplied
