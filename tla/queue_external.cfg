SPECIFICATION Spec
CONSTANTS
  p1 = p1
  p2 = p2
  c1 = c1
  c2 = c2
  Procs <- TwoProcesses
  Calls <- TwoCalls
  procOf <- ApartProcesses
  Refs = {"r1"}
  Kind = "REPLICATE"
  Batches = 2
  SlowBatch = FALSE
  External = TRUE
  MaxAttempts = 2
  MaxJobs = 2
  MaxFaults = 2
  MaxResumes = 1
INVARIANTS OneClaimant StandingPauseStops
PROPERTY RetriesSpent
CHECK_DEADLOCK FALSE
