SPECIFICATION Spec
CONSTANTS
  p1 = p1
  p2 = p2
  c1 = c1
  c2 = c2
  Procs <- TwoProcesses
  Calls <- TwoCalls
  procOf <- ApartProcesses
  Refs = {"r1"}
  Kind = "SYNC"
  Batches = 2
  SlowBatch = FALSE
  External = FALSE
  MaxAttempts = 2
  MaxJobs = 2
  MaxFaults = 1
  MaxResumes = 1
INVARIANT PauseStopsAfterBatch
CHECK_DEADLOCK FALSE
