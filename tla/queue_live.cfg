SPECIFICATION FairSpec
CONSTANTS
  p1 = p1
  p2 = p2
  c1 = c1
  c2 = c2
  Procs <- OneProcess
  Calls <- TwoCalls
  procOf <- SameProcess
  Refs = {"r1"}
  Kind = "SYNC"
  Batches = 2
  SlowBatch = FALSE
  External = FALSE
  MaxAttempts = 2
  MaxJobs = 2
  MaxFaults = 2
  MaxResumes = 1
INVARIANTS OneCopyPerRef CompletedIsCopied
PROPERTIES EveryJobSettles LifecycleSpec
CHECK_DEADLOCK FALSE
