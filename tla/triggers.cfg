SPECIFICATION Spec
CONSTANTS
    Triggers <- MCTriggers
    NameOf <- MCNameOf
    Scheduled <- MCScheduled
    Ticks <- MCTicks
    BatchSize = 2
    MaxAttempts = 2
    MaxJobs = 3
    Budgets <- MCBudgets
INVARIANTS OnlyUnrecordedStrands NoOrphanTrigger CompletedWasPerformed
PROPERTY EveryTriggerJobEnds
CHECK_DEADLOCK FALSE
