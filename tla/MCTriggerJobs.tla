---------------------------- MODULE MCTriggerJobs ----------------------------
(* A table trigger and a scheduled one, two ticks.                           *)
EXTENDS TriggerJobs

MCTriggers == {"audit", "nightly"}
MCScheduled == {"nightly"}
MCTicks == {1, 2}
MCNameOf(k) == k
MCBudgets == {[calls |-> 1, fires |-> 1, faults |-> 1],
              [calls |-> 2, fires |-> 0, faults |-> 1]}
=============================================================================
