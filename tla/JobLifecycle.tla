----------------------------- MODULE JobLifecycle ---------------------------
(***************************************************************************)
(* What the copy-job engine promises about a job row, whoever works on it: *)
(* the status machine of the copy_jobs table's comment, a COMPLETED job    *)
(* that is final and whose every batch was copied, and committed batches   *)
(* that are never given up.                                                *)
(***************************************************************************)
EXTENDS Naturals

CONSTANTS JobIds, Batches

VARIABLES status, copied    \* per job: its status, its checkpointed batches

vars == <<status, copied>>

Init == /\ status = [j \in JobIds |-> "NONE"]
        /\ copied = [j \in JobIds |-> 0]

Move(j, from, to) == status[j] = from /\ status' = [status EXCEPT ![j] = to]

Create(j) == Move(j, "NONE", "QUEUED") /\ UNCHANGED copied
Claim(j) == Move(j, "QUEUED", "RUNNING") /\ UNCHANGED copied
CopyBatch(j) == /\ status[j] = "RUNNING" /\ copied[j] < Batches
                /\ copied' = [copied EXCEPT ![j] = @ + 1]
                /\ UNCHANGED status
Complete(j) == Move(j, "RUNNING", "COMPLETED") /\ copied[j] = Batches /\ UNCHANGED copied
Stop(j) == (\E to \in {"PAUSED", "FAILED", "QUEUED"} : Move(j, "RUNNING", to)) /\ UNCHANGED copied
\* one UPDATE reclaims every job whose worker died
Reclaim == \E S \in SUBSET {j \in JobIds : status[j] = "RUNNING"} :
             /\ status' = [j \in JobIds |-> IF j \in S THEN "QUEUED" ELSE status[j]]
             /\ UNCHANGED copied
Resume(j) == (Move(j, "PAUSED", "QUEUED") \/ Move(j, "FAILED", "QUEUED")) /\ UNCHANGED copied

Next == \/ \E j \in JobIds : Create(j) \/ Claim(j) \/ CopyBatch(j) \/ Complete(j) \/ Stop(j) \/ Resume(j)
        \/ Reclaim

Spec == Init /\ [][Next]_vars
=============================================================================
