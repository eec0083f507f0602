---------------------------- MODULE CopyJobQueue ----------------------------
(***************************************************************************)
(* The durable queue of copy jobs (jobs/copy_job_engine.ts): enqueueing,   *)
(* claiming, heartbeats and crash-reclaim, pause and resume, retries, and  *)
(* recording the outcome.  A process runs several processOne calls at once *)
(* (setInterval ticks overlap); the in-memory withLock keeps two of them   *)
(* off the same job_ref.  The copy itself is a number of batches, each of  *)
(* which is checkpointed (ResumableCopy has its inside).                   *)
(***************************************************************************)
EXTENDS Integers, FiniteSets

CONSTANTS
  Procs,        \* processes with an embedded worker
  Calls,        \* concurrent processOne calls ...
  procOf,       \* ... and the process each belongs to
  Refs,         \* job_ref: what a job copies
  Kind,         \* "SYNC" or "REPLICATE"
  Batches,      \* batches of a complete copy
  SlowBatch,    \* one batch may outlast STALE_MS
  External,     \* the replication-engine microservice polls the queue
  MaxAttempts,  \* max_attempts of every job
  MaxJobs, MaxFaults, MaxResumes   \* bounds

ASSUME QueueAssumption ==
  /\ procOf \in [Calls -> Procs]
  /\ Kind \in {"SYNC", "REPLICATE"}
  /\ Batches \in Nat /\ MaxAttempts \in Nat /\ MaxJobs \in Nat
  /\ MaxFaults \in Nat /\ MaxResumes \in Nat
  /\ SlowBatch \in BOOLEAN /\ External \in BOOLEAN

JobIds == 1..MaxJobs    \* in order of created_at

VARIABLES
  jobs,     \* id -> row of copy_jobs
  copied,   \* id -> batches in copy_checkpoints
  calls,    \* call -> local state of processOne
  locks,    \* process -> job_refs held by withLock
  sched,    \* process -> job_ref its scheduler found no active job for
  engine,   \* job claimed by the replication-engine, or 0
  faults, resumes,
  latePages \* id -> batches copied since a pause was accepted (counted up to 2),
            \* or NotAsked; a resume takes the request back, nothing else does

vars == <<jobs, copied, calls, locks, sched, engine, faults, resumes, latePages>>

NotAsked == -1
NoRef == "none"
NoRow == [ref |-> NoRef, status |-> "NONE", control |-> "RUN", attempts |-> 0, stale |-> FALSE]
Idle == [pc |-> "idle", job |-> 0, attempts |-> 0, pos |-> 0, outcome |-> "none"]

Init ==
  /\ jobs = [j \in JobIds |-> NoRow]
  /\ copied = [j \in JobIds |-> 0]
  /\ calls = [c \in Calls |-> Idle]
  /\ locks = [p \in Procs |-> {}]
  /\ sched = [p \in Procs |-> NoRef]
  /\ engine = 0 /\ faults = 0 /\ resumes = 0
  /\ latePages = [j \in JobIds |-> NotAsked]

IsActive(j) == jobs[j].status \in {"QUEUED", "RUNNING", "PAUSED"}
Oldest(j) == /\ jobs[j].status = "QUEUED"
             /\ \A i \in JobIds : jobs[i].status = "QUEUED" => j <= i

-----------------------------------------------------------------------------
(* Users and schedulers.                                                   *)

Insert(ref) == \E j \in JobIds :
  /\ jobs[j] = NoRow /\ \A i \in JobIds : jobs[i] = NoRow => j <= i
  /\ jobs' = [jobs EXCEPT ![j] = [NoRow EXCEPT !.ref = ref, !.status = "QUEUED"]]

\* runJob / restoreJob: enqueue without dedupe.
Enqueue(ref) ==
  /\ Insert(ref)
  /\ UNCHANGED <<copied, calls, locks, sched, engine, faults, resumes, latePages>>

\* A scheduler's deduped enqueue is a SELECT, then an INSERT.
DedupeSelect(p, ref) ==
  /\ sched[p] = NoRef
  /\ ~ \E j \in JobIds : jobs[j].ref = ref /\ IsActive(j)
  /\ sched' = [sched EXCEPT ![p] = ref]
  /\ UNCHANGED <<jobs, copied, calls, locks, engine, faults, resumes, latePages>>

DedupeInsert(p) ==
  /\ sched[p] # NoRef /\ Insert(sched[p])
  /\ sched' = [sched EXCEPT ![p] = NoRef]
  /\ UNCHANGED <<copied, calls, locks, engine, faults, resumes, latePages>>

Pause(j) ==
  /\ jobs[j].status \in {"RUNNING", "QUEUED"} /\ jobs[j].control = "RUN"
  /\ jobs' = [jobs EXCEPT ![j].control = "PAUSE"]
  /\ latePages' = [latePages EXCEPT ![j] = 0]
  /\ UNCHANGED <<copied, calls, locks, sched, engine, faults, resumes>>

Resume(j) ==
  /\ jobs[j].status \in {"PAUSED", "FAILED"} /\ resumes < MaxResumes
  /\ jobs' = [jobs EXCEPT ![j].status = "QUEUED", ![j].control = "RUN"]
  /\ resumes' = resumes + 1
  /\ latePages' = [latePages EXCEPT ![j] = NotAsked]
  /\ UNCHANGED <<copied, calls, locks, sched, engine, faults>>

-----------------------------------------------------------------------------
(* processOne.                                                             *)

\* The claim sets control = 'RUN': a pause accepted while the job was QUEUED, or
\* RUNNING under a worker that died or threw since, is forgotten here.
Claim(c) == \E j \in JobIds :
  /\ calls[c].pc = "idle" /\ Oldest(j)
  /\ jobs' = [jobs EXCEPT ![j].status = "RUNNING", ![j].control = "RUN",
                          ![j].attempts = @ + 1, ![j].stale = FALSE]
  /\ calls' = [calls EXCEPT ![c] = [Idle EXCEPT !.pc = "lock", !.job = j,
                                                !.attempts = jobs[j].attempts + 1]]
  /\ UNCHANGED <<copied, locks, sched, engine, faults, resumes, latePages>>

\* what run / backfill return when the lock is taken: {status: 'SKIPPED'} has
\* no errors array, the SYNC result has one.
SkippedIsCompleted == "COMPLETED"
SkippedOutcome == IF Kind = "REPLICATE" THEN "COMPLETED" ELSE "FAILED"

\* withLock, then the copy starts at the job's checkpoint.
AcquireLockAlways(c) == LET ref == jobs[calls[c].job].ref IN
  /\ calls[c].pc = "lock"
  /\ locks' = [locks EXCEPT ![procOf[c]] = @ \union {ref}]
  /\ calls' = [calls EXCEPT ![c].pc = "probe", ![c].pos = copied[calls[c].job]]
  /\ UNCHANGED <<jobs, copied, sched, engine, faults, resumes, latePages>>
AcquireLock(c) == LET ref == jobs[calls[c].job].ref IN
  /\ calls[c].pc = "lock"
  /\ \/ /\ ref \notin locks[procOf[c]]
        /\ locks' = [locks EXCEPT ![procOf[c]] = @ \union {ref}]
        /\ calls' = [calls EXCEPT ![c].pc = "probe", ![c].pos = copied[calls[c].job]]
     \/ /\ ref \in locks[procOf[c]]
        /\ calls' = [calls EXCEPT ![c].pc = "record", ![c].outcome = SkippedOutcome]
        /\ UNCHANGED locks
  /\ UNCHANGED <<jobs, copied, sched, engine, faults, resumes, latePages>>

\* the copy returns or throws; withLock's finally releases the lock.
Leave(c, outcome) ==
  /\ calls' = [calls EXCEPT ![c].pc = "record", ![c].outcome = outcome]
  /\ locks' = [locks EXCEPT ![procOf[c]] = @ \ {jobs[calls[c].job].ref}]

\* shouldStop() between batches; the copy is over when no batch is left.
ProbeIgnoringControl(c) ==
  /\ calls[c].pc = "probe"
  /\ \/ calls[c].pos = Batches /\ Leave(c, "COMPLETED")
     \/ /\ calls[c].pos < Batches
        /\ calls' = [calls EXCEPT ![c].pc = "batch"] /\ UNCHANGED locks
  /\ UNCHANGED <<jobs, copied, sched, engine, faults, resumes, latePages>>
Probe(c) ==
  /\ calls[c].pc = "probe"
  /\ \/ calls[c].pos = Batches /\ Leave(c, "COMPLETED")
     \/ /\ calls[c].pos < Batches /\ jobs[calls[c].job].control = "PAUSE"
        /\ Leave(c, "PAUSED")
     \/ /\ calls[c].pos < Batches /\ jobs[calls[c].job].control = "RUN"
        /\ calls' = [calls EXCEPT ![c].pc = "batch"] /\ UNCHANGED locks
  /\ UNCHANGED <<jobs, copied, sched, engine, faults, resumes, latePages>>

\* one batch written and its checkpoint saved, with the heartbeat.
CopyBatch(c) == LET j == calls[c].job IN
  /\ calls[c].pc = "batch"
  /\ calls' = [calls EXCEPT ![c].pc = "probe", ![c].pos = @ + 1]
  /\ copied' = [copied EXCEPT ![j] = calls[c].pos + 1]
  /\ jobs' = [jobs EXCEPT ![j].stale = FALSE]
  /\ latePages' = [latePages EXCEPT ![j] = IF @ \in {0, 1} THEN @ + 1 ELSE @]
  /\ UNCHANGED <<locks, sched, engine, faults, resumes>>

\* a table error ends in result.errors (FAILED); anything else throws.
CopyFails(c) ==
  /\ calls[c].pc \in {"probe", "batch"} /\ faults < MaxFaults
  /\ \E outcome \in {"FAILED", "THROWN"} : Leave(c, outcome)
  /\ faults' = faults + 1
  /\ UNCHANGED <<jobs, copied, sched, engine, resumes, latePages>>

\* the outcome is written by id, whatever the row's status is by now.
OutcomeIgnoringErrors(c) ==
  IF calls[c].outcome = "FAILED" THEN "COMPLETED"
  ELSE IF calls[c].outcome # "THROWN" THEN calls[c].outcome
  ELSE IF calls[c].attempts < MaxAttempts THEN "QUEUED" ELSE "FAILED"
OutcomeOneMore(c) ==
  IF calls[c].outcome # "THROWN" THEN calls[c].outcome
  ELSE IF calls[c].attempts <= MaxAttempts THEN "QUEUED" ELSE "FAILED"
Outcome(c) == IF calls[c].outcome # "THROWN" THEN calls[c].outcome
              ELSE IF calls[c].attempts < MaxAttempts THEN "QUEUED" ELSE "FAILED"
Record(c) ==
  /\ calls[c].pc = "record"
  /\ jobs' = [jobs EXCEPT ![calls[c].job].status = Outcome(c)]
  /\ calls' = [calls EXCEPT ![c] = Idle]
  /\ UNCHANGED <<copied, locks, sched, engine, faults, resumes, latePages>>

-----------------------------------------------------------------------------
(* Crashes and reclaiming.                                                 *)

Crash(p) ==
  /\ faults < MaxFaults /\ \E c \in Calls : procOf[c] = p /\ calls[c].pc # "idle"
  /\ calls' = [c \in Calls |-> IF procOf[c] = p THEN Idle ELSE calls[c]]
  /\ locks' = [locks EXCEPT ![p] = {}]
  /\ sched' = [sched EXCEPT ![p] = NoRef]
  /\ faults' = faults + 1
  /\ UNCHANGED <<jobs, copied, engine, resumes, latePages>>

\* STALE_MS pass without a heartbeat.
HeartbeatAges(j) ==
  /\ jobs[j].status = "RUNNING" /\ ~jobs[j].stale
  /\ SlowBatch \/ (engine # j /\ \A c \in Calls : calls[c].job # j)
  /\ jobs' = [jobs EXCEPT ![j].stale = TRUE]
  /\ UNCHANGED <<copied, calls, locks, sched, engine, faults, resumes, latePages>>

IsRunning(j) == jobs[j].status = "RUNNING"
IsStale(j) == jobs[j].status = "RUNNING" /\ jobs[j].stale

ReclaimNothing == FALSE /\ UNCHANGED vars
ReclaimStale ==
  /\ \E j \in JobIds : IsStale(j)
  /\ jobs' = [j \in JobIds |-> IF IsStale(j) THEN [jobs[j] EXCEPT !.status = "QUEUED"] ELSE jobs[j]]
  /\ UNCHANGED <<copied, calls, locks, sched, engine, faults, resumes, latePages>>

-----------------------------------------------------------------------------
(* The replication-engine microservice: claims a job and marks it complete.*)

EngineClaim == \E j \in JobIds :
  /\ External /\ engine = 0 /\ Oldest(j)
  /\ jobs' = [jobs EXCEPT ![j].status = "RUNNING", ![j].stale = FALSE]
  /\ engine' = j
  /\ UNCHANGED <<copied, calls, locks, sched, faults, resumes, latePages>>

EngineComplete ==
  /\ engine # 0
  /\ jobs' = [jobs EXCEPT ![engine].status = "COMPLETED"]
  /\ engine' = 0
  /\ UNCHANGED <<copied, calls, locks, sched, faults, resumes, latePages>>

\* it stops, or its second UPDATE fails, in between.
EngineFails ==
  /\ engine # 0 /\ faults < MaxFaults
  /\ engine' = 0 /\ faults' = faults + 1
  /\ UNCHANGED <<jobs, copied, calls, locks, sched, resumes, latePages>>

-----------------------------------------------------------------------------
ProcessOne(c) == Claim(c) \/ AcquireLock(c) \/ Probe(c) \/ CopyBatch(c) \/ Record(c)

Next ==
  \/ \E ref \in Refs : Enqueue(ref)
  \/ \E p \in Procs : DedupeInsert(p) \/ Crash(p) \/ \E ref \in Refs : DedupeSelect(p, ref)
  \/ \E j \in JobIds : Pause(j) \/ Resume(j) \/ HeartbeatAges(j)
  \/ \E c \in Calls : ProcessOne(c) \/ CopyFails(c)
  \/ ReclaimStale
  \/ EngineClaim \/ EngineComplete \/ EngineFails

Spec == Init /\ [][Next]_vars

\* setInterval keeps ticking: each tick reclaims, claims and runs; time passes.
FairSpec ==
  /\ Spec
  /\ \A c \in Calls : WF_vars(ProcessOne(c))
  /\ WF_vars(ReclaimStale)
  /\ \A j \in JobIds : WF_vars(HeartbeatAges(j))

-----------------------------------------------------------------------------
(* Properties.                                                             *)

Statuses == {"NONE", "QUEUED", "RUNNING", "PAUSED", "COMPLETED", "FAILED"}
JobType == [ref : Refs \union {NoRef}, status : Statuses, control : {"RUN", "PAUSE"},
            attempts : Nat, stale : BOOLEAN]
CallType == [pc : {"idle", "lock", "probe", "batch", "record"}, job : 0..MaxJobs,
             attempts : Nat, pos : 0..Batches,
             outcome : {"none", "COMPLETED", "FAILED", "PAUSED", "THROWN"}]
TypeOK ==
  /\ jobs \in [JobIds -> JobType] /\ copied \in [JobIds -> 0..Batches]
  /\ calls \in [Calls -> CallType]
  /\ locks \in [Procs -> SUBSET Refs] /\ sched \in [Procs -> Refs \union {NoRef}]
  /\ engine \in 0..MaxJobs /\ faults \in 0..MaxFaults /\ resumes \in 0..MaxResumes
  /\ latePages \in [JobIds -> {NotAsked, 0, 1, 2}]

\* Seen through a job's status and checkpoint, the queue is the engine's
\* documented life cycle: COMPLETED is final and means every batch was copied.
Lifecycle == INSTANCE JobLifecycle WITH status <- [j \in JobIds |-> jobs[j].status]
LifecycleSpec == Lifecycle!Spec

\* COMPLETED means copied (what LifecycleSpec says of a state).
CompletedIsCopied == \A j \in JobIds : jobs[j].status = "COMPLETED" => copied[j] = Batches

\* withLock: one process never runs two copies of the same job_ref at once.
OneCopyPerRef ==
  \A c, d \in Calls :
    /\ c # d /\ procOf[c] = procOf[d]
    /\ calls[c].pc \in {"probe", "batch"} /\ calls[d].pc \in {"probe", "batch"}
    => jobs[calls[c].job].ref # jobs[calls[d].job].ref

\* The attempts a call remembers from its claim are still the row's when it
\* decides to retry: a job that spent its attempts is put back in the queue only
\* by the reclaiming of a dead worker.
RetriesSpent ==
  [][\A j \in JobIds :
       jobs[j].status = "RUNNING" /\ ~jobs[j].stale /\ jobs'[j].status = "QUEUED" =>
         jobs[j].attempts < MaxAttempts]_vars

\* Claiming is exclusive: SKIP LOCKED and reclaiming never put two workers, or a
\* worker and the replication-engine, on the same job, as long as heartbeats
\* come in time.
OneClaimant ==
  \A j \in JobIds :
    Cardinality({c \in Calls : calls[c].job = j}) + (IF engine = j THEN 1 ELSE 0) <= 1

\* "Request a pause of a RUNNING/QUEUED job; the worker stops after the current
\* batch" (copy_job_engine.ts, pause): of a job whose pause was accepted, at most
\* the batch under way is still copied until someone resumes it.  The code does
\* not keep this promise: any later claim of the job erases the request.
PauseStopsAfterBatch == \A j \in JobIds : latePages[j] <= 1

\* What it does keep: while the request stands on the row (no claim has erased
\* it), no more than the batch under way has been copied since it was accepted,
\* whatever died, was reclaimed or was retried in between.
StandingPauseStops ==
  \A j \in JobIds : jobs[j].control = "PAUSE" => latePages[j] \in {0, 1}

\* A claimed job is not left behind: it ends, is paused, or fails for good.
EveryJobSettles ==
  \A j \in JobIds : jobs[j].status \in {"QUEUED", "RUNNING"} ~>
                    jobs[j].status \in {"PAUSED", "COMPLETED", "FAILED"}
=============================================================================
