----------------------------- MODULE TriggerJobs -----------------------------
(* The trigger control plane: the registry and the job queue that             *)
(* trigger.service.ts writes, and the trigger engine (trigger.worker.ts) that *)
(* polls the queue, installs and drops database triggers and performs the     *)
(* actions they enqueue.  A tick of the engine claims a batch of jobs and     *)
(* then works on its own copies of the rows; the claim leaves their status    *)
(* PENDING, so overlapping ticks, API calls and firing triggers all meet in   *)
(* the same tables.                                                           *)
EXTENDS Naturals, Sequences, FiniteSets, Functions

CONSTANTS
    Triggers,      \* registry keys (tenant, schema, table, name)
    NameOf(_),     \* payload->>'triggerName' of a trigger
    Scheduled,     \* triggers with a schedule and no table (__SYSTEM__)
    Ticks,         \* calls of tick() that may be active at once
    BatchSize,     \* LIMIT of the claim (5)
    MaxAttempts,   \* max_attempts of a job (5)
    MaxJobs,       \* bound: jobs ever enqueued
    Budgets        \* bounds: how many API calls (calls), firings of triggers
                   \* (fires) and failures (faults) a behaviour may have

ASSUME TriggerJobsAssumption ==
    /\ IsFiniteSet(Triggers) /\ Scheduled \subseteq Triggers
    /\ BatchSize \in Nat \ {0}
    /\ MaxAttempts \in Nat \ {0}

VARIABLES
    registry,      \* [Triggers -> row of trigger_registry, or NoRow]
    installed,     \* triggers that exist in the database
    jobs,          \* trigger_jobs, in the order of created_at
    tick,          \* [Ticks -> the batch a tick is working through]
    api,           \* the delete or deploy call in progress
    ids,           \* registry ids handed out
    overlap,       \* do ticks outlast the poll interval?
    budget,        \* what is left of the bounds
    crashed,       \* has the engine ever died?
    deleted,       \* triggers whose deletion was ever requested
    recreated,     \* triggers created again while a deletion was under way
    poisoned,      \* sessions of the pool left in an aborted transaction
    unrecorded     \* jobs whose last failure could not be written to their row

vars == <<registry, installed, jobs, tick, api, ids, overlap, budget,
          crashed, deleted, recreated, poisoned, unrecorded>>

\* What stands behind the tables: the bounds, the pool and the history.
background == <<overlap, budget, crashed, deleted, recreated, poisoned, unrecorded>>

NoRow == [id |-> 0, status |-> "NONE"]
Statuses == {"PENDING", "RUNNING", "COMPLETED", "FAILED", "CANCELLED"}
Types == {"DEPLOY_TRIGGER", "SCHEDULE_TRIGGER", "DELETE_TRIGGER",
          "CLEANUP_TRIGGER", "EXECUTE_TRIGGER_ACTION"}
Removals == {"DELETE_TRIGGER", "CLEANUP_TRIGGER"}
IdleTick == [pc |-> "idle", batch |-> <<>>]
IdleApi == [op |-> "none", pc |-> "none", key |-> "none", id |-> 0]

Indices == DOMAIN jobs
RowExists(id) == \E k \in Triggers : registry[k].id = id
\* The foreign key of trigger_jobs and trigger_execution_logs: a null id passes.
ForeignKeyHolds(id) == id = 0 \/ RowExists(id)

Job(type, id, key, due, done) ==
    [type |-> type, tid |-> id, key |-> key, status |-> "PENDING",
     attempts |-> 0, due |-> due, done |-> done]

\* enqueueJob: NOW(), or later for a FIXED schedule.
EnqueueJob(type, id, key) ==
    \E due \in (IF key \in Scheduled /\ type = "SCHEDULE_TRIGGER" THEN BOOLEAN ELSE {TRUE}) :
        jobs' = Append(jobs, Job(type, id, key, due, FALSE))

\* UPDATE trigger_jobs SET status = 'CANCELLED' WHERE PENDING and of this
\* trigger, by id or by the name in the payload; `kept` types are left alone.
Cancelled(id, key, kept) ==
    [j \in Indices |->
        IF /\ jobs[j].status = "PENDING"
           /\ jobs[j].type \notin kept
           /\ (id # 0 /\ jobs[j].tid = id) \/ NameOf(jobs[j].key) = NameOf(key)
        THEN [jobs[j] EXCEPT !.status = "CANCELLED"]
        ELSE jobs[j]]

----------------------------------------------------------------------------
(* trigger.service.ts                                                        *)

Spend(what) ==
    /\ budget[what] > 0
    /\ budget' = [budget EXCEPT ![what] = @ - 1]

\* An upsert keyed by (tenant, schema, table, name): a row on its way out is
\* ACTIVE again and keeps its id.
Upsert(k) ==
    /\ ids' = IF registry[k] = NoRow THEN ids + 1 ELSE ids
    /\ registry' = [registry EXCEPT ![k] =
           [id |-> IF registry[k] = NoRow THEN ids + 1 ELSE registry[k].id, status |-> "ACTIVE"]]
    /\ recreated' = recreated \cup ({k} \cap deleted)

\* createTrigger: the registry alone.
CreateTrigger(k) ==
    /\ Spend("calls")
    /\ Upsert(k)
    /\ UNCHANGED <<installed, jobs, tick, api, overlap, crashed, deleted, poisoned, unrecorded>>

\* A manifest apply: the trigger and its registry row in one transaction.
ApplyManifest(k) ==
    /\ Spend("calls")
    /\ k \notin Scheduled
    /\ Upsert(k)
    /\ installed' = installed \cup {k}
    /\ UNCHANGED <<jobs, tick, api, overlap, crashed, deleted, poisoned, unrecorded>>

\* deleteTrigger and deployTrigger: their first SELECT ...
SelectTrigger(k, op) ==
    /\ Spend("calls")
    /\ api = IdleApi
    /\ registry[k] # NoRow
    /\ api' = [op |-> op, pc |-> "mark", key |-> k, id |-> registry[k].id]
    /\ deleted' = IF op = "delete" THEN deleted \cup {k} ELSE deleted
    /\ UNCHANGED <<registry, installed, jobs, tick, ids, overlap, crashed, recreated,
                   poisoned, unrecorded>>

\* ... the status of the row ...
MarkTrigger ==
    /\ api.pc = "mark"
    /\ registry' = [k \in Triggers |->
           IF registry[k].id = api.id
           THEN [registry[k] EXCEPT !.status =
                    IF api.op = "delete" THEN "PENDING_DELETE" ELSE "PENDING_DEPLOY"]
           ELSE registry[k]]
    /\ api' = [api EXCEPT !.pc = IF api.op = "delete" THEN "cancel" ELSE "enqueue"]
    /\ UNCHANGED <<installed, jobs, tick, ids, background>>

\* ... for a delete, the outstanding jobs ...
CancelJobs ==
    /\ api.pc = "cancel"
    /\ jobs' = Cancelled(api.id, api.key, {"DELETE_TRIGGER"})
    /\ api' = [api EXCEPT !.pc = "enqueue"]
    /\ UNCHANGED <<registry, installed, tick, ids, background>>

\* ... and the job that does the work.
EnqueueApiJob ==
    /\ api.pc = "enqueue"
    /\ IF RowExists(api.id)
       THEN EnqueueJob(IF api.op = "delete" THEN "DELETE_TRIGGER"
                       ELSE IF api.key \in Scheduled THEN "SCHEDULE_TRIGGER"
                       ELSE "DEPLOY_TRIGGER", api.id, api.key)
       ELSE UNCHANGED jobs                       \* foreign key violation
    /\ api' = IdleApi
    /\ UNCHANGED <<registry, installed, tick, ids, background>>

\* retryJob: any job of the tenant, whatever its status.
RetryJob(j) ==
    /\ Spend("calls")
    /\ jobs' = [jobs EXCEPT ![j].status = "PENDING", ![j].due = TRUE]
    /\ UNCHANGED <<registry, installed, tick, api, ids, overlap, crashed, deleted, recreated,
                   poisoned, unrecorded>>

----------------------------------------------------------------------------
(* The database trigger: fires on a write of its table                       *)

\* It enqueues its action (at once, or later for a RELATIVE schedule) ...
FireTrigger(k) ==
    /\ k \in installed
    /\ Spend("fires")
    /\ \E due \in BOOLEAN :
          jobs' = Append(jobs, Job("EXECUTE_TRIGGER_ACTION", 0, k, due, FALSE))
    /\ UNCHANGED <<registry, installed, tick, api, ids, overlap, crashed, deleted, recreated,
                   poisoned, unrecorded>>

\* ... and, with autoDrop, its own removal.
AutoDrop(k) ==
    /\ k \in installed
    /\ Spend("fires")
    /\ jobs' = Append(jobs, Job("CLEANUP_TRIGGER", 0, k, TRUE, FALSE))
    /\ deleted' = deleted \cup {k}
    /\ UNCHANGED <<registry, installed, tick, api, ids, overlap, crashed, recreated,
                   poisoned, unrecorded>>

\* run_at passes.
BecomesDue(j) ==
    /\ ~jobs[j].due
    /\ jobs' = [jobs EXCEPT ![j].due = TRUE]
    /\ UNCHANGED <<registry, installed, tick, api, ids, background>>

----------------------------------------------------------------------------
(* trigger.worker.ts                                                         *)

Claimable == {j \in Indices : jobs[j].status = "PENDING" /\ jobs[j].due}
Oldest(S) == {j \in S : Cardinality({i \in S : i < j}) < BatchSize}
\* ORDER BY created_at: the rows of S as a sequence.
Ordered(S) == {rows \in [1..Cardinality(S) -> S] :
                  \A m, n \in 1..Cardinality(S) : m < n => rows[m] < rows[n]}

\* The claimed rows are copies: attempts and trigger_id are as of the claim.
CopyOf(j) == [job |-> j, tid |-> jobs[j].tid, attempts |-> jobs[j].attempts]

\* tick: the claiming transaction commits with the rows still PENDING.
Claim(t) ==
    /\ tick[t].pc = "idle"
    /\ overlap \/ \A u \in Ticks : tick[u].pc = "idle"
    /\ Oldest(Claimable) # {}
    /\ \E rows \in Ordered(Oldest(Claimable)) :
          tick' = [tick EXCEPT ![t] = [pc |-> "start",
                                       batch |-> [n \in DOMAIN rows |-> CopyOf(rows[n])]]]
    /\ UNCHANGED <<registry, installed, jobs, api, ids, background>>

Copy(t) == Head(tick[t].batch)
At(t, pc, types) == tick[t].pc = pc /\ jobs[Copy(t).job].type \in types
Goto(t, pc) == tick' = [tick EXCEPT ![t].pc = pc]
FirstStep(type) ==
    CASE type = "DEPLOY_TRIGGER" -> "registry"
      [] type \in Removals -> "drop"
      [] type = "SCHEDULE_TRIGGER" -> "fire"
      [] type = "EXECUTE_TRIGGER_ACTION" -> "perform"
\* The loop of tick: the next copy of the batch, or the end of the tick.
NextJob(t) ==
    tick' = [tick EXCEPT ![t] =
                IF Len(tick[t].batch) = 1 THEN IdleTick
                ELSE [pc |-> "start", batch |-> Tail(tick[t].batch)]]
SetStatus(j, s) == jobs' = [jobs EXCEPT ![j].status = s]

\* processJob begins: RUNNING, whatever the status is by now.
Start(t) ==
    /\ tick[t].pc = "start"
    /\ SetStatus(Copy(t).job, "RUNNING")
    /\ Goto(t, FirstStep(jobs[Copy(t).job].type))
    /\ unrecorded' = unrecorded \ {Copy(t).job}
    /\ UNCHANGED <<registry, installed, api, ids, overlap, budget, crashed, deleted,
                   recreated, poisoned>>

\* A defect: the row is not looked for before the DDL.
ReadRegistryUnchecked(t) ==
    /\ At(t, "registry", {"DEPLOY_TRIGGER"})
    /\ Goto(t, "redrop")
    /\ UNCHANGED <<registry, installed, jobs, api, ids, background>>

\* DEPLOY_TRIGGER: the registry row, by id.
ReadRegistry(t) ==
    /\ At(t, "registry", {"DEPLOY_TRIGGER"})
    /\ Goto(t, IF Copy(t).tid # 0 /\ RowExists(Copy(t).tid) THEN "redrop" ELSE "fail")
    /\ UNCHANGED <<registry, installed, jobs, api, ids, background>>

\* CREATE OR REPLACE FUNCTION and DROP TRIGGER, then CREATE TRIGGER: one
\* transaction each.
RedropTrigger(t) ==
    /\ At(t, "redrop", {"DEPLOY_TRIGGER"})
    /\ installed' = installed \ {jobs[Copy(t).job].key}
    /\ Goto(t, "create")
    /\ UNCHANGED <<registry, jobs, api, ids, background>>

CreateDbTrigger(t) ==
    /\ At(t, "create", {"DEPLOY_TRIGGER"})
    /\ installed' = installed \cup {jobs[Copy(t).job].key}
    /\ Goto(t, "activate")
    /\ UNCHANGED <<registry, jobs, api, ids, background>>

\* status = 'ACTIVE' by id, and the log row that refers to it.
Activate(t) ==
    /\ At(t, "activate", {"DEPLOY_TRIGGER"})
    /\ registry' = [k \in Triggers |->
           IF registry[k].id = Copy(t).tid THEN [registry[k] EXCEPT !.status = "ACTIVE"]
           ELSE registry[k]]
    /\ Goto(t, IF ForeignKeyHolds(Copy(t).tid) THEN "complete" ELSE "fail")
    /\ UNCHANGED <<installed, jobs, api, ids, background>>

\* DELETE_TRIGGER and CLEANUP_TRIGGER: drop, sweep, remove the row, log.
DropTrigger(t) ==
    /\ At(t, "drop", Removals)
    /\ installed' = installed \ {jobs[Copy(t).job].key}
    /\ Goto(t, "sweep")
    /\ UNCHANGED <<registry, jobs, api, ids, background>>

Sweep(t) ==
    /\ At(t, "sweep", Removals)
    /\ jobs' = Cancelled(Copy(t).tid, jobs[Copy(t).job].key, Removals)
    /\ Goto(t, IF Copy(t).tid = 0 THEN "complete" ELSE "remove")
    /\ UNCHANGED <<registry, installed, api, ids, background>>

\* ON DELETE SET NULL clears trigger_id in the jobs that referred to the row.
RemoveRow(t) ==
    /\ At(t, "remove", Removals)
    /\ registry' = [k \in Triggers |->
                       IF registry[k].id = Copy(t).tid THEN NoRow ELSE registry[k]]
    /\ jobs' = [j \in Indices |->
                   IF jobs[j].tid = Copy(t).tid THEN [jobs[j] EXCEPT !.tid = 0] ELSE jobs[j]]
    /\ Goto(t, "complete")
    /\ UNCHANGED <<installed, api, ids, background>>

\* EXECUTE_TRIGGER_ACTION: the webhook, mail, message or audit row.
PerformAction(t) ==
    /\ At(t, "perform", {"EXECUTE_TRIGGER_ACTION"})
    /\ jobs' = [jobs EXCEPT ![Copy(t).job].done = TRUE]
    /\ Goto(t, "complete")
    /\ UNCHANGED <<registry, installed, api, ids, background>>

\* SCHEDULE_TRIGGER: log the tick (the log refers to the registry row) ...
ScheduledAction(t) ==
    /\ At(t, "fire", {"SCHEDULE_TRIGGER"})
    /\ Goto(t, IF ForeignKeyHolds(Copy(t).tid) THEN "rearm" ELSE "fail")
    /\ UNCHANGED <<registry, installed, jobs, api, ids, background>>

\* ... and come back at the next run, whatever happened to the row meanwhile.
Rearm(t) ==
    /\ At(t, "rearm", {"SCHEDULE_TRIGGER"})
    /\ jobs' = [jobs EXCEPT ![Copy(t).job].status = "PENDING", ![Copy(t).job].due = FALSE]
    /\ NextJob(t)
    /\ UNCHANGED <<registry, installed, api, ids, background>>

Complete(t) ==
    /\ tick[t].pc = "complete"
    /\ SetStatus(Copy(t).job, "COMPLETED")
    /\ NextJob(t)
    /\ UNCHANGED <<registry, installed, api, ids, background>>

\* A defect: an error of a step is swallowed.
StepFailsSilently(t) ==
    /\ tick[t].pc \notin {"idle", "start", "fail"}
    /\ Spend("faults")
    /\ Goto(t, "complete")
    /\ UNCHANGED <<registry, installed, jobs, api, ids, overlap, crashed, deleted, recreated,
                   poisoned, unrecorded>>

\* A delivery, a check or a statement outside a transaction fails, or a COMMIT:
\* the catch block is next, on a session that can still write.
StepFails(t) ==
    /\ tick[t].pc \notin {"idle", "start", "fail"}
    /\ Spend("faults")
    /\ Goto(t, "fail")
    /\ UNCHANGED <<registry, installed, jobs, api, ids, overlap, crashed, deleted, recreated,
                   poisoned, unrecorded>>

\* A defect: attempts are not counted.
AttemptsUncounted(t) == Copy(t).attempts

\* The catch block counts from the attempts of the claimed copy; a retry is
\* due 30 seconds later.
AttemptsAfter(t) == Copy(t).attempts + 1
\* A defect: the catch block only counts.
FailOnlyCounting(t) ==
    /\ tick[t].pc = "fail"
    /\ jobs' = [jobs EXCEPT ![Copy(t).job].attempts = AttemptsAfter(t)]
    /\ NextJob(t)
    /\ UNCHANGED <<registry, installed, api, ids, background>>

Fail(t) ==
    /\ tick[t].pc = "fail"
    /\ jobs' = [jobs EXCEPT
          ![Copy(t).job].status = IF AttemptsAfter(t) >= MaxAttempts THEN "FAILED" ELSE "PENDING",
          ![Copy(t).job].attempts = AttemptsAfter(t),
          ![Copy(t).job].due = AttemptsAfter(t) >= MaxAttempts /\ jobs[Copy(t).job].due]
    /\ NextJob(t)
    /\ UNCHANGED <<registry, installed, api, ids, background>>

\* The session cannot write any more: the catch block's own UPDATE fails, the
\* row stays as it is and the tick goes on with its next job.
LeaveRow(t) ==
    /\ Spend("faults")
    /\ NextJob(t)
    /\ unrecorded' = unrecorded \cup {Copy(t).job}
    /\ UNCHANGED <<registry, installed, jobs, api, ids, overlap, crashed, deleted, recreated>>

\* A statement between BEGIN and COMMIT fails (a syntax error, the statement
\* timeout): nothing rolls back, the transaction stays aborted, and the session
\* goes back to the pool in it.
DdlFails(t) ==
    /\ tick[t].pc \in {"redrop", "create"}
    /\ LeaveRow(t)
    /\ poisoned' = poisoned + 1

\* The connection breaks: before, in or behind the catch block.
SessionLost(t) ==
    /\ tick[t].pc \notin {"idle", "start"}
    /\ LeaveRow(t)
    /\ UNCHANGED poisoned

\* The pool hands out a session in an aborted transaction: neither RUNNING nor
\* the catch block's UPDATE passes, and the job is left for another claim.
StartRefused(t) ==
    /\ tick[t].pc = "start"
    /\ poisoned > 0
    /\ NextJob(t)
    /\ UNCHANGED <<registry, installed, jobs, api, ids, background>>

Leaves(t) == DdlFails(t) \/ SessionLost(t) \/ StartRefused(t)

\* A claim meets such a session: its BEGIN fails, its ROLLBACK mends it (the
\* pool hands out the session last returned, and closes those that lie idle).
SessionMended ==
    /\ poisoned > 0
    /\ poisoned' = poisoned - 1
    /\ UNCHANGED <<registry, installed, jobs, tick, api, ids, overlap, budget, crashed,
                   deleted, recreated, unrecorded>>

\* The engine dies with every tick it was running.
Crash ==
    /\ Spend("faults")
    /\ \E t \in Ticks : tick[t] # IdleTick
    /\ crashed' = TRUE
    /\ tick' = [t \in Ticks |-> IdleTick]
    /\ UNCHANGED <<registry, installed, jobs, api, ids, overlap, deleted, recreated,
                   poisoned, unrecorded>>

----------------------------------------------------------------------------
Init ==
    /\ registry = LET number == CHOOSE f \in Bijection(Triggers, 1..Cardinality(Triggers)) : TRUE
                  IN  [k \in Triggers |-> [id |-> number[k], status |-> "ACTIVE"]]
    /\ installed \in SUBSET (Triggers \ Scheduled)
    /\ jobs = <<>>
    /\ tick = [t \in Ticks |-> IdleTick]
    /\ api = IdleApi
    /\ ids = Cardinality(Triggers)
    /\ overlap \in BOOLEAN
    /\ budget \in Budgets
    /\ crashed = FALSE
    /\ deleted = {} /\ recreated = {} /\ unrecorded = {}
    /\ poisoned = 0

Work(t) ==
    \/ Start(t) \/ ReadRegistry(t) \/ RedropTrigger(t) \/ CreateDbTrigger(t)
    \/ Activate(t) \/ DropTrigger(t) \/ Sweep(t) \/ RemoveRow(t)
    \/ PerformAction(t) \/ ScheduledAction(t) \/ Rearm(t) \/ Complete(t) \/ Fail(t)

ApiStep == MarkTrigger \/ CancelJobs \/ EnqueueApiJob

Next ==
    \/ \E k \in Triggers :
          \/ CreateTrigger(k) \/ ApplyManifest(k)
          \/ SelectTrigger(k, "delete") \/ SelectTrigger(k, "deploy")
          \/ FireTrigger(k) \/ AutoDrop(k)
    \/ ApiStep
    \/ \E j \in Indices : RetryJob(j) \/ BecomesDue(j)
    \/ \E t \in Ticks : Claim(t) \/ Work(t) \/ StepFails(t) \/ Leaves(t)
    \/ SessionMended \/ Crash

\* The poll timer, the clock and every started tick keep going, and so do the
\* claims that meet an aborted session.
Fairness ==
    /\ WF_vars(SessionMended)
    /\ \A t \in Ticks : WF_vars(Claim(t)) /\ WF_vars(Work(t))
    /\ \A j \in 1..MaxJobs : WF_vars(j \in Indices /\ BecomesDue(j))

Spec == Init /\ [][Next]_vars /\ Fairness

----------------------------------------------------------------------------
(* Properties                                                                *)

RegistryRow == [id : Nat, status : {"NONE", "ACTIVE", "PENDING_DEPLOY", "PENDING_DELETE"}]
JobRow == [type : Types, tid : Nat, key : Triggers, status : Statuses,
           attempts : Nat, due : BOOLEAN, done : BOOLEAN]
JobCopy == [job : Nat, tid : Nat, attempts : Nat]
TickLabels == {"idle", "start", "registry", "redrop", "create", "activate", "drop", "sweep",
               "remove", "perform", "fire", "rearm", "complete", "fail"}
TickType == [pc : TickLabels, batch : Seq(JobCopy)]
ApiType == [op : {"none", "delete", "deploy"}, pc : {"none", "mark", "cancel", "enqueue"},
            key : Triggers \cup {"none"}, id : Nat]

\* Rows, jobs, ticks and calls have their shape; a tick at work has a job in
\* hand, and works on jobs that exist.
TypeOK ==
    /\ registry \in [Triggers -> RegistryRow] /\ installed \subseteq Triggers
    /\ jobs \in Seq(JobRow)
    /\ tick \in [Ticks -> TickType]
    /\ \A t \in Ticks : /\ (tick[t].pc = "idle") <=> (tick[t].batch = <<>>)
                        /\ \A n \in DOMAIN tick[t].batch : tick[t].batch[n].job \in Indices
    /\ api \in ApiType /\ (api.pc # "none" => api.key \in Triggers)
    /\ ids \in Nat /\ overlap \in BOOLEAN /\ crashed \in BOOLEAN
    /\ deleted \subseteq Triggers /\ recreated \subseteq Triggers
    /\ poisoned \in Nat /\ unrecorded \subseteq Nat

InHand(j) == \E t \in Ticks : tick[t].pc \notin {"idle", "start"} /\ Copy(t).job = j

\* A job is RUNNING only while a tick works on it: whatever fails, overlaps or
\* is cancelled meanwhile, a job is left RUNNING for nobody to pick up (the
\* claim looks at PENDING jobs alone) only by the death of the engine or by a
\* last failure whose record failed too, on a lost session or in the
\* transaction that a failing DDL statement leaves aborted.
OnlyUnrecordedStrands ==
    \A j \in Indices : jobs[j].status = "RUNNING" => InHand(j) \/ crashed \/ j \in unrecorded

\* While ticks do not overlap, the database never holds a trigger the registry
\* does not know, so every installed trigger can be listed and deleted; the
\* exception is a trigger created again while its deletion is under way.
NoOrphanTrigger ==
    \A k \in installed : registry[k] # NoRow \/ overlap \/ k \in recreated

\* An action recorded as COMPLETED was really delivered, however
\* many ticks, retries and failures touched its row.
CompletedWasPerformed ==
    \A j \in Indices :
        jobs[j].type = "EXECUTE_TRIGGER_ACTION" /\ jobs[j].status = "COMPLETED"
        => jobs[j].done

Ended(j) == j \in Indices /\ jobs[j].status \in {"COMPLETED", "FAILED", "CANCELLED"}
Recurring == {j \in Indices : jobs[j].type = "SCHEDULE_TRIGGER"}

\* Every one-shot job ends, although overlapping ticks overwrite each other's
\* attempts and outcome and sessions in an aborted transaction refuse jobs; it
\* needs an engine that does not die, a failure that could be recorded, and fewer
\* recurring jobs than a batch holds (older recurring jobs are claimed first).
EveryTriggerJobEnds ==
    \A j \in 1..MaxJobs :
        (j \in Indices /\ jobs[j].type # "SCHEDULE_TRIGGER")
        ~> (Ended(j) \/ crashed \/ j \in unrecorded \/ Cardinality(Recurring) >= BatchSize)
=============================================================================
