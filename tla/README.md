# Universal Data Fabric: TLA+ specifications

This directory holds the formal models of the data fabric: what they model, what
TLC checks on small instances, and what TLAPS proves for every instance.

    tlc -config copy_keyed.cfg MCResumableCopy     # one run
    tlapm --stretch 1.3 TriggerJobsProofs.tla      # the proofs of one module

`PROJECT.json` lists the components, the runs with their properties, the mutants
(for each property a plausible bug that it must catch), the source lines every
definition models, the findings, the hazards and the theorems.

## 1. The system

The fabric is an API process (`backend/`) in front of a Postgres/Citus hub, with two
satellite processes (`replication-engine/`, `trigger-engine/`), Redis, Kafka and
Elasticsearch, and any number of registered source databases. The durable state of
the control plane is rows in `fabric_system.*` and `public.*`; processes share
nothing else.

| component | state | operations | meets others through |
|---|---|---|---|
| Copy-job queue (`jobs/copy_job_engine.ts`) | `copy_jobs` (status, control, attempts, heartbeat), in-memory locks | enqueue, pause, resume, claim, reclaimStale, processOne | schedulers and controllers enqueue; the replication-engine polls the same rows |
| Resumable copy (`sync/copy_util.ts`, `copyTable*`) | the replica, `copy_checkpoints` | page, write, save, pause, abort | runs under a job; reads a source that others write |
| CDC (`sync/cdc_capture.ts`, `cdcRun`, `_refreshCdc`) | triggers and outbox on the source, `replication_watermark` | ensure, maxSeq, read, apply, save, prune | source transactions, other jobs of the table |
| Incremental replication (`copyTable*`, `tracking.ts`) | `replication_watermark` | load, delta run | the source's writers |
| CDC over Kafka (`sync/cdc_kafka.ts`) | producer offset, topic, consumer offset | baseline, produce, consume | the outbox, Elasticsearch |
| Trigger engine (`trigger.worker.ts`, `trigger.service.ts`) | `trigger_registry`, `trigger_jobs`, triggers in the database | create, deploy, delete, fire, tick, retry | API calls, firing triggers and overlapping ticks meet in the tables |
| ES mutation queue (`es_mutation_worker.ts`) | `es_mutation_jobs`, the index | enqueue, tick, apply, defer | the write path of the query engine |
| Caches (`config/cache.ts`, `limits.resolver.ts`, `license.manager.ts`) | Redis keys, maps in memory | cached, invalidate, expire | every writer of what is cached |
| Plans, limits, rates (`enforce.ts`, `systemRoutes.ts`, `workspaceRoutes.ts`) | plans, subscriptions, counters | count-then-insert, choose, edit, delete | controllers |
| Citus workers (`worker-node.service.ts`) | registry, Citus metadata | add, activate, drain, remove, sync | Citus |
| Tenants (`tenant.service.ts`, `tenantScope.ts`) | tenants and their schemas | create, delete, purge | manifests, the cleanup timer |
| Metadata orchestration (`orchestrator.ts`, `diff_engine.ts`, `transpiler.ts`, `dispatcher.ts`, `metadata.service.ts`) | catalog, hub tables, remote collections | parse, validate, diff, apply, crawl, export | downstream databases |
| Sequences, document constraints, materialized views | counters, documents, view tables | nextval, check-then-write, refresh | the write path |
| Sources, downstreams, channels; accounts; timers | their rows, foreign servers, sessions, licence status | register, remove, toggle, log in, check, purge | identity provider, licensing portal |
| Query engine (`query-engine/*`, `connectors/factory.ts`) | none | route, push down, federate, compensate | the sources |
| Query text (`query_transpiler.ts`, `sqlGuard.ts`, `analytics.service.ts`) and access (`index.ts`, policies, grants) | none | admit, render, authorise, filter | every request |

Where it is hard:

- **Crash and restart.** A copy is a long series of autocommit statements against two
  databases; a worker may die between any two and another goes on from the last
  checkpoint. Trigger jobs, Kafka offsets, manifests and worker nodes also change two
  stores in separate statements.
- **Presumed death.** A heartbeat is stamped only when a batch is checkpointed: a slow
  batch makes a live worker look dead.
- **Claims without locks.** The ticks of the trigger engine and of the index worker
  commit their claim without changing a status; ticks of one `setInterval` overlap.
- **Check, then write.** Limits, document constraints, plans, channels and sequences
  read before they write.
- **Order.** CDC takes its position before the snapshot, applies in commit order and
  prunes what the pruning job has read; index mutations back off past later ones.
- **Two roads to one answer.** A query may run in one source, be pushed down in part or
  be computed by the fabric; the answer may not depend on it.

## 2. Modules

| module | models |
|---|---|
| `ResumableCopy` | one table copied by one job: `getStart`, probe, DDL, pages, row writes, checkpoints, pause, errors, crash, resume, a changing source. `profile` collects what differs between the six `copyTable*` functions |
| `CopyJobQueue`, `JobLifecycle` | rows of `copy_jobs`, overlapping `processOne` calls, locks, schedulers, the microservice, heartbeats and reclaiming; the abstract life cycle it implements |
| `CdcReplication` | source transactions, capture triggers and outbox, each job's snapshot and drain, pruning, failures; `withLock` is of one process, and so is the model: a job has one run at a time |
| `TriggerJobs` | the registry, the job table, the API calls statement by statement, firing triggers, ticks that work on copies of claimed rows, failures, sessions left in an aborted transaction (`poisoned`), crashes |
| `Services` | the composition of the seventeen services below; each has tables of its own, so a behaviour is one of a single service while the others rest |
| `IncrementalWatermark`, `CdcKafka`, `EsMutationQueue` | watermark runs; producer, topic and consumer; the index queue |
| `DocumentWrites`, `FabricSequences`, `MaterializedRefresh` | constraints checked before the write; block allocation; TRUNCATE and fill |
| `ManifestApply` | plan, hub transaction, remote part after the commit, overlapping and failing |
| `SettingsCaches`, `CatalogCache` | licence and limits per process; Redis reads of the catalog |
| `PlanLimits`, `WorkspacePlans` | admission and request windows; the plan catalogue |
| `WorkerNodes`, `TenantNamespaces` | Citus against the registry; ids that extend one another, creation, deletion, purge |
| `ExternalSystems`, `Accounts`, `PlatformDaemons` | sources, downstreams and channels; log-ins and sessions; the licence check and the cleanup timer |
| `Federation`, `FabricCompute` | joins and set operations with what is pushed to each leg; windows, hierarchies, recursive CTEs |
| `QueryRouting`, `SourcePushdown` | where a query runs and how much it may return; what each engine answers |
| `QueryText` | SQL guards over token classes, query trees and their rendering, saved analytics |
| `ManifestDiff`, `ManifestChecks`, `TriggerDefinitions` | plans per engine; parsing, validation and acceptance; trigger validation and both compilers |
| `Catalog` | crawl, record, export, migrate |
| `AccessRules`, `WorkspaceRules`, `SourceAddresses` | the middleware chain, tokens, grants, policies, masks; plans and overrides, settings, subscriptions, startup; which addresses a source may name |
| `AllCases` | the small inputs on which the pure parts are evaluated: a behaviour picks a case, then evaluates it in one of the ways the code may |
| `MCResumableCopy`, `MCCopyJobQueue`, `MCTriggerJobs`, `MCServices` | the instances of the runs |
| `*Proofs` | the theorems (section 5) |

An action is one statement that commits something or reads what others change, with
everything that follows before the next such statement; a handler of several
statements is a program counter per caller (`worker`, `calls`, `run`, `tick`, `api`, ...).
Ghost variables only remember what a property speaks of: rows that changed
(`touched`, `exposed`), disturbances (`disturbed`, `excused`, `torn`, `mixed`, `rebuilt`), what nobody
read or recorded (`unseen`, `unrecorded`), requests (`deleted`, `recreated`, `latePages`). One key stands for
all of a workspace in `CatalogCache` (nothing relates two), and what a process keeps of the
system settings is no cache of its own in `SettingsCaches`: it lives shorter than the
licence state beside it, and PUT /system/settings clears nothing else (`ChangeElsewhere`). The data is cut to what properties tell apart: a row is an
identity or a version, a name the sequence of its parts, a token its class.

Identity provider, licensing portal, Kafka broker, Citus and the drivers are external
and modelled by what the code relies on.

## 3. Runs

| run | bounds | shows |
|---|---|---|
| `copy_keyed` | 4 rows, pages of 2, maxRows 4, 2 faults, any source traffic, fair | full, short and empty last pages, the row cap, two interruptions anywhere: `CompletedIsWhole`, `CheckpointCovered`, `OneBatchReapplied`, `EventuallySettles` |
| `copy_keyless` | the same without a key or cap | a reload never doubles rows (`NoDuplicates`) |
| `copy_overlap` | two live workers, an unfinished replica dropped between calls | a COMPLETED copy is whole unless one worker rebuilt the replica under the other (`OverlapLosesNothing`) |
| `queue_live` | 2 overlapping calls of one process, 2 jobs, 2 batches, 2 attempts, 2 faults, 1 resume, fair | `OneCopyPerRef`, `CompletedIsCopied`, `EveryJobSettles`, `LifecycleSpec` (refinement) |
| `queue_external` | 2 workers of two processes and the microservice, the same bounds | a job has one claimant (`OneClaimant`), a pause request that still stands is obeyed after the batch under way (`StandingPauseStops`), retries are bounded (`RetriesSpent`) |
| `cdc_drain` | 3 keys, 2 values, 3 changes, pages and batches of 2, 1 fault, fair | `NothingLost`, `PositionAdvances`, `Converges` |
| `cdc_shared` | 2 hub jobs on a MySQL table, key updates | a missing trigger is one about to be created (`TriggersRestored`); what is pruned a job has applied, and has saved that it did (`PrunedWasApplied`) |
| `triggers` | a table trigger and a scheduled one, 2 ticks, batches and attempts of 2, 1 fault, 2 calls or a call and a firing, fair | `OnlyUnrecordedStrands`, `NoOrphanTrigger`, `CompletedWasPerformed`, `EveryTriggerJobEnds` |
| `services` | two of everything that can overlap, three creators for a limit of 2, clocks of 4 to 12 ticks | the twelve promises of `Services` |
| `queries` | every table of up to two rows and three keys, every definition with up to two parts, every engine; the manifest limits are small, so that every list is met below, at and above its own | the six families of pure functions, each against what SQL, the declaration or the other road says |
| `v_composite_key` | 3 rows of which 2 share the first key column | violated: keyset paging by the first column of a composite key skips rows |
| `v_pause` | 2 processes, 2 batches, 1 fault | `PauseStopsAfterBatch` violated: the next claim erases a pause that was accepted (`copy_job_engine.ts:190` against its comment at 104) |

Two rows per page and four rows give every kind of page; two faults allow a fault
during the recovery from a fault; two callers give every pairwise race, and the code
has no three-party protocol. Three changes fill a batch and leave a short one. Two
trigger jobs fill a batch, the third waits. In `services` the tenants are `a` and `a_b`
with a schema `b`, so that names of one can carry the prefix of the other, and clocks
run past both cache lifetimes, two rate windows and a week of two days. The one collection is
in `Namesakes`, so that each lookup of it may find another table of its name or none, and `Steps`
holds the increment 0. In `queries` most joins run with a window, a
cap and bind batches that no table fills (`Ample`); the cases with a window or a cap of
one or two rows and a bind list of one key (`Tight`) show what is cut. Predicates are
tried on a driving table of at most one row, since each row is judged by itself.
`CHECK_DEADLOCK FALSE` is set where a bounded number of jobs, calls or cases is simply
used up.

The passing runs fix constants to the setting in which the code keeps its promise.
Changing one shows a known limit of the code:

| constant | in | refuted | what happens |
|---|---|---|---|
| `Drops = {"unfinished"}`, 1 fault | `copy_keyed` | `CompletedIsWhole` | a crash between rebuilding a dropped replica and saving the new checkpoint |
| `Drops = {"finished"}`, 1 fault | `copy_keyed` | `CompletedIsWhole` | a finished table's dropped replica is not noticed |
| (as is) | `copy_overlap` | `CompletedIsWhole` | a slow worker presumed dead: one of two workers drops the table under the other |
| `SlowBatch = TRUE` | `queue_live` | `LifecycleSpec` | a slow worker presumed dead overwrites the outcome |
| `SlowBatch = TRUE` | `queue_external` | `OneClaimant`, `StandingPauseStops`, `RetriesSpent` | the same, with two claimants |
| (as is) | `queue_external` | `CompletedIsCopied` | the microservice completes jobs without copying |
| `Jobs = {j1, j2}`, no fault, 2 keys, 1 change | `cdc_drain` | `NothingLost` | one job prunes what another has not read |
| `SourceEngine = "POSTGRES"` | `cdc_drain` | `NothingLost` | a change between DROP and CREATE TRIGGER |
| `SerialWriters = FALSE` | `cdc_drain` | `NothingLost` | a transaction that commits late is below the position |
| `KeyUpdates = TRUE` | `cdc_drain` | `NothingLost` | the row under the old key stays |
| `Hub = TRUE` | `cdc_drain` | `NothingLost` | a change between backfill and baseline |

## 4. Fairness

- `ResumableCopy`, `CopyJobQueue`: weak fairness of the workers' own steps, of
  reclaiming and of the ageing of a dead worker's heartbeat: `startWorker` polls for ever, a
  running copy continues unless it faults, and time passes. Faults are bounded; users
  and the source are not fair.
- `CdcReplication`: the scheduler keeps starting runs, so a job's steps are fair; strongly,
  because DDL on a table that is written queues for its lock and the database grants
  queued locks in turn. Open transactions end.
- `TriggerJobs`: weak fairness of each tick's claim and work, of `run_at` passing and of
  `SessionMended`: a pool hands out the session last returned, so a claim meets the aborted
  one, and its ROLLBACK ends the transaction. A poll timer and a clock justify no more; `EveryTriggerJobEnds` therefore excludes an
  engine that died, failures that could not be recorded and recurring jobs that fill whole batches (they are the oldest
  rows and are claimed first, at every tick).
- The other runs check safety only.

## 5. Proofs

Every theorem holds for every value of the constants that satisfies the named ASSUMEs
of its module; TLC evaluates those on each run. They say that sets of rows, requests
and processes are finite, that bounds, batches and cache lives are natural numbers (and
not 0 where the code would do nothing), that the keys of a
watermark table are numbered from 1, and that names made up for a purpose (the lock's
absent holder, hashed user ids) are not among the names users choose.
Where a theorem has a hypothesis of its own it is a setting of section 3, and the
table there shows what happens without it.

**`ResumableCopyProofs`.** `CopyTypeOK` in every setting. Under `IntendedSetting` (single-column
key, one live worker, a replica nobody drops):
- `CompletedCopyIsWhole`, `CheckpointIsCovered` from `CopyInv`: at most one call, a fresh copy
  means nothing was saved, and `Coverage`: every unchanged row up to the cursor of the
  checkpoint and of each call is in the replica; while a page is written, what left
  `todo` is too. The properties alone are not inductive, because they say nothing of
  the page in hand.
- `OneBatchAgain` (`OneBatchReapplied`) from `BoundaryInv`: the rows ahead of the saved cursor are
  an initial segment of at most `BatchSize` rows behind it. The count needs that the
  rows of a page are exactly the first ones behind the cursor.

`NeverDuplicated` (`NoDuplicates`) needs only `SafeToReload`, a key or a worker that nobody
overtakes, from `ReloadInv`: what an OFFSET reload has loaded is a prefix of the source, and
the rows still to be written are not in it.

**`CdcReplicationProofs`.** `CdcTypeOK` in every setting, and so `PruningFollowsSaving` (`PrunedWasApplied`): with
any number of jobs on the outbox, what is pruned lies at or below the saved
position of a job; the others on that outbox get no promise. `NoChangeIsLost`, `PositionNeverMovesBack` under `CdcSetting` (Oracle's atomic trigger, not the hub, serial source transactions,
immutable keys, one job) from `CdcInv`: committed sequence numbers are below open ones
and positions, the newest outbox row of a key carries its value, and each key is caught
up or has a change beyond the position. `RacesRestoreTriggers` (`TriggersRestored`) for any engine
and number of jobs while no run dies (`MaxFaults = 0`), from `TriggersInv`: a job past its trigger
phase leaves its operations armed or another job between DROP and CREATE.

**`CopyJobQueueProofs`.** `TypesOK` and `LockIsExclusive` (`OneCopyPerRef`) in every setting, from `QueueInv`: a
call that copies holds the lock of its reference, and a lock has one holder. Under
`HeartbeatsInTime` (no slow batch) `ClaimIsExclusive`, `StandingPausesStop` (`StandingPauseStops`) and `RetriesAreCounted`, from `ClaimInv`: a
call's row is RUNNING, fresh and its own, with the attempts the call remembers. Under
`SyncSetting` (also no microservice, SYNC jobs) `CompletedMeansCopied` and the refinement
`QueueImplementsLifecycle`: every step is a step of `JobLifecycle` or a stutter. `SyncInv` ties the
position of a call to the batches that were copied.

**`TriggerJobsProofs`.** For any number of triggers, jobs, ticks, calls and failures, with or without
overlap:
- `TypesOK`; in particular a tick at work has a copy of an existing row in hand.
- `RunningIsInHand` (`OnlyUnrecordedStrands`): inductive beside the types, but only because a tick
  leaves a row either by one of the three ends of a job, which all write a status, or by
  an UPDATE that failed, which `unrecorded` names.
- `CompletedActionsHappened` (`CompletedWasPerformed`), from `Delivered`: a tick at "complete" with an action
  in hand has delivered it. Another tick may overwrite the status, never the
  delivery.
- `InstalledIsKnown` (`NoOrphanTrigger`), from `OrphanInv`: one tick at a time; registry ids handed out
  once; every row, copy and call refers to the registry row of its own trigger or to
  none (`Named`: ids are reused by no row, so a stale copy cannot name another trigger);
  removals are of triggers whose deletion was requested; what a tick is about to
  install is known, and what it is about to forget is no longer installed
  (`Orphans`). The interesting steps are a manifest applied between the sweep and the
  removal of the row (hence `recreated`) and the deployment that has read its row.

**`ServicesProofs`.** Each from an invariant of its service, lifted to the composition (a
service at rest keeps its state):
- `SequencesAreFresh`: numbers handed out since the last reset lie on one side of the counter,
  unless its stored increment is 0.
- `QuietViewsAreWhole` (`ViewInv`): what a refresh has inserted so far is a prefix of one version.
- `TenantsAreDisjoint` (`NamespacesInv`): the creator holds the lock from its overlap check to its
  insert, ids never extend one another, schemas have an owner or are orphans.
- `RegistryFollowsCitus` (`WorkersInv`): a host on which the two disagree is under an operation or torn;
  a removal that could not read the nodes is the third way to tear one.
- `ConflictsAreOnlyRaces` (`DocumentsInv`): what a write checked was true when it looked, and what
  contradicts it bears a later stamp.
- `AppliesAreAlwaysSafe` (`ManifestInv`): collections pending in an apply are absent, excused or
  untouched; a lookup that found the wrong row excuses its collection.
- `OvershootIsBounded` (`LimitInv`): the first conjunct of `AdmissionBounded`.

**`PlatformProofs`.** The control plane's clocks and limits, for any number of processes,
handlers, plans and windows:
- `StalenessIsBounded` (`StaleBounded`) joins three services. `SettingsInv`: a cached licence or
  limit was true when it was computed, and no older than its lifetime plus the time a
  computation takes (`Ages`); an entry that was cleared and written again by a computation
  begun before the change is why `NotReplaced` speaks of the computations under way.
  `CacheInv`: a value read for the Redis cache before an invalidation is of a version that
  is past (`VersionsPast`). `LicenceInv`: the days of grace count from the last day the portal was
  heard, whatever the process keeps in memory.
- `AdmissionIsBounded` (`AdmissionBounded`) joins four services. `LimitInv`: see above. `RateInv`: a request
  that was granted is behind the counter of its process, in an earlier slot or with a
  lower number, and no two have the same one; so a slot grants at most the limit per
  process, and any stretch of a window's length, which meets two slots, at most twice
  that. `PlansInv`: while no update overlaps another or a deletion there is one default
  plan and it is offered (`DefaultInv`); while no deletion overlaps a choice and none is
  renamed, a workspace's plan exists (`KeptInv`); while choices do not overlap, there is one
  trial (`TrialInv`). `CleanupInv`: purges happen at hours when they are due, and while checks do
  not overlap there is one.

**`IntegrationProofs`.** What meets other systems:
- `ConnectionsAreKept` (`ConnectionsHold`) from `AccountsInv` (no other log-in makes the same user, a user
  has its workspace or a log-in about to give it one, and whoever is in a workspace was
  put there) and `ExternalInv` (apart from what `mixed`, `upserted` and `clashed` name, one request is
  between its steps, and the foreign server, the default channel and the registered
  target are those the request knows).
- `DrainedIsAlwaysCurrent` (`DrainedIsCurrent`) from `KafkaInv`. `RunKept` holds with any number of jobs: a run
  past its snapshot has saved its position, and nothing is ahead of the source. `Followed`
  holds of a job that is the only one: below the producer's offset lies what the
  snapshot held or the topic holds, newest last. The property is not inductive because
  it says nothing of a batch that was sent and whose offset is not saved yet.
- `MarkIsAlwaysCovered` (`MarkIsCovered`) from `MarkInv`: a batch in hand is not newer than the table (`ReadBefore`),
  a full load has covered the keys it has passed (`LoadCovers`), and what is at or below the
  highest mark read is in the replica, in the batch or still ahead of the load
  (`DeltaCovers`), while runs of a table are alone (`RunsAreAlone`).
- `IndexAlwaysFollowsHub` (`IndexFollowsHub`) from `IndexInv`: until a failure or an overlap disturbs the order
  (`disturbed`) or an item fails unread (`unseen`), every write is queued or about to be, in the order of the writes
  (`WritesQueued`), one tick works (`OneTick`), and there is a number of jobs that are done, from which
  the tick goes on and which the index shows (`DoneTo`).

Lemmas that several proofs need are stated once: updates and appends of a table as
functions on `1..n`, heads and tails of a batch, edits of one record, images and
cardinalities of initial segments and of unions over processes. Where an argument needs
the least or the greatest number of a set, it takes it by well-founded descent (`WFMin`)
on a named set, so no induction over data is needed.

The passing runs check 40 properties; these theorems state 29 of them, which is every
safety property, action property and refinement but seven. Only model-checked, and why:
- all liveness (`EventuallySettles`, `EveryJobSettles`, `Converges`, `EveryTriggerJobEnds`): fairness and ENABLED are
  out of the prover's reach;
- `OverlapLosesNothing`: what two live workers leave of one table, whose invariant would follow
  the cursors of both;
- the six properties of `queries` (`FederationExact`, `RoadsAgree`, `DefinitionsDeploy`, `TextFaithful`,
  `CatalogFaithful`, `AccessSound`): they compare what recursive definitions compute, which for every
  input needs induction over data.

## 6. Known limits of the code

Met while modelling. The models contain the behaviour; the properties name it as an
exception, or the inputs that show it are outside the cases.

**Copies and jobs.** The claim sets `control = 'RUN'` and so erases a pause accepted while
the job was QUEUED, or RUNNING under a worker that then died or was retried
(`copy_job_engine.ts:190` against its comment at 104 and `developer_docs/replication.md:48`: `v_pause`); a REPLICATE job that
finds the lock taken returns SKIPPED and is COMPLETED (`replication.service.ts:144`, `copy_job_engine.ts:227`);
`ReclaimStale` does not look at `attempts`; two schedulers may both pass the dedupe SELECT; a
failing scheduled run leaves `last_run_at` and is queued again at each tick, the SYNC
scheduler stamps it even when the enqueue failed. A watermark is keyed by the table's
name alone; restoring an INCREMENTAL job reuses the forward mark; two tables may
share an index; `interval` becomes INTEGER, decimals DOUBLE on MySQL.

**CDC and Kafka.** `seq > lastSeq` misses late commits; two CDC jobs of one table share
one producer offset and prune each other's changes; errors of an index DELETE are
swallowed and the errors of the items of a `_bulk` request are not read
(`es_mutation_worker.ts:148`), so the job is COMPLETED and the document not there; the mark is read
after the snapshot and ties at the limit are skipped.

**Triggers.** A job that is RUNNING when the engine dies stays so; so does one whose DDL fails,
because the transaction is not rolled back and the UPDATE of the catch block fails in it
(`trigger.worker.ts:104-109` and 303, where `docs/trigger_engine_and_es_sync.md:175-182` promises a bounded retry and
RUNNING -> COMPLETED or FAILED), and the session refuses the jobs that meet it next; a completed or
rearmed status overwrites CANCELLED; the sweep cancels by name without the tenant
(`trigger.worker.ts:127-134`); a retried FAILED job counts beyond `max_attempts`; recurring jobs may
starve the others; `RETURN NEW` cancels a BEFORE DELETE; the manifest compiler ignores a
trigger-level condition; a notification compares null as 0 and sends a webhook
without the authorization whose fields are missing.

**Manifests and catalog.** Shorthand sections beside `resources` are dropped; some accepted
combinations cannot be deployed: a grant without a role or with an empty `roles` list,
security lists or a mask's `roles` that are not arrays, an M:N bridge whose column
names pass 63 characters, a relationship between tables of another schema than the
manifest's first (`diff_engine.ts:93-97`); a function is compiled as plpgsql whatever its
`language`; a schema's own target and the sources of materialized views are not checked
before the apply; MySQL indexes and Oracle tables and indexes are
created without IF NOT EXISTS, so a table cut off halfway is never completed;
`createCollection` drops documents; a collection is looked up by tenant and name alone
(`diff_engine.ts:327-333`), so the row of another schema or source makes it created again, and so
emptied, or never; DEGRADED is never retried, since the next diff finds the catalog's
row; FLOAT, JSON and enum columns
are altered at every apply; re-applying resets a fabric sequence; `nextval` accepts the increment 0
(`sequence.service.ts:55`) and then repeats one number, against "no duplicates under
concurrency" (line 9); foreign keys are
skipped when any constraint of the derived name exists; crawled NOT NULL of MySQL and
primary keys of hub exports are lost; an error of the relationships rolls the crawl
back and reports success; materialized views are re-created by every plan.

**Queries.** Null keys match in the broadcast join and not in the bind join; `IS_NULL` is
pushed without its value; later filters of the same column and operator replace
earlier ones, also in a policy, where all conditions should apply (`policy.service.ts:198`); RIGHT and FULL run as INNER, with a warning; of three legs
joined INNER the answer is empty when the planner drives from a leg whose partner is not
joined yet (`federation.ts:1086-1131`); legs of a set operation are
cut at the outer limit; HAVING follows ORDER and LIMIT on the federation road; MIN, MAX and
AVG of partials count nulls as 0; unknown operators mean equality; LIMIT 0 is raised
to the cap; an UPDATE or DELETE with a limit only touches every row; Mongo `find` takes limit 0
for none, Elasticsearch stops at 10,000; streamed scans drop a filter that holds an
expression and ignore OFFSET; the legs of a set operation and the driving side of a
streamed join (`federation.ts:736`, 863-914) pass no grant, no row policy and no mask, against
`federation.ts:634-635` and `policy.service.ts:10-13` (`PolicyHolds` states the agreement of both roads
where nothing governs the table); masks go by the name of an output column, so the alias
of an aggregate escapes them (`federation.ts:172-180`; `MaskHolds` speaks of names); a Mongo pipeline of co-located legs
runs before the policy check; an optional variable left out turns `=` into IS NULL; WITH
beside a set operation or a write is dropped.

**Tenants, plans, access, timers.** Check-then-insert limits are passed by the requests in
flight; choosing the same trial again restarts it; renaming a plan leaves workspaces on
the old name; a default plan is lost when its update overlaps a deletion; rollback,
migration and toggles do not clear the cache, nor does a process whose Redis connection
failed; grant denials answer 500 on the query road and 403 elsewhere; an unknown mask
leaves the value; IPv6 ranges match their base address only; a rejected licence key is
good again from the first check that does not reach the portal; the purge and its
record are two statements, and a purge of a deleted tenant leaves an orphan namespace;
re-registering a source never changes its type; a source whose name resolves to the hub
and names no port passes the resolver's check; the partial tenant update of
`adminRoutes.ts:27` writes NULL for a missing status and fails without a name; removing a SYNC source drops the
tenant's table of the remote name; deleting a user leaves owners dangling; a source whose
host is "dummy" has no foreign server (`integration.service.ts:316`). Errors of reading the Citus
nodes are swallowed (`worker-node.service.ts:93-132`): a removal then deletes the row alone and reports
success, a sync marks every row DRIFT, and an import whose name is taken is skipped
(`ON CONFLICT DO NOTHING`).

## 7. Not modelled

- The conversions of cursors to text and back and of column types between engines
  beyond the choices named above; `rows_total`, percentages and throughput.
- Mongo change streams: the resume token plays the part of the sequence number, but
  the order is the server's.
- Editing and renaming a trigger in place (`updateTrigger`).
- The wording of SQL, DDL and error messages; the models keep what is deployed, which
  names mean what and which error is answered.
- Cryptography (licence and token signatures), driver internals, resilience
  diagnostics (two read-only queries), events, quality checks and GitOps reporting, the
  seed script, the web UI, demos and examples.

## 8. What is next

What is left needs other means than these: the liveness properties a prover with
fairness rules, the pure functions an induction over their inputs. In the models, a
trigger that is edited in place, the order of Mongo change streams and the conversion of
cursors would extend `TriggerJobs`, `CdcReplication` and `ResumableCopy`.
