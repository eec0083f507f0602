------------------------- MODULE CopyJobQueueProofs --------------------------
(* Proofs about CopyJobQueue, for every number of processes, overlapping     *)
(* calls, jobs, batches, attempts and faults.                                *)
EXTENDS CopyJobQueue, FiniteSetTheorems, TLAPS

-----------------------------------------------------------------------------
(* Who holds what, whatever the setting.                                     *)

Working(c) == calls[c].pc \in {"probe", "batch"}

\* A row that was ever inserted names what it copies.
RowsNamed == \A j \in JobIds : jobs[j].status # "NONE" => jobs[j].ref \in Refs

\* A call that is not idle has claimed a job; a batch is one that is left, and
\* an outcome is there when it is recorded.
CallShape ==
  \A c \in Calls :
    /\ calls[c].pc # "idle" => calls[c].job \in JobIds /\ jobs[calls[c].job].status # "NONE"
    /\ calls[c].pc = "idle" => calls[c].job = 0
    /\ calls[c].pc = "batch" => calls[c].pos < Batches
    /\ calls[c].pc = "record" => calls[c].outcome # "none"

\* So has the microservice.
EngineShape == engine # 0 => engine \in JobIds /\ jobs[engine].status # "NONE"

\* A call that copies holds its process's lock on the job's ref.
LocksHeld == \A c \in Calls : Working(c) => jobs[calls[c].job].ref \in locks[procOf[c]]

QueueInv == TypeOK /\ RowsNamed /\ CallShape /\ EngineShape /\ LocksHeld /\ OneCopyPerRef

-----------------------------------------------------------------------------
(* With heartbeats in time.                                                  *)

\* No batch outlasts STALE_MS.
HeartbeatsInTime == SlowBatch = FALSE

\* A claimed job is RUNNING with a fresh heartbeat, and its row counts the
\* attempt the call remembers.
ClaimsFresh ==
  /\ \A c \in Calls : calls[c].pc # "idle" =>
       /\ jobs[calls[c].job].status = "RUNNING" /\ ~jobs[calls[c].job].stale
       /\ jobs[calls[c].job].attempts = calls[c].attempts
  /\ engine # 0 => jobs[engine].status = "RUNNING" /\ ~jobs[engine].stale

\* Nobody else has it.
ClaimsAlone ==
  /\ \A c, d \in Calls : c # d /\ calls[c].pc # "idle" => calls[c].job # calls[d].job
  /\ \A c \in Calls : engine # 0 => calls[c].job # engine

\* After the one batch that a pause let through, no other is under way.
PauseSeen ==
  \A j \in JobIds : jobs[j].control = "PAUSE" =>
    /\ latePages[j] \in {0, 1}
    /\ latePages[j] = 1 => \A c \in Calls : calls[c].job = j => calls[c].pc # "batch"

ClaimInv == QueueInv /\ ClaimsFresh /\ ClaimsAlone /\ PauseSeen

-----------------------------------------------------------------------------
(* In the SYNC queue, which the microservice does not poll.                  *)

SyncSetting == HeartbeatsInTime /\ External = FALSE /\ Kind = "SYNC"

\* A call's position is the job's checkpoint, and COMPLETED is an outcome only
\* of a copy that reached the end.
CopyTracked ==
  /\ engine = 0
  /\ \A c \in Calls : Working(c) => calls[c].pos = copied[calls[c].job]
  /\ \A c \in Calls : calls[c].pc = "record" /\ calls[c].outcome = "COMPLETED"
                         => copied[calls[c].job] = Batches

SyncInv == ClaimInv /\ CopyTracked /\ CompletedIsCopied


-----------------------------------------------------------------------------
(* Type correctness.                                                         *)

\* An edited row is a row.
LEMMA RowEdits ==
  ASSUME NEW r \in JobType
  PROVE  /\ \A s \in Statuses : [r EXCEPT !.status = s] \in JobType
         /\ \A ct \in {"RUN", "PAUSE"} : [r EXCEPT !.control = ct] \in JobType
         /\ \A b \in BOOLEAN : [r EXCEPT !.stale = b] \in JobType
         /\ \A s \in Statuses : [r EXCEPT !.status = s, !.stale = FALSE] \in JobType
         /\ [r EXCEPT !.status = "QUEUED", !.control = "RUN"] \in JobType
BY DEF JobType, Statuses

\* So is a claimed one, and the call that claimed it is a call.
LEMMA ClaimedType ==
  ASSUME NEW r \in JobType
  PROVE  [r EXCEPT !.status = "RUNNING", !.control = "RUN", !.attempts = @ + 1, !.stale = FALSE] \in JobType
<1>1. r.attempts + 1 \in Nat
  BY DEF JobType
<1>2. \A n \in Nat : [r EXCEPT !.status = "RUNNING", !.control = "RUN", !.attempts = n, !.stale = FALSE] \in JobType
  BY DEF JobType, Statuses
<1>3. [r EXCEPT !.status = "RUNNING", !.control = "RUN", !.attempts = @ + 1, !.stale = FALSE]
        = [r EXCEPT !.status = "RUNNING", !.control = "RUN", !.attempts = r.attempts + 1, !.stale = FALSE]
  BY DEF JobType
<1> QED BY <1>1, <1>2, <1>3

\* So does the record of the call that claims it.
LEMMA ClaimerType ==
  ASSUME NEW r \in CallType, NEW j \in JobIds, NEW n \in Nat
  PROVE  [r EXCEPT !.pc = "lock", !.job = j, !.attempts = n] \in CallType
<1>1. j \in 0..MaxJobs
  BY QueueAssumption DEF JobIds
<1> QED BY <1>1 DEF CallType

\* An edited call is a call.
LEMMA CallEdits ==
  ASSUME NEW r \in CallType, NEW l \in {"probe", "batch", "record"}
  PROVE  /\ [r EXCEPT !.pc = l] \in CallType
         /\ \A n \in 0..Batches : [r EXCEPT !.pc = l, !.pos = n] \in CallType
         /\ \A o \in {"COMPLETED", "FAILED", "PAUSED", "THROWN"} : [r EXCEPT !.pc = l, !.outcome = o] \in CallType
BY DEF CallType

\* The columns of a row and the variables of a call.
LEMMA Fields ==
  ASSUME NEW r \in JobType, NEW d \in CallType
  PROVE  /\ r.ref \in Refs \union {NoRef} /\ r.status \in Statuses /\ r.control \in {"RUN", "PAUSE"}
         /\ r.attempts \in Nat /\ r.stale \in BOOLEAN
         /\ d.pc \in {"idle", "lock", "probe", "batch", "record"} /\ d.job \in 0..MaxJobs
         /\ d.attempts \in Nat /\ d.pos \in 0..Batches
         /\ d.outcome \in {"none", "COMPLETED", "FAILED", "PAUSED", "THROWN"}
BY DEF JobType, CallType

\* A process that starts copies nothing.
LEMMA IdleType == Idle \in CallType
BY QueueAssumption DEF Idle, CallType

\* A queue starts empty.
LEMMA QueueInit == Init => QueueInv
<1> SUFFICES ASSUME Init PROVE QueueInv
  OBVIOUS
<1>1. NoRow \in JobType
  BY DEF NoRow, JobType, Statuses
<1>2. TypeOK
  BY <1>1, IdleType, QueueAssumption DEF Init, TypeOK, NoRef
<1>3. RowsNamed
  BY DEF Init, RowsNamed, NoRow
<1>4. CallShape /\ EngineShape /\ LocksHeld /\ OneCopyPerRef
  BY DEF Init, CallShape, EngineShape, LocksHeld, OneCopyPerRef, Working, Idle
<1> QED BY <1>2, <1>3, <1>4 DEF QueueInv

\* An inserted row is a row.
LEMMA InsertType ==
  ASSUME TypeOK, NEW ref \in Refs, Insert(ref)
  PROVE  jobs' \in [JobIds -> JobType]
<1>1. [NoRow EXCEPT !.ref = ref, !.status = "QUEUED"] \in JobType
  BY DEF NoRow, JobType, Statuses
<1> QED BY <1>1 DEF Insert, TypeOK

\* Leaving the copy keeps the types.
LEMMA LeaveType ==
  ASSUME TypeOK, NEW c \in Calls, NEW o \in {"COMPLETED", "FAILED", "PAUSED", "THROWN"}, Leave(c, o)
  PROVE  calls' \in [Calls -> CallType] /\ locks' \in [Procs -> SUBSET Refs]
<1>1. [calls[c] EXCEPT !.pc = "record", !.outcome = o] \in CallType
  BY CallEdits DEF TypeOK
<1> QED BY <1>1 DEF Leave, TypeOK

\* Every action keeps the types.
LEMMA TypeStep == QueueInv /\ [Next]_vars => TypeOK'
<1> SUFFICES ASSUME QueueInv, [Next]_vars PROVE TypeOK'
  OBVIOUS
<1> USE DEF QueueInv
<1>1. ASSUME NEW ref \in Refs, Enqueue(ref) PROVE TypeOK'
  BY <1>1, InsertType DEF Enqueue, TypeOK
<1>2. ASSUME NEW p \in Procs, DedupeInsert(p) PROVE TypeOK'
  BY <1>2, InsertType DEF DedupeInsert, TypeOK
<1>3. ASSUME NEW p \in Procs, NEW ref \in Refs, DedupeSelect(p, ref) PROVE TypeOK'
  BY <1>3 DEF DedupeSelect, TypeOK
<1>4. ASSUME NEW p \in Procs, Crash(p) PROVE TypeOK'
  BY <1>4, IdleType, QueueAssumption DEF Crash, TypeOK
<1>5. ASSUME NEW j \in JobIds, Pause(j) PROVE TypeOK'
  <2>1. [jobs[j] EXCEPT !.control = "PAUSE"] \in JobType
    BY RowEdits DEF TypeOK
  <2> QED BY <1>5, <2>1 DEF Pause, TypeOK
<1>6. ASSUME NEW j \in JobIds, Resume(j) PROVE TypeOK'
  <2>1. [jobs[j] EXCEPT !.status = "QUEUED", !.control = "RUN"] \in JobType
    BY RowEdits DEF TypeOK, Statuses
  <2> QED BY <1>6, <2>1, QueueAssumption DEF Resume, TypeOK
<1>7. ASSUME NEW j \in JobIds, HeartbeatAges(j) PROVE TypeOK'
  <2>1. [jobs[j] EXCEPT !.stale = TRUE] \in JobType
    BY RowEdits DEF TypeOK
  <2> QED BY <1>7, <2>1 DEF HeartbeatAges, TypeOK
<1>8. ASSUME NEW c \in Calls, Claim(c) PROVE TypeOK'
  <2>1. PICK j \in JobIds : Claim(c)!(j)
    BY <1>8 DEF Claim
  <2>2. jobs[j] \in JobType /\ jobs[j].attempts + 1 \in Nat
    BY Fields, IdleType DEF TypeOK
  <2>3. [jobs[j] EXCEPT !.status = "RUNNING", !.control = "RUN", !.attempts = @ + 1, !.stale = FALSE] \in JobType
    BY <2>2, ClaimedType
  <2>4. [Idle EXCEPT !.pc = "lock", !.job = j, !.attempts = jobs[j].attempts + 1] \in CallType
    BY <2>2, IdleType, ClaimerType
  <2> QED BY <2>1, <2>3, <2>4 DEF TypeOK
<1>9. ASSUME NEW c \in Calls, AcquireLock(c) PROVE TypeOK'
  <2>1. jobs[calls[c].job].ref \in Refs /\ copied[calls[c].job] \in 0..Batches
    BY <1>9 DEF AcquireLock, CallShape, RowsNamed, TypeOK
  <2>2. /\ [calls[c] EXCEPT !.pc = "probe", !.pos = copied[calls[c].job]] \in CallType
        /\ [calls[c] EXCEPT !.pc = "record", !.outcome = SkippedOutcome] \in CallType
    BY <2>1, CallEdits DEF TypeOK, SkippedOutcome
  <2>3. locks' \in [Procs -> SUBSET Refs]
    BY <1>9, <2>1, QueueAssumption DEF AcquireLock, TypeOK
  <2>4. calls' \in [Calls -> CallType]
    BY <1>9, <2>1, <2>2 DEF AcquireLock, TypeOK
  <2> QED BY <1>9, <2>3, <2>4 DEF AcquireLock, TypeOK
<1>10. ASSUME NEW c \in Calls, Probe(c) PROVE TypeOK'
  <2>1. [calls[c] EXCEPT !.pc = "batch"] \in CallType
    BY CallEdits DEF TypeOK
  <2> QED BY <1>10, <2>1, LeaveType DEF Probe, TypeOK
<1>11. ASSUME NEW c \in Calls, CopyBatch(c) PROVE TypeOK'
  <2>1. calls[c].job \in JobIds /\ calls[c].pos + 1 \in 0..Batches
    BY <1>11, Fields, QueueAssumption DEF CopyBatch, CallShape, TypeOK
  <2>2. [calls[c] EXCEPT !.pc = "probe", !.pos = @ + 1] \in CallType
    BY <2>1, CallEdits DEF TypeOK
  <2>3. [jobs[calls[c].job] EXCEPT !.stale = FALSE] \in JobType
    BY <2>1, RowEdits DEF TypeOK
  <2> QED BY <1>11, <2>1, <2>2, <2>3 DEF CopyBatch, TypeOK
<1>12. ASSUME NEW c \in Calls, Record(c) PROVE TypeOK'
  <2>1. calls[c].job \in JobIds /\ Outcome(c) \in Statuses
    BY <1>12, Fields DEF Record, CallShape, TypeOK, Outcome, Statuses
  <2>2. [jobs[calls[c].job] EXCEPT !.status = Outcome(c)] \in JobType
    BY <2>1, RowEdits DEF TypeOK
  <2> QED BY <1>12, <2>1, <2>2, IdleType DEF Record, TypeOK
<1>13. ASSUME NEW c \in Calls, CopyFails(c) PROVE TypeOK'
  BY <1>13, LeaveType, QueueAssumption DEF CopyFails, TypeOK
<1>14. ASSUME ReclaimStale PROVE TypeOK'
  <2>1. \A j \in JobIds : [jobs[j] EXCEPT !.status = "QUEUED"] \in JobType
    BY RowEdits DEF TypeOK, Statuses
  <2> QED BY <1>14, <2>1 DEF ReclaimStale, TypeOK
<1>15. ASSUME EngineClaim PROVE TypeOK'
  <2>1. PICK j \in JobIds : EngineClaim!(j)
    BY <1>15 DEF EngineClaim
  <2>2. [jobs[j] EXCEPT !.status = "RUNNING", !.stale = FALSE] \in JobType
    BY RowEdits DEF TypeOK, Statuses
  <2> QED BY <2>1, <2>2, QueueAssumption DEF TypeOK, JobIds
<1>16. ASSUME EngineComplete PROVE TypeOK'
  <2>1. engine \in JobIds
    BY <1>16, QueueAssumption DEF EngineComplete, TypeOK, JobIds
  <2>2. [jobs[engine] EXCEPT !.status = "COMPLETED"] \in JobType
    BY <2>1, RowEdits DEF TypeOK, Statuses
  <2> QED BY <1>16, <2>1, <2>2, QueueAssumption DEF EngineComplete, TypeOK
<1>17. ASSUME EngineFails PROVE TypeOK'
  BY <1>17, QueueAssumption DEF EngineFails, TypeOK
<1>18. CASE UNCHANGED vars
  BY <1>18 DEF vars, TypeOK
<1> QED
  BY <1>1, <1>2, <1>3, <1>4, <1>5, <1>6, <1>7, <1>8, <1>9, <1>10, <1>11, <1>12, <1>13, <1>14, <1>15, <1>16, <1>17, <1>18 DEF Next, ProcessOne
-----------------------------------------------------------------------------
(* Who holds what, whatever the setting.                                     *)

\* A row keeps its ref, and is never uninserted.
RowKept == \A j \in JobIds : jobs[j].status # "NONE" =>
             jobs'[j].ref = jobs[j].ref /\ jobs'[j].status # "NONE"
LEMMA RowsKept == QueueInv /\ [Next]_vars => RowKept /\ RowsNamed'
<1> SUFFICES ASSUME QueueInv, [Next]_vars PROVE RowKept /\ RowsNamed'
  OBVIOUS
<1>1. ASSUME NEW ref \in Refs, Enqueue(ref) PROVE RowKept /\ RowsNamed'
  BY <1>1 DEF Enqueue, Insert, NoRow, QueueInv, TypeOK, RowsNamed, RowKept, JobType
<1>2. ASSUME NEW p \in Procs, DedupeInsert(p) PROVE RowKept /\ RowsNamed'
  BY <1>2 DEF DedupeInsert, Insert, NoRow, QueueInv, TypeOK, RowsNamed, RowKept, JobType
<1>3. ASSUME NEW p \in Procs, NEW ref \in Refs, DedupeSelect(p, ref) PROVE RowKept /\ RowsNamed'
  BY <1>3 DEF DedupeSelect, QueueInv, TypeOK, RowsNamed, RowKept, JobType
<1>4. ASSUME NEW p \in Procs, Crash(p) PROVE RowKept /\ RowsNamed'
  BY <1>4 DEF Crash, QueueInv, TypeOK, RowsNamed, RowKept, JobType
<1>5. ASSUME NEW j \in JobIds, Pause(j) PROVE RowKept /\ RowsNamed'
  BY <1>5 DEF Pause, QueueInv, TypeOK, RowsNamed, RowKept, JobType
<1>6. ASSUME NEW j \in JobIds, Resume(j) PROVE RowKept /\ RowsNamed'
  BY <1>6 DEF Resume, QueueInv, TypeOK, RowsNamed, RowKept, JobType
<1>7. ASSUME NEW j \in JobIds, HeartbeatAges(j) PROVE RowKept /\ RowsNamed'
  BY <1>7 DEF HeartbeatAges, QueueInv, TypeOK, RowsNamed, RowKept, JobType
<1>8. ASSUME NEW c \in Calls, Claim(c) PROVE RowKept /\ RowsNamed'
  BY <1>8 DEF Claim, Oldest, QueueInv, TypeOK, RowsNamed, RowKept, JobType
<1>9. ASSUME NEW c \in Calls, AcquireLock(c) PROVE RowKept /\ RowsNamed'
  BY <1>9 DEF AcquireLock, QueueInv, TypeOK, RowsNamed, RowKept, JobType
<1>10. ASSUME NEW c \in Calls, Probe(c) PROVE RowKept /\ RowsNamed'
  BY <1>10 DEF Probe, QueueInv, TypeOK, RowsNamed, RowKept, JobType
<1>11. ASSUME NEW c \in Calls, CopyBatch(c) PROVE RowKept /\ RowsNamed'
  BY <1>11 DEF CopyBatch, QueueInv, TypeOK, RowsNamed, RowKept, JobType
<1>12. ASSUME NEW c \in Calls, Record(c) PROVE RowKept /\ RowsNamed'
  BY <1>12 DEF Record, Outcome, CallShape, CallType, QueueInv, TypeOK, RowsNamed, RowKept, JobType
<1>13. ASSUME NEW c \in Calls, CopyFails(c) PROVE RowKept /\ RowsNamed'
  BY <1>13 DEF CopyFails, QueueInv, TypeOK, RowsNamed, RowKept, JobType
<1>14. ASSUME ReclaimStale PROVE RowKept /\ RowsNamed'
  BY <1>14 DEF ReclaimStale, IsStale, QueueInv, TypeOK, RowsNamed, RowKept, JobType
<1>15. ASSUME EngineClaim PROVE RowKept /\ RowsNamed'
  BY <1>15 DEF EngineClaim, Oldest, QueueInv, TypeOK, RowsNamed, RowKept, JobType
<1>16. ASSUME EngineComplete PROVE RowKept /\ RowsNamed'
  <2>1. \A j \in JobIds : /\ jobs'[j].ref = jobs[j].ref
                         /\ jobs'[j].status = IF j = engine THEN "COMPLETED" ELSE jobs[j].status
    BY <1>16 DEF EngineComplete, QueueInv, TypeOK, JobType, EngineShape
  <2> QED BY <1>16, <2>1 DEF EngineComplete, QueueInv, RowsNamed, RowKept, EngineShape
<1>17. ASSUME EngineFails PROVE RowKept /\ RowsNamed'
  BY <1>17 DEF EngineFails, QueueInv, TypeOK, RowsNamed, RowKept, JobType
<1>18. CASE UNCHANGED vars
  BY <1>18 DEF vars, QueueInv, RowsNamed, RowKept
<1> QED
  BY <1>1, <1>2, <1>3, <1>4, <1>5, <1>6, <1>7, <1>8, <1>9, <1>10, <1>11, <1>12, <1>13, <1>14, <1>15, <1>16, <1>17, <1>18 DEF Next, ProcessOne
\* Calls stay in shape.
LEMMA ShapeStep == QueueInv /\ [Next]_vars => CallShape'
<1> SUFFICES ASSUME QueueInv, [Next]_vars PROVE CallShape'
  OBVIOUS
<1>1. ASSUME NEW ref \in Refs, Enqueue(ref) PROVE CallShape'
  BY <1>1, RowsKept DEF Enqueue, Insert, NoRow, QueueInv, TypeOK, CallShape, CallType, RowKept
<1>2. ASSUME NEW p \in Procs, DedupeInsert(p) PROVE CallShape'
  BY <1>2, RowsKept DEF DedupeInsert, Insert, NoRow, QueueInv, TypeOK, CallShape, CallType, RowKept
<1>3. ASSUME NEW p \in Procs, NEW ref \in Refs, DedupeSelect(p, ref) PROVE CallShape'
  BY <1>3, RowsKept DEF DedupeSelect, QueueInv, TypeOK, CallShape, CallType, RowKept
<1>4. ASSUME NEW p \in Procs, Crash(p) PROVE CallShape'
  BY <1>4, RowsKept DEF Crash, Idle, QueueInv, TypeOK, CallShape, CallType, RowKept
<1>5. ASSUME NEW j \in JobIds, Pause(j) PROVE CallShape'
  BY <1>5, RowsKept DEF Pause, QueueInv, TypeOK, CallShape, CallType, RowKept
<1>6. ASSUME NEW j \in JobIds, Resume(j) PROVE CallShape'
  BY <1>6, RowsKept DEF Resume, QueueInv, TypeOK, CallShape, CallType, RowKept
<1>7. ASSUME NEW j \in JobIds, HeartbeatAges(j) PROVE CallShape'
  BY <1>7, RowsKept DEF HeartbeatAges, QueueInv, TypeOK, CallShape, CallType, RowKept
<1>8. ASSUME NEW c \in Calls, Claim(c) PROVE CallShape'
  BY <1>8, RowsKept DEF Claim, Oldest, Idle, QueueInv, TypeOK, CallShape, CallType, RowKept
<1>9. ASSUME NEW c \in Calls, AcquireLock(c) PROVE CallShape'
  BY <1>9, RowsKept DEF AcquireLock, SkippedOutcome, QueueInv, TypeOK, CallShape, CallType, RowKept
<1>10. ASSUME NEW c \in Calls, Probe(c) PROVE CallShape'
  BY <1>10, RowsKept DEF Probe, Leave, QueueInv, TypeOK, CallShape, CallType, RowKept
<1>11. ASSUME NEW c \in Calls, CopyBatch(c) PROVE CallShape'
  BY <1>11, RowsKept DEF CopyBatch, QueueInv, TypeOK, CallShape, CallType, RowKept
<1>12. ASSUME NEW c \in Calls, Record(c) PROVE CallShape'
  BY <1>12, RowsKept DEF Record, Outcome, Idle, QueueInv, TypeOK, CallShape, CallType, RowKept
<1>13. ASSUME NEW c \in Calls, CopyFails(c) PROVE CallShape'
  BY <1>13, RowsKept DEF CopyFails, Leave, QueueInv, TypeOK, CallShape, CallType, RowKept
<1>14. ASSUME ReclaimStale PROVE CallShape'
  BY <1>14, RowsKept DEF ReclaimStale, IsStale, QueueInv, TypeOK, CallShape, CallType, RowKept
<1>15. ASSUME EngineClaim PROVE CallShape'
  BY <1>15, RowsKept DEF EngineClaim, Oldest, QueueInv, TypeOK, CallShape, CallType, RowKept
<1>16. ASSUME EngineComplete PROVE CallShape'
  BY <1>16, RowsKept DEF EngineComplete, QueueInv, TypeOK, CallShape, CallType, RowKept
<1>17. ASSUME EngineFails PROVE CallShape'
  BY <1>17, RowsKept DEF EngineFails, QueueInv, TypeOK, CallShape, CallType, RowKept
<1>18. CASE UNCHANGED vars
  BY <1>18 DEF vars, QueueInv, CallShape
<1> QED
  BY <1>1, <1>2, <1>3, <1>4, <1>5, <1>6, <1>7, <1>8, <1>9, <1>10, <1>11, <1>12, <1>13, <1>14, <1>15, <1>16, <1>17, <1>18 DEF Next, ProcessOne
\* The microservice's job stays one.
LEMMA EngineShapeStep == QueueInv /\ [Next]_vars => EngineShape'
<1> SUFFICES ASSUME QueueInv, [Next]_vars PROVE EngineShape'
  OBVIOUS
<1>1. CASE EngineClaim
  <2>1. PICK j \in JobIds : EngineClaim!(j)
    BY <1>1 DEF EngineClaim
  <2> QED BY <2>1, RowsKept DEF Oldest, RowKept, QueueInv, EngineShape
<1>2. CASE ~EngineClaim
  <2>1. engine' \in {engine, 0}
    BY <1>2 DEF Next, ProcessOne, vars, Enqueue, DedupeInsert, DedupeSelect, Crash, Pause, Resume, HeartbeatAges, Claim, AcquireLock, Probe, CopyBatch, Record, CopyFails, ReclaimStale, EngineComplete, EngineFails
  <2> QED BY <2>1, RowsKept DEF RowKept, QueueInv, EngineShape
<1> QED BY <1>1, <1>2

\* A copy that ends gives its lock back: nobody else of the process holds it.
LEMMA LeaveLocks ==
  ASSUME QueueInv, NEW c \in Calls, Working(c), NEW o, Leave(c, o), UNCHANGED jobs
  PROVE  LocksHeld'
<1>1. calls \in [Calls -> CallType] /\ locks \in [Procs -> SUBSET Refs] /\ procOf[c] \in Procs
  BY QueueAssumption DEF QueueInv, TypeOK
<1>2. calls'[c].pc = "record" /\ \A d \in Calls : d # c => calls'[d] = calls[d]
  BY <1>1 DEF Leave, CallType
<1>3. /\ locks'[procOf[c]] = locks[procOf[c]] \ {jobs[calls[c].job].ref}
      /\ \A p \in Procs : p # procOf[c] => locks'[p] = locks[p]
  BY <1>1 DEF Leave
<1>4. \A d \in Calls : d # c /\ Working(d) /\ procOf[d] = procOf[c] =>
        jobs[calls[c].job].ref # jobs[calls[d].job].ref
  BY DEF QueueInv, OneCopyPerRef, Working
<1> QED BY <1>2, <1>3, <1>4, QueueAssumption DEF QueueInv, LocksHeld, Working

\* Locks are held while a call copies.
LEMMA LocksStep == QueueInv /\ [Next]_vars => LocksHeld'
<1> SUFFICES ASSUME QueueInv, [Next]_vars PROVE LocksHeld'
  OBVIOUS
<1>1. ASSUME NEW ref \in Refs, Enqueue(ref) PROVE LocksHeld'
  BY <1>1, RowsKept, QueueAssumption DEF Enqueue, Insert, NoRow, QueueInv, TypeOK, CallShape, CallType, RowKept, LocksHeld, OneCopyPerRef, Working
<1>2. ASSUME NEW p \in Procs, DedupeInsert(p) PROVE LocksHeld'
  BY <1>2, RowsKept, QueueAssumption DEF DedupeInsert, Insert, NoRow, QueueInv, TypeOK, CallShape, CallType, RowKept, LocksHeld, OneCopyPerRef, Working
<1>3. ASSUME NEW p \in Procs, NEW ref \in Refs, DedupeSelect(p, ref) PROVE LocksHeld'
  BY <1>3, RowsKept, QueueAssumption DEF DedupeSelect, QueueInv, TypeOK, CallShape, CallType, RowKept, LocksHeld, OneCopyPerRef, Working
<1>4. ASSUME NEW p \in Procs, Crash(p) PROVE LocksHeld'
  BY <1>4, RowsKept, QueueAssumption DEF Crash, Idle, QueueInv, TypeOK, CallShape, CallType, RowKept, LocksHeld, OneCopyPerRef, Working
<1>5. ASSUME NEW j \in JobIds, Pause(j) PROVE LocksHeld'
  BY <1>5, RowsKept, QueueAssumption DEF Pause, QueueInv, TypeOK, CallShape, CallType, RowKept, LocksHeld, OneCopyPerRef, Working
<1>6. ASSUME NEW j \in JobIds, Resume(j) PROVE LocksHeld'
  BY <1>6, RowsKept, QueueAssumption DEF Resume, QueueInv, TypeOK, CallShape, CallType, RowKept, LocksHeld, OneCopyPerRef, Working
<1>7. ASSUME NEW j \in JobIds, HeartbeatAges(j) PROVE LocksHeld'
  BY <1>7, RowsKept, QueueAssumption DEF HeartbeatAges, QueueInv, TypeOK, CallShape, CallType, RowKept, LocksHeld, OneCopyPerRef, Working
<1>8. ASSUME NEW c \in Calls, Claim(c) PROVE LocksHeld'
  BY <1>8, RowsKept, QueueAssumption DEF Claim, Oldest, Idle, QueueInv, TypeOK, CallShape, CallType, RowKept, LocksHeld, OneCopyPerRef, Working
<1>9. ASSUME NEW c \in Calls, AcquireLock(c) PROVE LocksHeld'
  BY <1>9, RowsKept, QueueAssumption DEF AcquireLock, SkippedOutcome, QueueInv, TypeOK, CallShape, CallType, RowKept, LocksHeld, OneCopyPerRef, Working
<1>10. ASSUME NEW c \in Calls, Probe(c) PROVE LocksHeld'
  BY <1>10, RowsKept, QueueAssumption DEF Probe, Leave, QueueInv, TypeOK, CallShape, CallType, RowKept, LocksHeld, OneCopyPerRef, Working
<1>11. ASSUME NEW c \in Calls, CopyBatch(c) PROVE LocksHeld'
  BY <1>11, RowsKept, QueueAssumption DEF CopyBatch, QueueInv, TypeOK, CallShape, CallType, RowKept, LocksHeld, OneCopyPerRef, Working
<1>12. ASSUME NEW c \in Calls, Record(c) PROVE LocksHeld'
  BY <1>12, RowsKept, QueueAssumption DEF Record, Outcome, Idle, QueueInv, TypeOK, CallShape, CallType, RowKept, LocksHeld, OneCopyPerRef, Working
<1>13. ASSUME NEW c \in Calls, CopyFails(c) PROVE LocksHeld'
  BY <1>13, LeaveLocks DEF CopyFails, Working
<1>14. ASSUME ReclaimStale PROVE LocksHeld'
  BY <1>14, RowsKept, QueueAssumption DEF ReclaimStale, IsStale, QueueInv, TypeOK, CallShape, CallType, RowKept, LocksHeld, OneCopyPerRef, Working
<1>15. ASSUME EngineClaim PROVE LocksHeld'
  BY <1>15, RowsKept, QueueAssumption DEF EngineClaim, Oldest, QueueInv, TypeOK, CallShape, CallType, RowKept, LocksHeld, OneCopyPerRef, Working
<1>16. ASSUME EngineComplete PROVE LocksHeld'
  BY <1>16, RowsKept, QueueAssumption DEF EngineComplete, QueueInv, TypeOK, CallShape, CallType, RowKept, LocksHeld, OneCopyPerRef, Working
<1>17. ASSUME EngineFails PROVE LocksHeld'
  BY <1>17, RowsKept, QueueAssumption DEF EngineFails, QueueInv, TypeOK, CallShape, CallType, RowKept, LocksHeld, OneCopyPerRef, Working
<1>18. CASE UNCHANGED vars
  BY <1>18 DEF vars, QueueInv, LocksHeld, OneCopyPerRef, Working
<1> QED
  BY <1>1, <1>2, <1>3, <1>4, <1>5, <1>6, <1>7, <1>8, <1>9, <1>10, <1>11, <1>12, <1>13, <1>14, <1>15, <1>16, <1>17, <1>18 DEF Next, ProcessOne
\* A lock that is taken keeps the second copy out.
LEMMA ExclusionStep == QueueInv /\ [Next]_vars => OneCopyPerRef'
<1> SUFFICES ASSUME QueueInv, [Next]_vars PROVE OneCopyPerRef'
  OBVIOUS
<1>1. ASSUME NEW ref \in Refs, Enqueue(ref) PROVE OneCopyPerRef'
  BY <1>1, RowsKept, QueueAssumption DEF Enqueue, Insert, NoRow, QueueInv, TypeOK, CallShape, CallType, RowKept, LocksHeld, OneCopyPerRef, Working
<1>2. ASSUME NEW p \in Procs, DedupeInsert(p) PROVE OneCopyPerRef'
  BY <1>2, RowsKept, QueueAssumption DEF DedupeInsert, Insert, NoRow, QueueInv, TypeOK, CallShape, CallType, RowKept, LocksHeld, OneCopyPerRef, Working
<1>3. ASSUME NEW p \in Procs, NEW ref \in Refs, DedupeSelect(p, ref) PROVE OneCopyPerRef'
  BY <1>3, RowsKept, QueueAssumption DEF DedupeSelect, QueueInv, TypeOK, CallShape, CallType, RowKept, LocksHeld, OneCopyPerRef, Working
<1>4. ASSUME NEW p \in Procs, Crash(p) PROVE OneCopyPerRef'
  BY <1>4, RowsKept, QueueAssumption DEF Crash, Idle, QueueInv, TypeOK, CallShape, CallType, RowKept, LocksHeld, OneCopyPerRef, Working
<1>5. ASSUME NEW j \in JobIds, Pause(j) PROVE OneCopyPerRef'
  BY <1>5, RowsKept, QueueAssumption DEF Pause, QueueInv, TypeOK, CallShape, CallType, RowKept, LocksHeld, OneCopyPerRef, Working
<1>6. ASSUME NEW j \in JobIds, Resume(j) PROVE OneCopyPerRef'
  BY <1>6, RowsKept, QueueAssumption DEF Resume, QueueInv, TypeOK, CallShape, CallType, RowKept, LocksHeld, OneCopyPerRef, Working
<1>7. ASSUME NEW j \in JobIds, HeartbeatAges(j) PROVE OneCopyPerRef'
  BY <1>7, RowsKept, QueueAssumption DEF HeartbeatAges, QueueInv, TypeOK, CallShape, CallType, RowKept, LocksHeld, OneCopyPerRef, Working
<1>8. ASSUME NEW c \in Calls, Claim(c) PROVE OneCopyPerRef'
  BY <1>8, RowsKept, QueueAssumption DEF Claim, Oldest, Idle, QueueInv, TypeOK, CallShape, CallType, RowKept, LocksHeld, OneCopyPerRef, Working
<1>9. ASSUME NEW c \in Calls, AcquireLock(c) PROVE OneCopyPerRef'
  BY <1>9, RowsKept, QueueAssumption DEF AcquireLock, SkippedOutcome, QueueInv, TypeOK, CallShape, CallType, RowKept, LocksHeld, OneCopyPerRef, Working
<1>10. ASSUME NEW c \in Calls, Probe(c) PROVE OneCopyPerRef'
  BY <1>10, RowsKept, QueueAssumption DEF Probe, Leave, QueueInv, TypeOK, CallShape, CallType, RowKept, LocksHeld, OneCopyPerRef, Working
<1>11. ASSUME NEW c \in Calls, CopyBatch(c) PROVE OneCopyPerRef'
  BY <1>11, RowsKept, QueueAssumption DEF CopyBatch, QueueInv, TypeOK, CallShape, CallType, RowKept, LocksHeld, OneCopyPerRef, Working
<1>12. ASSUME NEW c \in Calls, Record(c) PROVE OneCopyPerRef'
  BY <1>12, RowsKept, QueueAssumption DEF Record, Outcome, Idle, QueueInv, TypeOK, CallShape, CallType, RowKept, LocksHeld, OneCopyPerRef, Working
<1>13. ASSUME NEW c \in Calls, CopyFails(c) PROVE OneCopyPerRef'
  BY <1>13, RowsKept, QueueAssumption DEF CopyFails, Leave, QueueInv, TypeOK, CallShape, CallType, RowKept, LocksHeld, OneCopyPerRef, Working
<1>14. ASSUME ReclaimStale PROVE OneCopyPerRef'
  BY <1>14, RowsKept, QueueAssumption DEF ReclaimStale, IsStale, QueueInv, TypeOK, CallShape, CallType, RowKept, LocksHeld, OneCopyPerRef, Working
<1>15. ASSUME EngineClaim PROVE OneCopyPerRef'
  BY <1>15, RowsKept, QueueAssumption DEF EngineClaim, Oldest, QueueInv, TypeOK, CallShape, CallType, RowKept, LocksHeld, OneCopyPerRef, Working
<1>16. ASSUME EngineComplete PROVE OneCopyPerRef'
  BY <1>16, RowsKept, QueueAssumption DEF EngineComplete, QueueInv, TypeOK, CallShape, CallType, RowKept, LocksHeld, OneCopyPerRef, Working
<1>17. ASSUME EngineFails PROVE OneCopyPerRef'
  BY <1>17, RowsKept, QueueAssumption DEF EngineFails, QueueInv, TypeOK, CallShape, CallType, RowKept, LocksHeld, OneCopyPerRef, Working
<1>18. CASE UNCHANGED vars
  BY <1>18 DEF vars, QueueInv, LocksHeld, OneCopyPerRef, Working
<1> QED
  BY <1>1, <1>2, <1>3, <1>4, <1>5, <1>6, <1>7, <1>8, <1>9, <1>10, <1>11, <1>12, <1>13, <1>14, <1>15, <1>16, <1>17, <1>18 DEF Next, ProcessOne
\* The invariant of every setting.
LEMMA QueueInvariant == Spec => []QueueInv
<1>1. QueueInv /\ [Next]_vars => QueueInv'
  BY TypeStep, RowsKept, ShapeStep, EngineShapeStep, LocksStep, ExclusionStep DEF QueueInv
<1> QED BY QueueInit, <1>1, PTL DEF Spec

\* Every variable of the queue keeps its type, for every number of processes,
\* calls, jobs and faults, with or without late heartbeats.
THEOREM TypesOK == Spec => []TypeOK
<1>1. QueueInv => TypeOK
  BY DEF QueueInv
<1> QED BY QueueInvariant, <1>1, PTL

\* withLock keeps two overlapping calls of a process off the same job_ref,
\* whatever the database does to the rows in the meantime.
THEOREM LockIsExclusive == Spec => []OneCopyPerRef
<1>1. QueueInv => OneCopyPerRef
  BY DEF QueueInv
<1> QED BY QueueInvariant, <1>1, PTL

-----------------------------------------------------------------------------
(* With heartbeats in time.                                                  *)

\* A claimed job stays RUNNING and fresh until its claimant is done with it.
LEMMA FreshStep == ASSUME HeartbeatsInTime PROVE ClaimInv /\ [Next]_vars => ClaimsFresh'
<1> SUFFICES ASSUME ClaimInv, [Next]_vars PROVE ClaimsFresh'
  OBVIOUS
<1>1. ASSUME NEW ref \in Refs, Enqueue(ref) PROVE ClaimsFresh'
  BY <1>1, QueueAssumption DEF Enqueue, Insert, NoRow, QueueInv, TypeOK, CallShape, CallType, JobType, ClaimInv, ClaimsFresh, ClaimsAlone, EngineShape, HeartbeatsInTime
<1>2. ASSUME NEW p \in Procs, DedupeInsert(p) PROVE ClaimsFresh'
  BY <1>2, QueueAssumption DEF DedupeInsert, Insert, NoRow, QueueInv, TypeOK, CallShape, CallType, JobType, ClaimInv, ClaimsFresh, ClaimsAlone, EngineShape, HeartbeatsInTime
<1>3. ASSUME NEW p \in Procs, NEW ref \in Refs, DedupeSelect(p, ref) PROVE ClaimsFresh'
  BY <1>3, QueueAssumption DEF DedupeSelect, QueueInv, TypeOK, CallShape, CallType, JobType, ClaimInv, ClaimsFresh, ClaimsAlone, EngineShape, HeartbeatsInTime
<1>4. ASSUME NEW p \in Procs, Crash(p) PROVE ClaimsFresh'
  BY <1>4, QueueAssumption DEF Crash, Idle, QueueInv, TypeOK, CallShape, CallType, JobType, ClaimInv, ClaimsFresh, ClaimsAlone, EngineShape, HeartbeatsInTime
<1>5. ASSUME NEW j \in JobIds, Pause(j) PROVE ClaimsFresh'
  BY <1>5, QueueAssumption DEF Pause, QueueInv, TypeOK, CallShape, CallType, JobType, ClaimInv, ClaimsFresh, ClaimsAlone, EngineShape, HeartbeatsInTime
<1>6. ASSUME NEW j \in JobIds, Resume(j) PROVE ClaimsFresh'
  BY <1>6, QueueAssumption DEF Resume, QueueInv, TypeOK, CallShape, CallType, JobType, ClaimInv, ClaimsFresh, ClaimsAlone, EngineShape, HeartbeatsInTime
<1>7. ASSUME NEW j \in JobIds, HeartbeatAges(j) PROVE ClaimsFresh'
  BY <1>7, QueueAssumption DEF HeartbeatAges, QueueInv, TypeOK, CallShape, CallType, JobType, ClaimInv, ClaimsFresh, ClaimsAlone, EngineShape, HeartbeatsInTime
<1>8. ASSUME NEW c \in Calls, Claim(c) PROVE ClaimsFresh'
  BY <1>8, QueueAssumption DEF Claim, Oldest, Idle, QueueInv, TypeOK, CallShape, CallType, JobType, ClaimInv, ClaimsFresh, ClaimsAlone, EngineShape, HeartbeatsInTime
<1>9. ASSUME NEW c \in Calls, AcquireLock(c) PROVE ClaimsFresh'
  BY <1>9, QueueAssumption DEF AcquireLock, SkippedOutcome, QueueInv, TypeOK, CallShape, CallType, JobType, ClaimInv, ClaimsFresh, ClaimsAlone, EngineShape, HeartbeatsInTime
<1>10. ASSUME NEW c \in Calls, Probe(c) PROVE ClaimsFresh'
  BY <1>10, QueueAssumption DEF Probe, Leave, QueueInv, TypeOK, CallShape, CallType, JobType, ClaimInv, ClaimsFresh, ClaimsAlone, EngineShape, HeartbeatsInTime
<1>11. ASSUME NEW c \in Calls, CopyBatch(c) PROVE ClaimsFresh'
  BY <1>11, QueueAssumption DEF CopyBatch, QueueInv, TypeOK, CallShape, CallType, JobType, ClaimInv, ClaimsFresh, ClaimsAlone, EngineShape, HeartbeatsInTime
<1>12. ASSUME NEW c \in Calls, Record(c) PROVE ClaimsFresh'
  BY <1>12, QueueAssumption DEF Record, Outcome, Idle, QueueInv, TypeOK, CallShape, CallType, JobType, ClaimInv, ClaimsFresh, ClaimsAlone, EngineShape, HeartbeatsInTime
<1>13. ASSUME NEW c \in Calls, CopyFails(c) PROVE ClaimsFresh'
  BY <1>13, QueueAssumption DEF CopyFails, Leave, QueueInv, TypeOK, CallShape, CallType, JobType, ClaimInv, ClaimsFresh, ClaimsAlone, EngineShape, HeartbeatsInTime
<1>14. ASSUME ReclaimStale PROVE ClaimsFresh'
  BY <1>14, QueueAssumption DEF ReclaimStale, IsStale, QueueInv, TypeOK, CallShape, CallType, JobType, ClaimInv, ClaimsFresh, ClaimsAlone, EngineShape, HeartbeatsInTime
<1>15. ASSUME EngineClaim PROVE ClaimsFresh'
  BY <1>15, QueueAssumption DEF EngineClaim, Oldest, QueueInv, TypeOK, CallShape, CallType, JobType, ClaimInv, ClaimsFresh, ClaimsAlone, EngineShape, HeartbeatsInTime
<1>16. ASSUME EngineComplete PROVE ClaimsFresh'
  BY <1>16, QueueAssumption DEF EngineComplete, QueueInv, TypeOK, CallShape, CallType, JobType, ClaimInv, ClaimsFresh, ClaimsAlone, EngineShape, HeartbeatsInTime
<1>17. ASSUME EngineFails PROVE ClaimsFresh'
  BY <1>17, QueueAssumption DEF EngineFails, QueueInv, TypeOK, CallShape, CallType, JobType, ClaimInv, ClaimsFresh, ClaimsAlone, EngineShape, HeartbeatsInTime
<1>18. CASE UNCHANGED vars
  BY <1>18 DEF vars, ClaimInv, ClaimsFresh, ClaimsAlone, EngineShape, HeartbeatsInTime, QueueInv
<1> QED
  BY <1>1, <1>2, <1>3, <1>4, <1>5, <1>6, <1>7, <1>8, <1>9, <1>10, <1>11, <1>12, <1>13, <1>14, <1>15, <1>16, <1>17, <1>18 DEF Next, ProcessOne
\* A claim takes a QUEUED job, which nobody has.
LEMMA AloneStep == ASSUME HeartbeatsInTime PROVE ClaimInv /\ [Next]_vars => ClaimsAlone'
<1> SUFFICES ASSUME ClaimInv, [Next]_vars PROVE ClaimsAlone'
  OBVIOUS
<1>1. ASSUME NEW ref \in Refs, Enqueue(ref) PROVE ClaimsAlone'
  BY <1>1, QueueAssumption DEF Enqueue, Insert, NoRow, QueueInv, TypeOK, CallShape, CallType, JobType, ClaimInv, ClaimsFresh, ClaimsAlone, EngineShape
<1>2. ASSUME NEW p \in Procs, DedupeInsert(p) PROVE ClaimsAlone'
  BY <1>2, QueueAssumption DEF DedupeInsert, Insert, NoRow, QueueInv, TypeOK, CallShape, CallType, JobType, ClaimInv, ClaimsFresh, ClaimsAlone, EngineShape
<1>3. ASSUME NEW p \in Procs, NEW ref \in Refs, DedupeSelect(p, ref) PROVE ClaimsAlone'
  BY <1>3, QueueAssumption DEF DedupeSelect, QueueInv, TypeOK, CallShape, CallType, JobType, ClaimInv, ClaimsFresh, ClaimsAlone, EngineShape
<1>4. ASSUME NEW p \in Procs, Crash(p) PROVE ClaimsAlone'
  <2>1. \A d \in Calls : calls'[d].job \in {0, calls[d].job} /\
          (calls'[d].pc # "idle" => calls[d].pc # "idle" /\ calls'[d].job = calls[d].job)
    BY <1>4 DEF Crash, Idle, ClaimInv, QueueInv, TypeOK, CallType
  <2>2. engine' = engine
    BY <1>4 DEF Crash, Idle
  <2> QED BY <2>1, <2>2 DEF ClaimInv, ClaimsAlone, QueueInv, CallShape, JobIds
<1>5. ASSUME NEW j \in JobIds, Pause(j) PROVE ClaimsAlone'
  BY <1>5, QueueAssumption DEF Pause, QueueInv, TypeOK, CallShape, CallType, JobType, ClaimInv, ClaimsFresh, ClaimsAlone, EngineShape
<1>6. ASSUME NEW j \in JobIds, Resume(j) PROVE ClaimsAlone'
  BY <1>6, QueueAssumption DEF Resume, QueueInv, TypeOK, CallShape, CallType, JobType, ClaimInv, ClaimsFresh, ClaimsAlone, EngineShape
<1>7. ASSUME NEW j \in JobIds, HeartbeatAges(j) PROVE ClaimsAlone'
  BY <1>7, QueueAssumption DEF HeartbeatAges, QueueInv, TypeOK, CallShape, CallType, JobType, ClaimInv, ClaimsFresh, ClaimsAlone, EngineShape
<1>8. ASSUME NEW c \in Calls, Claim(c) PROVE ClaimsAlone'
  BY <1>8, QueueAssumption DEF Claim, Oldest, Idle, QueueInv, TypeOK, CallShape, CallType, JobType, ClaimInv, ClaimsFresh, ClaimsAlone, EngineShape
<1>9. ASSUME NEW c \in Calls, AcquireLock(c) PROVE ClaimsAlone'
  <2>1. \A d \in Calls : calls'[d].job \in {0, calls[d].job} /\
          (calls'[d].pc # "idle" => calls[d].pc # "idle" /\ calls'[d].job = calls[d].job)
    BY <1>9 DEF AcquireLock, SkippedOutcome, ClaimInv, QueueInv, TypeOK, CallType
  <2>2. engine' = engine
    BY <1>9 DEF AcquireLock, SkippedOutcome
  <2> QED BY <2>1, <2>2 DEF ClaimInv, ClaimsAlone, QueueInv, CallShape, JobIds
<1>10. ASSUME NEW c \in Calls, Probe(c) PROVE ClaimsAlone'
  <2>1. \A d \in Calls : calls'[d].job \in {0, calls[d].job} /\
          (calls'[d].pc # "idle" => calls[d].pc # "idle" /\ calls'[d].job = calls[d].job)
    BY <1>10 DEF Probe, Leave, ClaimInv, QueueInv, TypeOK, CallType
  <2>2. engine' = engine
    BY <1>10 DEF Probe
  <2> QED BY <2>1, <2>2 DEF ClaimInv, ClaimsAlone, QueueInv, CallShape, JobIds
<1>11. ASSUME NEW c \in Calls, CopyBatch(c) PROVE ClaimsAlone'
  <2>1. \A d \in Calls : calls'[d].job \in {0, calls[d].job} /\
          (calls'[d].pc # "idle" => calls[d].pc # "idle" /\ calls'[d].job = calls[d].job)
    BY <1>11 DEF CopyBatch, ClaimInv, QueueInv, TypeOK, CallType
  <2>2. engine' = engine
    BY <1>11 DEF CopyBatch
  <2> QED BY <2>1, <2>2 DEF ClaimInv, ClaimsAlone, QueueInv, CallShape, JobIds
<1>12. ASSUME NEW c \in Calls, Record(c) PROVE ClaimsAlone'
  <2>1. \A d \in Calls : calls'[d].job \in {0, calls[d].job} /\
          (calls'[d].pc # "idle" => calls[d].pc # "idle" /\ calls'[d].job = calls[d].job)
    BY <1>12 DEF Record, Outcome, Idle, ClaimInv, QueueInv, TypeOK, CallType
  <2>2. engine' = engine
    BY <1>12 DEF Record, Outcome, Idle
  <2> QED BY <2>1, <2>2 DEF ClaimInv, ClaimsAlone, QueueInv, CallShape, JobIds
<1>13. ASSUME NEW c \in Calls, CopyFails(c) PROVE ClaimsAlone'
  <2>1. \A d \in Calls : calls'[d].job \in {0, calls[d].job} /\
          (calls'[d].pc # "idle" => calls[d].pc # "idle" /\ calls'[d].job = calls[d].job)
    BY <1>13 DEF CopyFails, Leave, ClaimInv, QueueInv, TypeOK, CallType
  <2>2. engine' = engine
    BY <1>13 DEF CopyFails
  <2> QED BY <2>1, <2>2 DEF ClaimInv, ClaimsAlone, QueueInv, CallShape, JobIds
<1>14. ASSUME ReclaimStale PROVE ClaimsAlone'
  BY <1>14, QueueAssumption DEF ReclaimStale, IsStale, QueueInv, TypeOK, CallShape, CallType, JobType, ClaimInv, ClaimsFresh, ClaimsAlone, EngineShape
<1>15. ASSUME EngineClaim PROVE ClaimsAlone'
  BY <1>15, QueueAssumption DEF EngineClaim, Oldest, QueueInv, TypeOK, CallShape, CallType, JobType, ClaimInv, ClaimsFresh, ClaimsAlone, EngineShape
<1>16. ASSUME EngineComplete PROVE ClaimsAlone'
  BY <1>16, QueueAssumption DEF EngineComplete, QueueInv, TypeOK, CallShape, CallType, JobType, ClaimInv, ClaimsFresh, ClaimsAlone, EngineShape
<1>17. ASSUME EngineFails PROVE ClaimsAlone'
  BY <1>17, QueueAssumption DEF EngineFails, QueueInv, TypeOK, CallShape, CallType, JobType, ClaimInv, ClaimsFresh, ClaimsAlone, EngineShape
<1>18. CASE UNCHANGED vars
  BY <1>18 DEF vars, ClaimInv, ClaimsFresh, ClaimsAlone, EngineShape, QueueInv
<1> QED
  BY <1>1, <1>2, <1>3, <1>4, <1>5, <1>6, <1>7, <1>8, <1>9, <1>10, <1>11, <1>12, <1>13, <1>14, <1>15, <1>16, <1>17, <1>18 DEF Next, ProcessOne
\* The worker that looked after a pause was accepted stops.
LEMMA PauseStep == ASSUME HeartbeatsInTime PROVE ClaimInv /\ [Next]_vars => PauseSeen'
<1> SUFFICES ASSUME ClaimInv, [Next]_vars PROVE PauseSeen'
  OBVIOUS
<1>1. ASSUME NEW ref \in Refs, Enqueue(ref) PROVE PauseSeen'
  BY <1>1, QueueAssumption DEF Enqueue, Insert, NoRow, QueueInv, TypeOK, CallShape, CallType, JobType, ClaimInv, ClaimsFresh, ClaimsAlone, EngineShape, PauseSeen
<1>2. ASSUME NEW p \in Procs, DedupeInsert(p) PROVE PauseSeen'
  BY <1>2, QueueAssumption DEF DedupeInsert, Insert, NoRow, QueueInv, TypeOK, CallShape, CallType, JobType, ClaimInv, ClaimsFresh, ClaimsAlone, EngineShape, PauseSeen
<1>3. ASSUME NEW p \in Procs, NEW ref \in Refs, DedupeSelect(p, ref) PROVE PauseSeen'
  BY <1>3, QueueAssumption DEF DedupeSelect, QueueInv, TypeOK, CallShape, CallType, JobType, ClaimInv, ClaimsFresh, ClaimsAlone, EngineShape, PauseSeen
<1>4. ASSUME NEW p \in Procs, Crash(p) PROVE PauseSeen'
  BY <1>4, QueueAssumption DEF Crash, Idle, QueueInv, TypeOK, CallShape, CallType, JobType, ClaimInv, ClaimsFresh, ClaimsAlone, EngineShape, PauseSeen
<1>5. ASSUME NEW j \in JobIds, Pause(j) PROVE PauseSeen'
  BY <1>5, QueueAssumption DEF Pause, QueueInv, TypeOK, CallShape, CallType, JobType, ClaimInv, ClaimsFresh, ClaimsAlone, EngineShape, PauseSeen
<1>6. ASSUME NEW j \in JobIds, Resume(j) PROVE PauseSeen'
  BY <1>6, QueueAssumption DEF Resume, QueueInv, TypeOK, CallShape, CallType, JobType, ClaimInv, ClaimsFresh, ClaimsAlone, EngineShape, PauseSeen
<1>7. ASSUME NEW j \in JobIds, HeartbeatAges(j) PROVE PauseSeen'
  BY <1>7, QueueAssumption DEF HeartbeatAges, QueueInv, TypeOK, CallShape, CallType, JobType, ClaimInv, ClaimsFresh, ClaimsAlone, EngineShape, PauseSeen
<1>8. ASSUME NEW c \in Calls, Claim(c) PROVE PauseSeen'
  BY <1>8, QueueAssumption DEF Claim, Oldest, Idle, QueueInv, TypeOK, CallShape, CallType, JobType, ClaimInv, ClaimsFresh, ClaimsAlone, EngineShape, PauseSeen
<1>9. ASSUME NEW c \in Calls, AcquireLock(c) PROVE PauseSeen'
  <2>1. \A d \in Calls : calls'[d].job = calls[d].job /\ (calls'[d].pc = "batch" => calls[d].pc = "batch")
    BY <1>9 DEF AcquireLock, SkippedOutcome, QueueInv, TypeOK, CallType, ClaimInv
  <2> QED BY <1>9, <2>1 DEF AcquireLock, ClaimInv, PauseSeen
<1>10. ASSUME NEW c \in Calls, Probe(c) PROVE PauseSeen'
  BY <1>10, QueueAssumption DEF Probe, Leave, QueueInv, TypeOK, CallShape, CallType, JobType, ClaimInv, ClaimsFresh, ClaimsAlone, EngineShape, PauseSeen
<1>11. ASSUME NEW c \in Calls, CopyBatch(c) PROVE PauseSeen'
  BY <1>11, QueueAssumption DEF CopyBatch, QueueInv, TypeOK, CallShape, CallType, JobType, ClaimInv, ClaimsFresh, ClaimsAlone, EngineShape, PauseSeen
<1>12. ASSUME NEW c \in Calls, Record(c) PROVE PauseSeen'
  BY <1>12, QueueAssumption DEF Record, Outcome, Idle, QueueInv, TypeOK, CallShape, CallType, JobType, ClaimInv, ClaimsFresh, ClaimsAlone, EngineShape, PauseSeen
<1>13. ASSUME NEW c \in Calls, CopyFails(c) PROVE PauseSeen'
  BY <1>13, QueueAssumption DEF CopyFails, Leave, QueueInv, TypeOK, CallShape, CallType, JobType, ClaimInv, ClaimsFresh, ClaimsAlone, EngineShape, PauseSeen
<1>14. ASSUME ReclaimStale PROVE PauseSeen'
  BY <1>14, QueueAssumption DEF ReclaimStale, IsStale, QueueInv, TypeOK, CallShape, CallType, JobType, ClaimInv, ClaimsFresh, ClaimsAlone, EngineShape, PauseSeen
<1>15. ASSUME EngineClaim PROVE PauseSeen'
  BY <1>15, QueueAssumption DEF EngineClaim, Oldest, QueueInv, TypeOK, CallShape, CallType, JobType, ClaimInv, ClaimsFresh, ClaimsAlone, EngineShape, PauseSeen
<1>16. ASSUME EngineComplete PROVE PauseSeen'
  BY <1>16, QueueAssumption DEF EngineComplete, QueueInv, TypeOK, CallShape, CallType, JobType, ClaimInv, ClaimsFresh, ClaimsAlone, EngineShape, PauseSeen
<1>17. ASSUME EngineFails PROVE PauseSeen'
  BY <1>17, QueueAssumption DEF EngineFails, QueueInv, TypeOK, CallShape, CallType, JobType, ClaimInv, ClaimsFresh, ClaimsAlone, EngineShape, PauseSeen
<1>18. CASE UNCHANGED vars
  BY <1>18 DEF vars, ClaimInv, ClaimsFresh, ClaimsAlone, EngineShape, PauseSeen, QueueInv
<1> QED
  BY <1>1, <1>2, <1>3, <1>4, <1>5, <1>6, <1>7, <1>8, <1>9, <1>10, <1>11, <1>12, <1>13, <1>14, <1>15, <1>16, <1>17, <1>18 DEF Next, ProcessOne
\* The invariant of every queue whose heartbeats come in time.
LEMMA ClaimInvariant == ASSUME HeartbeatsInTime PROVE Spec => []ClaimInv
<1>1. Init => ClaimInv
  BY QueueInit DEF Init, NoRow, ClaimInv, ClaimsFresh, ClaimsAlone, PauseSeen, Idle
<1>2. ClaimInv /\ [Next]_vars => ClaimInv'
  <2>1. QueueInv /\ [Next]_vars => QueueInv'
    BY TypeStep, RowsKept, ShapeStep, EngineShapeStep, LocksStep, ExclusionStep DEF QueueInv
  <2> QED BY <2>1, FreshStep, AloneStep, PauseStep DEF ClaimInv
<1> QED BY <1>1, <1>2, PTL DEF Spec

\* Who is alone is counted as one.
LEMMA AloneIsOne ==
  ASSUME ClaimInv, NEW j \in JobIds
  PROVE  Cardinality({c \in Calls : calls[c].job = j}) + (IF engine = j THEN 1 ELSE 0) <= 1
<1> DEFINE S == {c \in Calls : calls[c].job = j}
<1>1. \A c \in S : calls[c].pc # "idle"
  BY DEF ClaimInv, QueueInv, CallShape, JobIds
<1>2. engine = j => S = {}
  BY DEF ClaimInv, ClaimsAlone, JobIds
<1>3. CASE S = {}
  BY <1>3, FS_EmptySet
<1>4. CASE S # {}
  <2>1. PICK c \in S : TRUE
    BY <1>4
  <2>2. S = {c}
    BY <1>1, <2>1 DEF ClaimInv, ClaimsAlone
  <2>3. Cardinality(S) = 1
    BY <2>2, FS_Singleton
  <2> QED BY <1>2, <1>4, <2>3
<1> QED BY <1>3, <1>4

\* No two workers, and no worker and the replication-engine, are ever on the
\* same job as long as heartbeats come in time: FOR UPDATE SKIP LOCKED and the
\* reclaiming of stale jobs never hand out a job twice.
THEOREM ClaimIsExclusive == ASSUME HeartbeatsInTime PROVE Spec => []OneClaimant
<1>1. ClaimInv => OneClaimant
  BY AloneIsOne DEF OneClaimant
<1> QED BY ClaimInvariant, <1>1, PTL

\* While an accepted pause stands on the row, at most the batch under way was
\* copied since it was accepted, whoever dies and reclaims in between.  A later
\* claim erases the request: of what follows the theorem says nothing.
THEOREM StandingPausesStop == ASSUME HeartbeatsInTime PROVE Spec => []StandingPauseStops
<1>1. ClaimInv => StandingPauseStops
  BY DEF ClaimInv, PauseSeen, StandingPauseStops
<1> QED BY ClaimInvariant, <1>1, PTL

\* Only a call that threw puts a fresh job back in the queue, and only before the
\* row's attempts are spent.
LEMMA RetryStep ==
  ASSUME ClaimInv, [Next]_vars, NEW j \in JobIds, jobs[j].status = "RUNNING", ~jobs[j].stale,
         jobs'[j].status = "QUEUED"
  PROVE  jobs[j].attempts < MaxAttempts
<1>1. ASSUME NEW ref \in Refs, Enqueue(ref) PROVE jobs[j].attempts < MaxAttempts
  BY <1>1 DEF Enqueue, Insert, NoRow, QueueInv, TypeOK, CallShape, CallType, JobType, ClaimInv, ClaimsFresh, ClaimsAlone, EngineShape
<1>2. ASSUME NEW p \in Procs, DedupeInsert(p) PROVE jobs[j].attempts < MaxAttempts
  BY <1>2 DEF DedupeInsert, Insert, NoRow, QueueInv, TypeOK, CallShape, CallType, JobType, ClaimInv, ClaimsFresh, ClaimsAlone, EngineShape
<1>3. ASSUME NEW p \in Procs, NEW ref \in Refs, DedupeSelect(p, ref) PROVE jobs[j].attempts < MaxAttempts
  BY <1>3 DEF DedupeSelect, QueueInv, TypeOK, CallShape, CallType, JobType, ClaimInv, ClaimsFresh, ClaimsAlone, EngineShape
<1>4. ASSUME NEW p \in Procs, Crash(p) PROVE jobs[j].attempts < MaxAttempts
  BY <1>4 DEF Crash, Idle, QueueInv, TypeOK, CallShape, CallType, JobType, ClaimInv, ClaimsFresh, ClaimsAlone, EngineShape
<1>5. ASSUME NEW i \in JobIds, Pause(i) PROVE jobs[j].attempts < MaxAttempts
  BY <1>5 DEF Pause, QueueInv, TypeOK, CallShape, CallType, JobType, ClaimInv, ClaimsFresh, ClaimsAlone, EngineShape
<1>6. ASSUME NEW i \in JobIds, Resume(i) PROVE jobs[j].attempts < MaxAttempts
  BY <1>6 DEF Resume, QueueInv, TypeOK, CallShape, CallType, JobType, ClaimInv, ClaimsFresh, ClaimsAlone, EngineShape
<1>7. ASSUME NEW i \in JobIds, HeartbeatAges(i) PROVE jobs[j].attempts < MaxAttempts
  BY <1>7 DEF HeartbeatAges, QueueInv, TypeOK, CallShape, CallType, JobType, ClaimInv, ClaimsFresh, ClaimsAlone, EngineShape
<1>8. ASSUME NEW c \in Calls, Claim(c) PROVE jobs[j].attempts < MaxAttempts
  BY <1>8 DEF Claim, Oldest, Idle, QueueInv, TypeOK, CallShape, CallType, JobType, ClaimInv, ClaimsFresh, ClaimsAlone, EngineShape
<1>9. ASSUME NEW c \in Calls, AcquireLock(c) PROVE jobs[j].attempts < MaxAttempts
  BY <1>9 DEF AcquireLock, SkippedOutcome, QueueInv, TypeOK, CallShape, CallType, JobType, ClaimInv, ClaimsFresh, ClaimsAlone, EngineShape
<1>10. ASSUME NEW c \in Calls, Probe(c) PROVE jobs[j].attempts < MaxAttempts
  BY <1>10 DEF Probe, Leave, QueueInv, TypeOK, CallShape, CallType, JobType, ClaimInv, ClaimsFresh, ClaimsAlone, EngineShape
<1>11. ASSUME NEW c \in Calls, CopyBatch(c) PROVE jobs[j].attempts < MaxAttempts
  BY <1>11 DEF CopyBatch, QueueInv, TypeOK, CallShape, CallType, JobType, ClaimInv, ClaimsFresh, ClaimsAlone, EngineShape
<1>12. ASSUME NEW c \in Calls, Record(c) PROVE jobs[j].attempts < MaxAttempts
  BY <1>12 DEF Record, Outcome, Idle, QueueInv, TypeOK, CallShape, CallType, JobType, ClaimInv, ClaimsFresh, ClaimsAlone, EngineShape
<1>13. ASSUME NEW c \in Calls, CopyFails(c) PROVE jobs[j].attempts < MaxAttempts
  BY <1>13 DEF CopyFails, Leave, QueueInv, TypeOK, CallShape, CallType, JobType, ClaimInv, ClaimsFresh, ClaimsAlone, EngineShape
<1>14. ASSUME ReclaimStale PROVE jobs[j].attempts < MaxAttempts
  BY <1>14 DEF ReclaimStale, IsStale, QueueInv, TypeOK, CallShape, CallType, JobType, ClaimInv, ClaimsFresh, ClaimsAlone, EngineShape
<1>15. ASSUME EngineClaim PROVE jobs[j].attempts < MaxAttempts
  BY <1>15 DEF EngineClaim, Oldest, QueueInv, TypeOK, CallShape, CallType, JobType, ClaimInv, ClaimsFresh, ClaimsAlone, EngineShape
<1>16. ASSUME EngineComplete PROVE jobs[j].attempts < MaxAttempts
  BY <1>16 DEF EngineComplete, QueueInv, TypeOK, CallShape, CallType, JobType, ClaimInv, ClaimsFresh, ClaimsAlone, EngineShape
<1>17. ASSUME EngineFails PROVE jobs[j].attempts < MaxAttempts
  BY <1>17 DEF EngineFails, QueueInv, TypeOK, CallShape, CallType, JobType, ClaimInv, ClaimsFresh, ClaimsAlone, EngineShape
<1>18. CASE UNCHANGED vars
  BY <1>18 DEF vars
<1> QED BY <1>1, <1>2, <1>3, <1>4, <1>5, <1>6, <1>7, <1>8, <1>9, <1>10, <1>11, <1>12, <1>13, <1>14, <1>15, <1>16, <1>17, <1>18 DEF Next, ProcessOne

\* A retry is counted against the attempts of the row it retries: the counter a
\* call remembers from its claim never lags behind the table's.
THEOREM RetriesAreCounted == ASSUME HeartbeatsInTime PROVE Spec => RetriesSpent
<1>1. ClaimInv /\ [Next]_vars =>
        [\A j \in JobIds : jobs[j].status = "RUNNING" /\ ~jobs[j].stale /\ jobs'[j].status = "QUEUED" =>
           jobs[j].attempts < MaxAttempts]_vars
  BY RetryStep
<1> QED BY ClaimInvariant, <1>1, PTL DEF Spec, RetriesSpent

-----------------------------------------------------------------------------
(* The SYNC queue implements the documented life cycle.                      *)

\* Nobody else moves a checkpoint while a call copies, and a copy that says
\* COMPLETED has reached the end.
LEMMA TrackedStep == ASSUME SyncSetting PROVE SyncInv /\ [Next]_vars => CopyTracked'
<1> SUFFICES ASSUME SyncInv, [Next]_vars PROVE CopyTracked'
  OBVIOUS
<1>1. ASSUME NEW ref \in Refs, Enqueue(ref) PROVE CopyTracked'
  BY <1>1, QueueAssumption DEF Enqueue, Insert, NoRow, QueueInv, TypeOK, CallShape, CallType, JobType, ClaimInv, ClaimsFresh, ClaimsAlone, EngineShape, SyncSetting, SyncInv, CopyTracked, Working
<1>2. ASSUME NEW p \in Procs, DedupeInsert(p) PROVE CopyTracked'
  BY <1>2, QueueAssumption DEF DedupeInsert, Insert, NoRow, QueueInv, TypeOK, CallShape, CallType, JobType, ClaimInv, ClaimsFresh, ClaimsAlone, EngineShape, SyncSetting, SyncInv, CopyTracked, Working
<1>3. ASSUME NEW p \in Procs, NEW ref \in Refs, DedupeSelect(p, ref) PROVE CopyTracked'
  BY <1>3, QueueAssumption DEF DedupeSelect, QueueInv, TypeOK, CallShape, CallType, JobType, ClaimInv, ClaimsFresh, ClaimsAlone, EngineShape, SyncSetting, SyncInv, CopyTracked, Working
<1>4. ASSUME NEW p \in Procs, Crash(p) PROVE CopyTracked'
  BY <1>4, QueueAssumption DEF Crash, Idle, QueueInv, TypeOK, CallShape, CallType, JobType, ClaimInv, ClaimsFresh, ClaimsAlone, EngineShape, SyncSetting, SyncInv, CopyTracked, Working
<1>5. ASSUME NEW j \in JobIds, Pause(j) PROVE CopyTracked'
  BY <1>5, QueueAssumption DEF Pause, QueueInv, TypeOK, CallShape, CallType, JobType, ClaimInv, ClaimsFresh, ClaimsAlone, EngineShape, SyncSetting, SyncInv, CopyTracked, Working
<1>6. ASSUME NEW j \in JobIds, Resume(j) PROVE CopyTracked'
  BY <1>6, QueueAssumption DEF Resume, QueueInv, TypeOK, CallShape, CallType, JobType, ClaimInv, ClaimsFresh, ClaimsAlone, EngineShape, SyncSetting, SyncInv, CopyTracked, Working
<1>7. ASSUME NEW j \in JobIds, HeartbeatAges(j) PROVE CopyTracked'
  BY <1>7, QueueAssumption DEF HeartbeatAges, QueueInv, TypeOK, CallShape, CallType, JobType, ClaimInv, ClaimsFresh, ClaimsAlone, EngineShape, SyncSetting, SyncInv, CopyTracked, Working
<1>8. ASSUME NEW c \in Calls, Claim(c) PROVE CopyTracked'
  BY <1>8, QueueAssumption DEF Claim, Oldest, Idle, QueueInv, TypeOK, CallShape, CallType, JobType, ClaimInv, ClaimsFresh, ClaimsAlone, EngineShape, SyncSetting, SyncInv, CopyTracked, Working
<1>9. ASSUME NEW c \in Calls, AcquireLock(c) PROVE CopyTracked'
  <2>1. /\ \A d \in Calls \ {c} : calls'[d] = calls[d]
        /\ calls'[c].job = calls[c].job
        /\ calls'[c].pc \in {"probe", "record"}
        /\ calls'[c].pc = "probe" => calls'[c].pos = copied[calls[c].job]
        /\ calls'[c].pc = "record" => calls'[c].outcome = "FAILED"
    BY <1>9 DEF AcquireLock, SkippedOutcome, SyncSetting, SyncInv, ClaimInv, QueueInv, TypeOK, CallType
  <2>2. UNCHANGED <<engine, copied>>
    BY <1>9 DEF AcquireLock
  <2> QED BY <2>1, <2>2 DEF SyncInv, CopyTracked, Working
<1>10. ASSUME NEW c \in Calls, Probe(c) PROVE CopyTracked'
  <2>1. /\ \A d \in Calls \ {c} : calls'[d] = calls[d]
        /\ calls'[c].job = calls[c].job /\ calls'[c].pos = calls[c].pos
        /\ calls'[c].pc \in {"batch", "record"}
        /\ calls'[c].pc = "record" /\ calls'[c].outcome = "COMPLETED" => calls[c].pos = Batches
    BY <1>10 DEF Probe, Leave, SyncInv, ClaimInv, QueueInv, TypeOK, CallType
  <2>2. UNCHANGED <<engine, copied>> /\ calls[c].pc = "probe"
    BY <1>10 DEF Probe
  <2> QED BY <2>1, <2>2 DEF SyncInv, CopyTracked, Working
<1>11. ASSUME NEW c \in Calls, CopyBatch(c) PROVE CopyTracked'
  BY <1>11, QueueAssumption DEF CopyBatch, QueueInv, TypeOK, CallShape, CallType, JobType, ClaimInv, ClaimsFresh, ClaimsAlone, EngineShape, SyncSetting, SyncInv, CopyTracked, Working
<1>12. ASSUME NEW c \in Calls, Record(c) PROVE CopyTracked'
  BY <1>12, QueueAssumption DEF Record, Outcome, Idle, QueueInv, TypeOK, CallShape, CallType, JobType, ClaimInv, ClaimsFresh, ClaimsAlone, EngineShape, SyncSetting, SyncInv, CopyTracked, Working
<1>13. ASSUME NEW c \in Calls, CopyFails(c) PROVE CopyTracked'
  BY <1>13, QueueAssumption DEF CopyFails, Leave, QueueInv, TypeOK, CallShape, CallType, JobType, ClaimInv, ClaimsFresh, ClaimsAlone, EngineShape, SyncSetting, SyncInv, CopyTracked, Working
<1>14. ASSUME ReclaimStale PROVE CopyTracked'
  BY <1>14, QueueAssumption DEF ReclaimStale, IsStale, QueueInv, TypeOK, CallShape, CallType, JobType, ClaimInv, ClaimsFresh, ClaimsAlone, EngineShape, SyncSetting, SyncInv, CopyTracked, Working
<1>15. ASSUME EngineClaim PROVE CopyTracked'
  BY <1>15, QueueAssumption DEF EngineClaim, Oldest, QueueInv, TypeOK, CallShape, CallType, JobType, ClaimInv, ClaimsFresh, ClaimsAlone, EngineShape, SyncSetting, SyncInv, CopyTracked, Working
<1>16. ASSUME EngineComplete PROVE CopyTracked'
  BY <1>16, QueueAssumption DEF EngineComplete, QueueInv, TypeOK, CallShape, CallType, JobType, ClaimInv, ClaimsFresh, ClaimsAlone, EngineShape, SyncSetting, SyncInv, CopyTracked, Working
<1>17. ASSUME EngineFails PROVE CopyTracked'
  BY <1>17, QueueAssumption DEF EngineFails, QueueInv, TypeOK, CallShape, CallType, JobType, ClaimInv, ClaimsFresh, ClaimsAlone, EngineShape, SyncSetting, SyncInv, CopyTracked, Working
<1>18. CASE UNCHANGED vars
  BY <1>18 DEF vars, ClaimInv, ClaimsFresh, ClaimsAlone, EngineShape, SyncSetting, SyncInv, CopyTracked, Working, QueueInv
<1> QED
  BY <1>1, <1>2, <1>3, <1>4, <1>5, <1>6, <1>7, <1>8, <1>9, <1>10, <1>11, <1>12, <1>13, <1>14, <1>15, <1>16, <1>17, <1>18 DEF Next, ProcessOne
\* COMPLETED is written to a job whose every batch was copied, and nothing works
\* on such a job again.
LEMMA CompletedStep == ASSUME SyncSetting PROVE SyncInv /\ [Next]_vars => CompletedIsCopied'
<1> SUFFICES ASSUME SyncInv, [Next]_vars PROVE CompletedIsCopied'
  OBVIOUS
<1>1. ASSUME NEW ref \in Refs, Enqueue(ref) PROVE CompletedIsCopied'
  BY <1>1, QueueAssumption DEF Enqueue, Insert, NoRow, QueueInv, TypeOK, CallShape, CallType, JobType, ClaimInv, ClaimsFresh, ClaimsAlone, EngineShape, SyncSetting, SyncInv, CopyTracked, Working, CompletedIsCopied
<1>2. ASSUME NEW p \in Procs, DedupeInsert(p) PROVE CompletedIsCopied'
  BY <1>2, QueueAssumption DEF DedupeInsert, Insert, NoRow, QueueInv, TypeOK, CallShape, CallType, JobType, ClaimInv, ClaimsFresh, ClaimsAlone, EngineShape, SyncSetting, SyncInv, CopyTracked, Working, CompletedIsCopied
<1>3. ASSUME NEW p \in Procs, NEW ref \in Refs, DedupeSelect(p, ref) PROVE CompletedIsCopied'
  BY <1>3, QueueAssumption DEF DedupeSelect, QueueInv, TypeOK, CallShape, CallType, JobType, ClaimInv, ClaimsFresh, ClaimsAlone, EngineShape, SyncSetting, SyncInv, CopyTracked, Working, CompletedIsCopied
<1>4. ASSUME NEW p \in Procs, Crash(p) PROVE CompletedIsCopied'
  BY <1>4, QueueAssumption DEF Crash, Idle, QueueInv, TypeOK, CallShape, CallType, JobType, ClaimInv, ClaimsFresh, ClaimsAlone, EngineShape, SyncSetting, SyncInv, CopyTracked, Working, CompletedIsCopied
<1>5. ASSUME NEW j \in JobIds, Pause(j) PROVE CompletedIsCopied'
  BY <1>5, QueueAssumption DEF Pause, QueueInv, TypeOK, CallShape, CallType, JobType, ClaimInv, ClaimsFresh, ClaimsAlone, EngineShape, SyncSetting, SyncInv, CopyTracked, Working, CompletedIsCopied
<1>6. ASSUME NEW j \in JobIds, Resume(j) PROVE CompletedIsCopied'
  BY <1>6, QueueAssumption DEF Resume, QueueInv, TypeOK, CallShape, CallType, JobType, ClaimInv, ClaimsFresh, ClaimsAlone, EngineShape, SyncSetting, SyncInv, CopyTracked, Working, CompletedIsCopied
<1>7. ASSUME NEW j \in JobIds, HeartbeatAges(j) PROVE CompletedIsCopied'
  BY <1>7, QueueAssumption DEF HeartbeatAges, QueueInv, TypeOK, CallShape, CallType, JobType, ClaimInv, ClaimsFresh, ClaimsAlone, EngineShape, SyncSetting, SyncInv, CopyTracked, Working, CompletedIsCopied
<1>8. ASSUME NEW c \in Calls, Claim(c) PROVE CompletedIsCopied'
  BY <1>8, QueueAssumption DEF Claim, Oldest, Idle, QueueInv, TypeOK, CallShape, CallType, JobType, ClaimInv, ClaimsFresh, ClaimsAlone, EngineShape, SyncSetting, SyncInv, CopyTracked, Working, CompletedIsCopied
<1>9. ASSUME NEW c \in Calls, AcquireLock(c) PROVE CompletedIsCopied'
  BY <1>9, QueueAssumption DEF AcquireLock, SkippedOutcome, QueueInv, TypeOK, CallShape, CallType, JobType, ClaimInv, ClaimsFresh, ClaimsAlone, EngineShape, SyncSetting, SyncInv, CopyTracked, Working, CompletedIsCopied
<1>10. ASSUME NEW c \in Calls, Probe(c) PROVE CompletedIsCopied'
  BY <1>10, QueueAssumption DEF Probe, Leave, QueueInv, TypeOK, CallShape, CallType, JobType, ClaimInv, ClaimsFresh, ClaimsAlone, EngineShape, SyncSetting, SyncInv, CopyTracked, Working, CompletedIsCopied
<1>11. ASSUME NEW c \in Calls, CopyBatch(c) PROVE CompletedIsCopied'
  BY <1>11, QueueAssumption DEF CopyBatch, QueueInv, TypeOK, CallShape, CallType, JobType, ClaimInv, ClaimsFresh, ClaimsAlone, EngineShape, SyncSetting, SyncInv, CopyTracked, Working, CompletedIsCopied
<1>12. ASSUME NEW c \in Calls, Record(c) PROVE CompletedIsCopied'
  BY <1>12, QueueAssumption DEF Record, Outcome, Idle, QueueInv, TypeOK, CallShape, CallType, JobType, ClaimInv, ClaimsFresh, ClaimsAlone, EngineShape, SyncSetting, SyncInv, CopyTracked, Working, CompletedIsCopied
<1>13. ASSUME NEW c \in Calls, CopyFails(c) PROVE CompletedIsCopied'
  BY <1>13, QueueAssumption DEF CopyFails, Leave, QueueInv, TypeOK, CallShape, CallType, JobType, ClaimInv, ClaimsFresh, ClaimsAlone, EngineShape, SyncSetting, SyncInv, CopyTracked, Working, CompletedIsCopied
<1>14. ASSUME ReclaimStale PROVE CompletedIsCopied'
  BY <1>14, QueueAssumption DEF ReclaimStale, IsStale, QueueInv, TypeOK, CallShape, CallType, JobType, ClaimInv, ClaimsFresh, ClaimsAlone, EngineShape, SyncSetting, SyncInv, CopyTracked, Working, CompletedIsCopied
<1>15. ASSUME EngineClaim PROVE CompletedIsCopied'
  BY <1>15, QueueAssumption DEF EngineClaim, Oldest, QueueInv, TypeOK, CallShape, CallType, JobType, ClaimInv, ClaimsFresh, ClaimsAlone, EngineShape, SyncSetting, SyncInv, CopyTracked, Working, CompletedIsCopied
<1>16. ASSUME EngineComplete PROVE CompletedIsCopied'
  BY <1>16, QueueAssumption DEF EngineComplete, QueueInv, TypeOK, CallShape, CallType, JobType, ClaimInv, ClaimsFresh, ClaimsAlone, EngineShape, SyncSetting, SyncInv, CopyTracked, Working, CompletedIsCopied
<1>17. ASSUME EngineFails PROVE CompletedIsCopied'
  BY <1>17, QueueAssumption DEF EngineFails, QueueInv, TypeOK, CallShape, CallType, JobType, ClaimInv, ClaimsFresh, ClaimsAlone, EngineShape, SyncSetting, SyncInv, CopyTracked, Working, CompletedIsCopied
<1>18. CASE UNCHANGED vars
  BY <1>18 DEF vars, ClaimInv, ClaimsFresh, ClaimsAlone, EngineShape, SyncSetting, SyncInv, CopyTracked, Working, CompletedIsCopied, QueueInv
<1> QED
  BY <1>1, <1>2, <1>3, <1>4, <1>5, <1>6, <1>7, <1>8, <1>9, <1>10, <1>11, <1>12, <1>13, <1>14, <1>15, <1>16, <1>17, <1>18 DEF Next, ProcessOne
\* What an observer of the status column and of the checkpoints sees.
View == [j \in JobIds |-> jobs[j].status]

\* When one row's status changes, one status is seen to move.
LEMMA ViewMoves ==
  ASSUME NEW j \in JobIds, NEW s, jobs'[j].status = s,
         \A i \in JobIds \ {j} : jobs'[i].status = jobs[i].status
  PROVE  View' = [View EXCEPT ![j] = s] /\ View[j] = jobs[j].status
BY DEF View

\* An inserted job is created.
LEMMA InsertCreates ==
  ASSUME TypeOK, NEW ref \in Refs, Insert(ref), copied' = copied
  PROVE  \E j \in JobIds : Lifecycle!Create(j)
<1>1. PICK j \in JobIds : Insert(ref)!(j)
  BY DEF Insert
<1>2. /\ jobs[j].status = "NONE" /\ jobs'[j].status = "QUEUED"
      /\ \A i \in JobIds \ {j} : jobs'[i].status = jobs[i].status
  BY <1>1 DEF NoRow, TypeOK
<1>3. View' = [View EXCEPT ![j] = "QUEUED"] /\ View[j] = "NONE"
  BY <1>2, ViewMoves
<1> QED BY <1>3 DEF Lifecycle!Create, Lifecycle!Move, View

\* A step that leaves the statuses and the checkpoints alone is not seen.
LEMMA Unseen ==
  ASSUME TypeOK, \A j \in JobIds : jobs'[j].status = jobs[j].status, copied' = copied
  PROVE  UNCHANGED Lifecycle!vars
BY DEF Lifecycle!vars

\* Every step of a SYNC queue is a step of the life cycle, or is not seen.
LEMMA LifecycleStep ==
  ASSUME SyncSetting PROVE SyncInv /\ [Next]_vars => [Lifecycle!Next]_(Lifecycle!vars)
<1> SUFFICES ASSUME SyncInv, [Next]_vars PROVE [Lifecycle!Next]_(Lifecycle!vars)
  OBVIOUS
<1> USE DEF SyncInv, ClaimInv, QueueInv
<1>1. ASSUME NEW ref \in Refs, Enqueue(ref) PROVE Lifecycle!Next
  BY <1>1, InsertCreates DEF Enqueue, Lifecycle!Next
<1>2. ASSUME NEW p \in Procs, DedupeInsert(p) PROVE Lifecycle!Next
  <2>1. sched[p] \in Refs
    BY <1>2 DEF DedupeInsert, TypeOK
  <2> QED BY <1>2, <2>1, InsertCreates DEF DedupeInsert, Lifecycle!Next
<1>3. ASSUME NEW p \in Procs, Crash(p) \/ \E ref \in Refs : DedupeSelect(p, ref) PROVE UNCHANGED Lifecycle!vars
  BY <1>3, Unseen DEF DedupeSelect, Crash
<1>4. ASSUME NEW j \in JobIds, Pause(j) \/ HeartbeatAges(j) PROVE UNCHANGED Lifecycle!vars
  <2>1. \A i \in JobIds : jobs'[i].status = jobs[i].status
    BY <1>4 DEF Pause, HeartbeatAges, TypeOK, JobType
  <2> QED BY <1>4, <2>1, Unseen DEF Pause, HeartbeatAges
<1>5. ASSUME NEW j \in JobIds, Resume(j) PROVE Lifecycle!Next
  <2>1. jobs'[j].status = "QUEUED" /\ \A i \in JobIds \ {j} : jobs'[i].status = jobs[i].status
    BY <1>5 DEF Resume, TypeOK, JobType
  <2>2. View' = [View EXCEPT ![j] = "QUEUED"] /\ View[j] = jobs[j].status
    BY <2>1, ViewMoves
  <2>3. Lifecycle!Resume(j)
    BY <1>5, <2>2 DEF Resume, View, Lifecycle!Resume, Lifecycle!Move
  <2> QED BY <2>3 DEF Lifecycle!Next
<1>6. ASSUME NEW c \in Calls, Claim(c) PROVE Lifecycle!Next
  <2>1. PICK j \in JobIds : Claim(c)!(j)
    BY <1>6 DEF Claim
  <2>2. jobs'[j].status = "RUNNING" /\ \A i \in JobIds \ {j} : jobs'[i].status = jobs[i].status
    BY <2>1 DEF TypeOK, JobType
  <2>5. View' = [View EXCEPT ![j] = "RUNNING"] /\ View[j] = jobs[j].status
    BY <2>2, ViewMoves
  <2>6. Lifecycle!Claim(j)
    BY <2>1, <2>5 DEF Oldest, View, Lifecycle!Claim, Lifecycle!Move
  <2> QED BY <2>6 DEF Lifecycle!Next
<1>7. ASSUME NEW c \in Calls, AcquireLock(c) \/ Probe(c) \/ CopyFails(c) PROVE UNCHANGED Lifecycle!vars
  BY <1>7, Unseen DEF AcquireLock, Probe, CopyFails
<1>8. ASSUME NEW c \in Calls, CopyBatch(c) PROVE Lifecycle!Next
  <2> DEFINE j == calls[c].job
  <2>1. j \in JobIds /\ jobs[j].status = "RUNNING" /\ calls[c].pos = copied[j] /\ calls[c].pos < Batches
    BY <1>8 DEF CopyBatch, CallShape, ClaimsFresh, CopyTracked, Working
  <2>2. copied' = [copied EXCEPT ![j] = @ + 1]
    BY <1>8, <2>1 DEF CopyBatch, TypeOK
  <2>3. \A i \in JobIds : jobs'[i].status = jobs[i].status
    BY <1>8 DEF CopyBatch, TypeOK, JobType
  <2>4. View' = View /\ View[j] = "RUNNING"
    BY <2>1, <2>3 DEF View
  <2>5. Lifecycle!CopyBatch(j)
    BY <2>1, <2>2, <2>4 DEF View, Lifecycle!CopyBatch
  <2> QED BY <2>1, <2>5 DEF Lifecycle!Next
<1>9. ASSUME NEW c \in Calls, Record(c) PROVE Lifecycle!Next
  <2>1. PICK j \in JobIds : calls[c].job = j /\ jobs[j].status = "RUNNING"
    BY <1>9 DEF Record, CallShape, ClaimsFresh
  <2>2. Outcome(c) \in {"PAUSED", "FAILED", "QUEUED", "COMPLETED"} /\ (Outcome(c) = "COMPLETED" => copied[j] = Batches)
    BY <1>9, <2>1, Fields DEF Record, CallShape, TypeOK, Outcome, CopyTracked
  <2>3. jobs'[j].status = Outcome(c) /\ \A i \in JobIds \ {j} : jobs'[i].status = jobs[i].status
    BY <1>9, <2>1 DEF Record, TypeOK, JobType
  <2>4. View' = [View EXCEPT ![j] = Outcome(c)] /\ View[j] = "RUNNING"
    BY <2>1, <2>3, ViewMoves
  <2>5. Lifecycle!Complete(j) \/ Lifecycle!Stop(j)
    BY <1>9, <2>2, <2>4 DEF Record, View, Lifecycle!Complete, Lifecycle!Stop, Lifecycle!Move
  <2> QED BY <2>1, <2>5 DEF Lifecycle!Next
<1>10. ASSUME ReclaimStale PROVE Lifecycle!Next
  <2> DEFINE S == {j \in JobIds : IsStale(j)}
  <2>1. S \in SUBSET {j \in JobIds : View[j] = "RUNNING"}
    BY DEF IsStale, View
  <2>2. View' = [j \in JobIds |-> IF j \in S THEN "QUEUED" ELSE View[j]]
    BY <1>10 DEF ReclaimStale, View, TypeOK, JobType
  <2>3. Lifecycle!Reclaim
    BY <1>10, <2>1, <2>2 DEF ReclaimStale, View, Lifecycle!Reclaim
  <2> QED BY <2>3 DEF Lifecycle!Next
<1>11. ~EngineClaim /\ ~EngineComplete /\ ~EngineFails
  BY DEF EngineClaim, EngineComplete, EngineFails, SyncSetting, CopyTracked
<1>12. CASE UNCHANGED vars
  BY <1>12 DEF vars, Lifecycle!vars
<1> HIDE DEF SyncInv, ClaimInv, QueueInv
<1>13. CASE \E c \in Calls : ProcessOne(c) \/ CopyFails(c)
  BY <1>6, <1>7, <1>8, <1>9, <1>13 DEF ProcessOne
<1>14. CASE \E ref \in Refs : Enqueue(ref)
  BY <1>1, <1>14
<1>16. ASSUME NEW p \in Procs, DedupeInsert(p) \/ Crash(p) \/ \E ref \in Refs : DedupeSelect(p, ref)
       PROVE  Lifecycle!Next \/ UNCHANGED Lifecycle!vars
  BY <1>2, <1>3, <1>16
<1>15. CASE \E j \in JobIds : Pause(j) \/ Resume(j) \/ HeartbeatAges(j)
  BY <1>4, <1>5, <1>15
<1> QED BY <1>10, <1>11, <1>12, <1>13, <1>14, <1>15, <1>16 DEF Next

\* The invariant of the SYNC queue.
LEMMA SyncInvariant == ASSUME SyncSetting PROVE Spec => []SyncInv
<1>1. HeartbeatsInTime
  BY DEF SyncSetting
<1>2. Init => SyncInv
  <2>1. Init => ClaimInv
    BY QueueInit DEF Init, NoRow, ClaimInv, ClaimsFresh, ClaimsAlone, PauseSeen, Idle
  <2> QED BY <2>1 DEF Init, SyncInv, CopyTracked, CompletedIsCopied, Working, Idle, NoRow
<1>3. SyncInv /\ [Next]_vars => SyncInv'
  <2>1. QueueInv /\ [Next]_vars => QueueInv'
    BY TypeStep, RowsKept, ShapeStep, EngineShapeStep, LocksStep, ExclusionStep DEF QueueInv
  <2>2. ClaimInv /\ [Next]_vars => ClaimInv'
    BY <1>1, <2>1, FreshStep, AloneStep, PauseStep DEF ClaimInv
  <2> QED BY <2>2, TrackedStep, CompletedStep DEF SyncInv
<1> QED BY <1>2, <1>3, PTL DEF Spec

\* A SYNC job that is COMPLETED has had every batch copied, through any number of
\* pauses, resumes, retries, crashes and reclaims.
THEOREM CompletedMeansCopied == ASSUME SyncSetting PROVE Spec => []CompletedIsCopied
<1>1. SyncInv => CompletedIsCopied
  BY DEF SyncInv
<1> QED BY SyncInvariant, <1>1, PTL

\* The SYNC queue implements the life cycle the table documents: COMPLETED is
\* final and means every batch, and no committed batch is given up.
THEOREM QueueImplementsLifecycle == ASSUME SyncSetting PROVE Spec => LifecycleSpec
<1>1. Init => Lifecycle!Init
  BY DEF Init, Lifecycle!Init, NoRow
<1> QED BY <1>1, SyncInvariant, LifecycleStep, PTL DEF Spec, LifecycleSpec, Lifecycle!Spec
=============================================================================
