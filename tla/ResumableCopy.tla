--------------------------- MODULE ResumableCopy ---------------------------
(***************************************************************************)
(* The checkpointed FULL copy of one table, as run by a copy job: paging   *)
(* (sync/copy_util.ts, pagedRead), the per-engine copyTable* functions     *)
(* (replication.service.ts, physical_sync.service.ts) and the durable      *)
(* checkpoint (jobs/copy_job_engine.ts, checkpointProvider).  A worker may *)
(* die between any two statements; the job then runs again from the saved  *)
(* checkpoint.  The source keeps changing while it is copied.              *)
(*                                                                         *)
(* A row is its identity: values are abstracted, since a row that does not *)
(* change while it is copied is either in the replica or not.              *)
(***************************************************************************)
EXTENDS Integers, FiniteSets

CONSTANTS
  Workers,          \* copy workers (processes running startWorker)
  Rows,             \* row identities of the source table, in physical order
  keyOf,            \* row -> value of its first primary-key column (pkCols[0])
  HasKey,           \* the table has a primary key
  BatchSize,        \* pageSize of the job
  MaxRows,          \* maxRows of the job
  Engine,           \* which copyTable* function runs
  Drops,            \* when the replica may be dropped behind the job's back
  StaleWhileAlive,  \* one batch may outlast STALE_MS, so a live job is reclaimed
  MaxFaults         \* bound on crashes and thrown errors

ASSUME RowsAssumption == Rows \subseteq Nat /\ IsFiniteSet(Rows)
ASSUME KeyAssumption == keyOf \in [Rows -> Nat \ {0}]
ASSUME BoundsAssumption == /\ BatchSize \in Nat \ {0} /\ MaxRows \in Nat \ {0}
                           /\ MaxFaults \in Nat
ASSUME FlagAssumption == HasKey \in BOOLEAN /\ StaleWhileAlive \in BOOLEAN
ASSUME DropsAssumption == Drops \subseteq {"unfinished", "finished"}

VARIABLES
  source,   \* rows now in the source table
  touched,  \* rows inserted or deleted in the source since the job was created
  replica,  \* row -> number of copies of it in the destination
  exists,   \* the destination table exists
  ckpt,     \* this table's row of copy_checkpoints
  status,   \* of the copy job; ACTIVE stands for QUEUED or RUNNING
  faults,   \* crashes and errors so far
  call,     \* worker -> the local state of its copyTable call
  rebuilt   \* history: a worker rebuilt the table while another was copying it

vars == <<source, touched, replica, exists, ckpt, status, faults, call, rebuilt>>

-----------------------------------------------------------------------------
(* What the copyTable* functions do differently.                           *)
(*   guard       a resumed copy first probes that the replica still exists *)
(*   plainFresh  a fresh copy uses plain INSERT, only a resumed one upserts*)
(*   ddl         the table must be created before it is written ("none" if *)
(*               it need not); "strict" if CREATE fails on an existing one *)
(*   match       rows an upsert replaces: those with the same primary key  *)
(*               ("pk"), with the same first key column ("first"), or the  *)
(*               latter only when that column is unique, else the statement*)
(*               is rejected ("unique": ON CONFLICT (pkCols[0]))           *)
(*   keyless     without a key: rows are appended, or still upserted by    *)
(*               the first column                                          *)

copyTable == [guard |-> TRUE, plainFresh |-> TRUE, ddl |-> "strict",
              match |-> "unique", keyless |-> "append"]
copyTableHub == [guard |-> TRUE, plainFresh |-> TRUE, ddl |-> "strict",
                 match |-> "unique", keyless |-> "append"]
copyTableMySql == [guard |-> FALSE, plainFresh |-> FALSE, ddl |-> "strict",
                   match |-> "pk", keyless |-> "append"]
copyTableMongo == [guard |-> FALSE, plainFresh |-> FALSE, ddl |-> "none",
                   match |-> "first", keyless |-> "first"]
copyTableEs == [guard |-> FALSE, plainFresh |-> FALSE, ddl |-> "none",
                match |-> "first", keyless |-> "append"]
copyTableGeneric == [guard |-> FALSE, plainFresh |-> FALSE, ddl |-> "lenient",
                     match |-> "first", keyless |-> "first"]

profile == CASE Engine = "PG" -> copyTable
             [] Engine = "HUB" -> copyTableHub
             [] Engine = "MYSQL" -> copyTableMySql
             [] Engine = "MONGO" -> copyTableMongo
             [] Engine = "ES" -> copyTableEs
             [] Engine = "ORACLE" -> copyTableGeneric

UniqueKey == \A a, b \in Rows : keyOf[a] = keyOf[b] => a = b

-----------------------------------------------------------------------------
(* Paging.                                                                 *)

\* rows the next page is taken from: WHERE key > cursor, or OFFSET cursor.
Beyond(c) ==
  IF HasKey THEN {r \in source : keyOf[r] > c}
            ELSE {r \in source : Cardinality({x \in source : x < r}) >= c}

Before(a, b) == IF HasKey THEN keyOf[a] <= keyOf[b] ELSE a <= b

\* P is the page ORDER BY key LIMIT BatchSize; ties are in any order.
IsPage(P, c) ==
  /\ P \subseteq Beyond(c)
  /\ \A a \in P, b \in Beyond(c) \ P : Before(a, b)
  /\ \/ P = Beyond(c) /\ Cardinality(P) <= BatchSize
     \/ Cardinality(P) = BatchSize

\* the cursor after page P: its last key, or the next offset.
PageEndsPastLast(P, c) ==
  IF HasKey THEN {keyOf[r] + 1 : r \in {x \in P : \A y \in P : Before(y, x)}}
            ELSE {c + Cardinality(P) + 1}
PageEnds(P, c) ==
  IF HasKey THEN {keyOf[r] : r \in {x \in P : \A y \in P : Before(y, x)}}
            ELSE {c + Cardinality(P)}

LastPage(P) == Cardinality(P) < BatchSize

-----------------------------------------------------------------------------
(* Writing one row into the destination.                                   *)

Appends == ~HasKey /\ profile.keyless = "append"
PlainInsert(w) == HasKey /\ profile.plainFresh /\ ~call[w].resume

\* the statement fails: missing table, duplicate key, no such unique index.
Rejected(w, r) ==
  \/ profile.ddl # "none" /\ ~exists
  \/ PlainInsert(w) /\ replica[r] > 0
  \/ HasKey /\ ~PlainInsert(w) /\ profile.match = "unique" /\ ~UniqueKey

Written(w, r) ==
  IF Appends THEN [replica EXCEPT ![r] = @ + 1]
  ELSE IF PlainInsert(w) \/ profile.match \in {"pk", "unique"} THEN [replica EXCEPT ![r] = 1]
  ELSE [x \in Rows |-> IF x = r THEN 1 ELSE IF keyOf[x] = keyOf[r] THEN 0 ELSE replica[x]]

-----------------------------------------------------------------------------
NoCheckpoint == [saved |-> FALSE, cursor |-> 0, rows |-> 0, done |-> FALSE]
Checkpoint(c, n, d) == [saved |-> TRUE, cursor |-> c, rows |-> n, done |-> d]

\* A worker outside copyTable; its locals are gone.
NoCall == [pc |-> "idle", resume |-> FALSE, cursor |-> 0, rows |-> 0,
           page |-> {}, todo |-> {}]

Init ==
  /\ source \in SUBSET Rows
  /\ touched = {}
  /\ replica = [r \in Rows |-> 0]
  /\ exists = FALSE
  /\ ckpt = NoCheckpoint
  /\ status = "ACTIVE"
  /\ faults = 0
  /\ call = [w \in Workers |-> NoCall]
  /\ rebuilt = FALSE

At(w, l) == call[w].pc = l
Active(w) == ~At(w, "idle")
Goto(w, l) == call' = [call EXCEPT ![w].pc = l]
Enter(w, l, res, c, n) ==
  call' = [call EXCEPT ![w] = [pc |-> l, resume |-> res, cursor |-> c, rows |-> n,
                               page |-> {}, todo |-> {}]]
Exit(w) == call' = [call EXCEPT ![w] = NoCall]

\* Between the drop and the new checkpoint the table is being rebuilt.
Rebuilding(w) == At(w, "drop") \/ At(w, "create") \/ (At(w, "mark") /\ ~call[w].resume)
RebuiltUnderOther == \E x, y \in Workers : x # y /\ Rebuilding(x) /\ Active(y)

CanResumeIgnoringKey == ckpt.saved
CanResume == ckpt.saved /\ HasKey

\* A claimed job calls getStart: skip a finished table, resume a keyed one
\* from its checkpoint, restart anything else from scratch.
GetStart(w) ==
  /\ status = "ACTIVE" /\ ~Active(w)
  /\ StaleWhileAlive \/ \A x \in Workers : ~Active(x)
  /\ \/ ckpt.done /\ Goto(w, "tableDone")
     \/ /\ ~ckpt.done /\ CanResume
        /\ Enter(w, IF profile.guard THEN "probe" ELSE "prepare", TRUE, ckpt.cursor, ckpt.rows)
     \/ ~ckpt.done /\ ~CanResume /\ Enter(w, "drop", FALSE, 0, 0)
  /\ rebuilt' = (rebuilt \/ RebuiltUnderOther')
  /\ UNCHANGED <<source, touched, replica, exists, ckpt, status, faults>>

\* SELECT 1 FROM the replica: if the table is gone, rebuild it from scratch.
ProbeReplica(w) ==
  /\ At(w, "probe")
  /\ \/ exists /\ Goto(w, "prepare")
     \/ ~exists /\ Enter(w, "drop", FALSE, 0, 0)
  /\ rebuilt' = (rebuilt \/ RebuiltUnderOther')
  /\ UNCHANGED <<source, touched, replica, exists, ckpt, status, faults>>

DropTable(w) ==
  /\ At(w, "drop") /\ Goto(w, "create")
  /\ exists' = FALSE
  /\ replica' = [r \in Rows |-> 0]
  /\ UNCHANGED <<source, touched, ckpt, status, faults, rebuilt>>

\* CREATE TABLE fails if another worker has just created it.
CreateTable(w) ==
  /\ At(w, "create")
  /\ \/ (~exists \/ profile.ddl # "strict") /\ Goto(w, "mark") /\ UNCHANGED status
     \/ exists /\ profile.ddl = "strict" /\ Exit(w) /\ status' = "FAILED"
  /\ exists' = TRUE
  /\ UNCHANGED <<source, touched, replica, ckpt, faults, rebuilt>>

CreateIfNotExists(w) ==
  /\ At(w, "prepare") /\ Goto(w, "mark")
  /\ exists' = TRUE
  /\ UNCHANGED <<source, touched, replica, ckpt, status, faults, rebuilt>>

\* cp.save(start?.cursor ?? null, ...) before the first page.
SaveStartFromNull(w) ==
  /\ At(w, "mark") /\ Goto(w, "loop")
  /\ ckpt' = Checkpoint(0, 0, FALSE)
  /\ UNCHANGED <<source, touched, replica, exists, status, faults, rebuilt>>
SaveStart(w) ==
  /\ At(w, "mark") /\ Goto(w, "loop")
  /\ ckpt' = Checkpoint(call[w].cursor, call[w].rows, FALSE)
  /\ UNCHANGED <<source, touched, replica, exists, status, faults, rebuilt>>

\* shouldStop() saw control = PAUSE: CopyPaused, the job goes PAUSED.
StopForPause(w) ==
  /\ At(w, "loop") /\ Exit(w)
  /\ status' = "PAUSED"
  /\ UNCHANGED <<source, touched, replica, exists, ckpt, faults, rebuilt>>

ReadPageAgain(w) ==
  /\ At(w, "loop")
  /\ \E P \in SUBSET source :
       /\ IsPage(P, call[w].cursor)
       /\ call' = [call EXCEPT ![w] = [@ EXCEPT !.pc = IF P = {} THEN "loop" ELSE "write",
                                                !.page = P, !.todo = P]]
  /\ UNCHANGED <<source, touched, replica, exists, ckpt, status, faults, rebuilt>>
ReadPage(w) ==
  /\ At(w, "loop")
  /\ \E P \in SUBSET source :
       /\ IsPage(P, call[w].cursor)
       /\ call' = [call EXCEPT ![w] = [@ EXCEPT !.pc = IF P = {} THEN "finish" ELSE "write",
                                                !.page = P, !.todo = P]]
  /\ UNCHANGED <<source, touched, replica, exists, ckpt, status, faults, rebuilt>>

\* The sink writes the page in order; a statement commits at least one row.
WriteRowOrSkipPage(w) ==
  /\ At(w, "write")
  /\ \E r \in call[w].todo :
       /\ \A x \in call[w].todo : Before(r, x)
       /\ \/ /\ ~Rejected(w, r)
             /\ replica' = Written(w, r) /\ exists' = TRUE
             /\ call' = [call EXCEPT ![w].todo = @ \ {r}]
          \/ /\ Rejected(w, r)
             /\ call' = [call EXCEPT ![w].todo = {}]
             /\ UNCHANGED <<replica, exists>>
  /\ UNCHANGED <<source, touched, ckpt, status, faults, rebuilt>>
WriteRow(w) ==
  /\ At(w, "write")
  /\ \E r \in call[w].todo :
       /\ \A x \in call[w].todo : Before(r, x)
       /\ \/ /\ ~Rejected(w, r)
             /\ replica' = Written(w, r) /\ exists' = TRUE
             /\ call' = [call EXCEPT ![w].todo = @ \ {r}]
             /\ UNCHANGED status
          \/ /\ Rejected(w, r)
             /\ Exit(w) /\ status' = "FAILED"
             /\ UNCHANGED <<replica, exists>>
  /\ UNCHANGED <<source, touched, ckpt, faults, rebuilt>>

\* The page's checkpoint is saved and the loop goes on: a short page is the
\* last one, and a full page that reaches the row cap aborts the copy.
Advance(w) ==
  \E e \in PageEnds(call[w].page, call[w].cursor) :
    LET n == call[w].rows + Cardinality(call[w].page)
        moved(l) == call' = [call EXCEPT ![w] = [@ EXCEPT !.pc = l, !.cursor = e, !.rows = n]]
    IN /\ ckpt' = Checkpoint(e, n, FALSE)
       /\ \/ LastPage(call[w].page) /\ moved("finish") /\ UNCHANGED status
          \/ ~LastPage(call[w].page) /\ n < MaxRows /\ moved("loop") /\ UNCHANGED status
          \/ ~LastPage(call[w].page) /\ n >= MaxRows /\ Exit(w) /\ status' = "FAILED"

\* onProgress, once the whole page is written.
SaveProgressEarly(w) ==
  /\ At(w, "write")
  /\ Advance(w)
  /\ UNCHANGED <<source, touched, replica, exists, faults, rebuilt>>
SaveProgress(w) ==
  /\ At(w, "write") /\ call[w].todo = {}
  /\ Advance(w)
  /\ UNCHANGED <<source, touched, replica, exists, faults, rebuilt>>

\* cp.save(..., done = true): the table is complete.
SaveDone(w) ==
  /\ At(w, "finish") /\ Goto(w, "tableDone")
  /\ ckpt' = Checkpoint(call[w].cursor, call[w].rows, TRUE)
  /\ UNCHANGED <<source, touched, replica, exists, status, faults, rebuilt>>

\* processOne records the result, whatever the job's status has become.
CompleteJob(w) ==
  /\ At(w, "tableDone") /\ Exit(w)
  /\ status' = "COMPLETED"
  /\ UNCHANGED <<source, touched, replica, exists, ckpt, faults, rebuilt>>

\* memGuard, a lost connection, a failed statement: an error of this table.
TableError(w) ==
  /\ Active(w) /\ ~At(w, "tableDone") /\ faults < MaxFaults
  /\ Exit(w)
  /\ status' = "FAILED" /\ faults' = faults + 1
  /\ UNCHANGED <<source, touched, replica, exists, ckpt, rebuilt>>

\* The worker dies; its job is reclaimed and starts again with getStart.
Crash(w) ==
  /\ Active(w) /\ faults < MaxFaults
  /\ Exit(w)
  /\ faults' = faults + 1
  /\ UNCHANGED <<source, touched, replica, exists, ckpt, status, rebuilt>>

ResumeJob ==
  /\ status \in {"PAUSED", "FAILED"}
  /\ status' = "ACTIVE"
  /\ UNCHANGED <<source, touched, replica, exists, ckpt, faults, call, rebuilt>>

\* The source's own traffic.
SourceChange(r) ==
  /\ source' = IF r \in source THEN source \ {r} ELSE source \union {r}
  /\ touched' = touched \union {r}
  /\ UNCHANGED <<replica, exists, ckpt, status, faults, call, rebuilt>>

\* Someone drops the replica while no worker runs the job.
DropReplica ==
  /\ (IF ckpt.done THEN "finished" ELSE "unfinished") \in Drops
  /\ exists /\ \A w \in Workers : ~Active(w)
  /\ status # "COMPLETED"
  /\ exists' = FALSE /\ replica' = [r \in Rows |-> 0]
  /\ UNCHANGED <<source, touched, ckpt, status, faults, call, rebuilt>>

CopyStep(w) ==
  \/ GetStart(w) \/ ProbeReplica(w) \/ DropTable(w) \/ CreateTable(w)
  \/ CreateIfNotExists(w) \/ SaveStart(w) \/ ReadPage(w) \/ WriteRow(w)
  \/ SaveProgress(w) \/ SaveDone(w) \/ CompleteJob(w)

Next ==
  \/ \E w \in Workers : CopyStep(w) \/ StopForPause(w) \/ TableError(w) \/ Crash(w)
  \/ ResumeJob
  \/ \E r \in Rows : SourceChange(r)
  \/ DropReplica

Spec == Init /\ [][Next]_vars

\* A polling worker keeps claiming and running; users, faults and the source's
\* traffic are not fair.
FairSpec == Spec /\ \A w \in Workers : WF_vars(CopyStep(w))

-----------------------------------------------------------------------------
(* Properties.                                                             *)

Labels == {"idle", "probe", "drop", "create", "prepare", "mark", "loop", "write", "finish",
           "tableDone"}
CallType == [pc : Labels, resume : BOOLEAN, cursor : Nat, rows : Nat,
             page : SUBSET Rows, todo : SUBSET Rows]
CkptType == [saved : BOOLEAN, cursor : Nat, rows : Nat, done : BOOLEAN]

TypeOK ==
  /\ source \subseteq Rows /\ touched \subseteq Rows
  /\ replica \in [Rows -> Nat]
  /\ exists \in BOOLEAN
  /\ ckpt \in CkptType
  /\ status \in {"ACTIVE", "PAUSED", "FAILED", "COMPLETED"}
  /\ faults \in 0..MaxFaults
  /\ call \in [Workers -> CallType]
  /\ rebuilt \in BOOLEAN

\* Rows that were in the source all along.  OFFSET paging promises nothing
\* about a table that changes (copy_util.ts: "not concurrency-safe").
Stable == IF HasKey \/ touched = {} THEN source \ touched ELSE {}

\* A COMPLETED job has copied every row that was in the source throughout
\* (job engine header: "nothing already committed is lost"), whatever crashed,
\* paused, failed or changed in the source meanwhile.
CompletedIsWhole == status = "COMPLETED" => \A r \in Stable : replica[r] >= 1

\* The header's "or duplicated": no unchanged row is in the replica twice, even
\* after a keyless table was reloaded halfway.
NoDuplicates == \A r \in Rows : (HasKey \/ touched = {}) => replica[r] <= 1

\* The saved cursor never runs ahead of the replica: every stable row up to it
\* is there, so resuming "forward from the last committed key" skips nothing.
CheckpointCovered ==
  HasKey /\ ckpt.saved => \A r \in Stable : keyOf[r] <= ckpt.cursor => replica[r] >= 1

\* "Re-applying at most one boundary batch": beyond the saved cursor the
\* replica holds no more than one page of stable rows.
OneBatchReapplied ==
  HasKey /\ ckpt.saved =>
    Cardinality({r \in Stable : keyOf[r] > ckpt.cursor /\ replica[r] > 0}) <= BatchSize

\* A slow batch may let a second worker reclaim the job of a live one
\* (STALE_MS, copy_job_engine.ts).  Both then copy the table, each from its own
\* cursor, and overwrite each other's checkpoint; the plain INSERT of the first
\* may meet rows of the second.  A COMPLETED job still has every unchanged row,
\* unless one of them dropped and rebuilt the table while the other was active.
OverlapLosesNothing == rebuilt \/ CompletedIsWhole

\* Every activation of the job ends: completed, paused or failed, never stuck,
\* as long as faults stop and workers keep polling.
EventuallySettles == status = "ACTIVE" ~> status # "ACTIVE"
=============================================================================
