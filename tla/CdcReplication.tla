--------------------------- MODULE CdcReplication ---------------------------
(***************************************************************************)
(* Change data capture: a trigger on the source table writes each change   *)
(* into an outbox table (sync/cdc_capture.ts); each CDC job snapshots the  *)
(* table once and from then on drains the outbox into its replica, keeping *)
(* its position in a durable watermark (replication.service.ts, cdcRun;    *)
(* physical_sync.service.ts, _refreshCdc).  Source transactions, the jobs  *)
(* and crashes interleave.                                                 *)
(*                                                                         *)
(* A row is its primary key and one value; a change carries the new value, *)
(* Absent for a delete.                                                    *)
(***************************************************************************)
EXTENDS Integers, Sequences, FiniteSets

CONSTANTS
  Jobs,          \* CDC jobs that read this source table
  Keys, Vals,    \* primary keys, row contents
  Writers,       \* source sessions, each with at most one open transaction
  SourceEngine,  \* "POSTGRES", "MYSQL" or "ORACLE"
  Hub,           \* the jobs are hub refreshes: baseline after a backfill
  SerialWriters, \* source transactions do not overlap
  KeyUpdates,    \* the source changes primary keys
  BatchSize,     \* changes, or rows, per read
  MaxChanges,    \* bound on captured changes
  MaxFaults      \* bound on crashes and errors of a run

ASSUME KeysAssumption == Keys \subseteq Nat \ {0}
ASSUME CdcBounds == BatchSize \in Nat \ {0} /\ MaxChanges \in Nat /\ MaxFaults \in Nat
ASSUME CdcFlags == /\ Hub \in BOOLEAN /\ SerialWriters \in BOOLEAN /\ KeyUpdates \in BOOLEAN
                   /\ SourceEngine \in {"POSTGRES", "MYSQL", "ORACLE"}

Absent == "absent"
ASSUME AbsentAssumption == Absent \notin Vals

VARIABLES
  source,   \* key -> committed row
  armed,    \* operations whose trigger is installed
  outbox,   \* committed change rows
  nextSeq,  \* the outbox sequence
  txn,      \* writer -> its open transaction
  replica,  \* job -> key -> row
  pos,      \* job -> durable position; -1 before the first run ends
  run,      \* job -> local state of its run
  faults

vars == <<source, armed, outbox, nextSeq, txn, replica, pos, run, faults>>

Row == Vals \union {Absent}
Image == [Keys -> Row]
Ops == {"I", "U", "D"}
NoTxn == [writes |-> {}, change |-> {}]
Empty == [k \in Keys |-> Absent]
Off == [pc |-> "off", arm |-> 1, seq |-> 0, todo |-> {}, short |-> FALSE,
        applied |-> FALSE, cursor |-> 0, img |-> Empty]

Init ==
  /\ source \in Image
  /\ armed = {} /\ outbox = {} /\ nextSeq = 1
  /\ txn = [w \in Writers |-> NoTxn]
  /\ replica = [j \in Jobs |-> IF Hub THEN source ELSE Empty]
  /\ pos = [j \in Jobs |-> -1]
  /\ run = [j \in Jobs |-> Off]
  /\ faults = 0

-----------------------------------------------------------------------------
(* The source's transactions: one statement, whose trigger takes a sequence*)
(* number, then COMMIT or ROLLBACK.  Rows stay locked in between.          *)

Open(w) == txn[w].writes # {}
Locked(k) == \E w \in Writers : \E x \in txn[w].writes : x[1] = k
MayWrite(w) == ~Open(w) /\ (SerialWriters => \A x \in Writers : ~Open(x))

\* The trigger body: one outbox row, carrying the NEW key and document (the
\* OLD key of a delete), or nothing when this operation's trigger is absent.
Capture(op, k, v) == IF op \in armed THEN {[seq |-> nextSeq, key |-> k, val |-> v]} ELSE {}

OpOf(k, v) == IF v = Absent THEN "D" ELSE IF source[k] = Absent THEN "I" ELSE "U"

\* INSERT, UPDATE or DELETE of the row with key k.
Write(w, k, v) ==
  /\ MayWrite(w) /\ ~Locked(k) /\ source[k] # v
  /\ nextSeq <= MaxChanges
  /\ txn' = [txn EXCEPT ![w] = [writes |-> {<<k, v>>}, change |-> Capture(OpOf(k, v), k, v)]]
  /\ nextSeq' = IF OpOf(k, v) \in armed THEN nextSeq + 1 ELSE nextSeq
  /\ UNCHANGED <<source, armed, outbox, replica, pos, run, faults>>

\* UPDATE of the primary key itself.
WriteKey(w, k, n) ==
  /\ KeyUpdates /\ MayWrite(w) /\ ~Locked(k) /\ ~Locked(n)
  /\ source[k] # Absent /\ source[n] = Absent
  /\ nextSeq <= MaxChanges
  /\ txn' = [txn EXCEPT ![w] = [writes |-> {<<k, Absent>>, <<n, source[k]>>},
                                change |-> Capture("U", n, source[k])]]
  /\ nextSeq' = IF "U" \in armed THEN nextSeq + 1 ELSE nextSeq
  /\ UNCHANGED <<source, armed, outbox, replica, pos, run, faults>>

Commit(w) ==
  /\ Open(w)
  /\ source' = [k \in Keys |-> IF \E x \in txn[w].writes : x[1] = k
                               THEN (CHOOSE x \in txn[w].writes : x[1] = k)[2]
                               ELSE source[k]]
  /\ outbox' = outbox \union txn[w].change
  /\ txn' = [txn EXCEPT ![w] = NoTxn]
  /\ UNCHANGED <<armed, nextSeq, replica, pos, run, faults>>

Rollback(w) ==
  /\ Open(w)
  /\ txn' = [txn EXCEPT ![w] = NoTxn]
  /\ UNCHANGED <<source, armed, outbox, nextSeq, replica, pos, run, faults>>

-----------------------------------------------------------------------------
(* CdcCapture.ensure, at the start of every run.                           *)

At(j, l) == run[j].pc = l
Step(j, l) == run' = [run EXCEPT ![j].pc = l]
Stop(j) == run' = [run EXCEPT ![j] = Off]

\* The triggers are DDL: the source runs it when no transaction is open.
NoOpenTxn == \A w \in Writers : ~Open(w)

\* Operations whose trigger is dropped and recreated together.
Triggers == IF SourceEngine = "MYSQL" THEN <<{"I"}, {"U"}, {"D"}>> ELSE <<Ops>>

\* The trigger is taken to be there already.
EnsureReplaceNever(j) ==
  /\ At(j, "off") /\ SourceEngine = "ORACLE" /\ NoOpenTxn
  /\ armed' = armed
  /\ Step(j, "position")
  /\ UNCHANGED <<source, outbox, nextSeq, txn, replica, pos, faults>>

\* CREATE OR REPLACE TRIGGER.
EnsureReplace(j) ==
  /\ At(j, "off") /\ SourceEngine = "ORACLE" /\ NoOpenTxn
  /\ armed' = Ops
  /\ Step(j, "position")
  /\ UNCHANGED <<source, outbox, nextSeq, txn, replica, pos, faults>>

\* DROP TRIGGER IF EXISTS.
EnsureDropAll(j) ==
  /\ At(j, "off") \/ At(j, "dropNext")
  /\ SourceEngine # "ORACLE" /\ NoOpenTxn
  /\ armed' = {}
  /\ Step(j, "create")
  /\ UNCHANGED <<source, outbox, nextSeq, txn, replica, pos, faults>>
EnsureDrop(j) ==
  /\ At(j, "off") \/ At(j, "dropNext")
  /\ SourceEngine # "ORACLE" /\ NoOpenTxn
  /\ armed' = armed \ Triggers[run[j].arm]
  /\ Step(j, "create")
  /\ UNCHANGED <<source, outbox, nextSeq, txn, replica, pos, faults>>

\* CREATE TRIGGER; an error if another job has recreated it meanwhile.
EnsureCreate(j) == LET ops == Triggers[run[j].arm] IN
  /\ At(j, "create") /\ SourceEngine # "ORACLE" /\ NoOpenTxn
  /\ armed' = armed \union ops
  /\ \/ /\ ops \intersect armed = {} /\ run[j].arm < Len(Triggers)
        /\ run' = [run EXCEPT ![j] = [@ EXCEPT !.pc = "dropNext", !.arm = run[j].arm + 1]]
     \/ /\ ops \intersect armed = {} /\ run[j].arm = Len(Triggers)
        /\ Step(j, "position")
     \/ ops \intersect armed # {} /\ Stop(j)
  /\ UNCHANGED <<source, outbox, nextSeq, txn, replica, pos, faults>>

-----------------------------------------------------------------------------
(* The first run: position, then snapshot (or the hub's mere baseline).    *)

\* maxSeq: 0 for an empty outbox, and 0 when the query fails.
IsMaxSeq(s) == \/ s = 0
               \/ /\ \E e \in outbox : e.seq = s
                  /\ \A e \in outbox : e.seq <= s

\* getWatermark, and maxSeq when there is none.
StartAtZero(j) ==
  /\ At(j, "position") /\ pos[j] >= 0
  /\ run' = [run EXCEPT ![j] = [@ EXCEPT !.pc = "drain", !.seq = 0]]
  /\ UNCHANGED <<source, armed, outbox, nextSeq, txn, replica, pos, faults>>
StartAtPosition(j) ==
  /\ At(j, "position") /\ pos[j] >= 0
  /\ run' = [run EXCEPT ![j] = [@ EXCEPT !.pc = "drain", !.seq = pos[j]]]
  /\ UNCHANGED <<source, armed, outbox, nextSeq, txn, replica, pos, faults>>

TakeMaxSeq(j) ==
  /\ At(j, "position") /\ pos[j] = -1
  /\ \E s \in 0..nextSeq :
       /\ IsMaxSeq(s)
       /\ run' = [run EXCEPT ![j] = [@ EXCEPT !.pc = IF Hub THEN "baseline" ELSE "fresh",
                                              !.seq = s]]
  /\ UNCHANGED <<source, armed, outbox, nextSeq, txn, replica, pos, faults>>

\* DestOps.ensure(..., fresh): drop and recreate the replica.
EnsureFresh(j) ==
  /\ At(j, "fresh") /\ Step(j, "page")
  /\ replica' = [replica EXCEPT ![j] = Empty]
  /\ UNCHANGED <<source, armed, outbox, nextSeq, txn, pos, faults>>

Beyond(c) == {k \in Keys : k > c /\ source[k] # Absent}
IsPage(P, c) ==
  /\ P \subseteq Beyond(c)
  /\ \A a \in P, b \in Beyond(c) \ P : a < b
  /\ (P = Beyond(c) /\ Cardinality(P) < BatchSize) \/ Cardinality(P) = BatchSize

\* pagedRead: one page of committed rows.
ReadPage(j) ==
  /\ At(j, "page")
  /\ \E P \in SUBSET Keys :
       /\ IsPage(P, run[j].cursor)
       /\ run' = [run EXCEPT ![j] =
                    [@ EXCEPT !.pc = IF P = {} THEN "baseline" ELSE "upsert",
                              !.short = Cardinality(P) < BatchSize,
                              !.img = [k \in Keys |-> IF k \in P THEN source[k] ELSE Absent]]]
  /\ UNCHANGED <<source, armed, outbox, nextSeq, txn, replica, pos, faults>>

\* DestOps.upsert of the page; the cursor moves to its last key.
InPage(j, k) == run[j].img[k] # Absent
UpsertPage(j) ==
  /\ At(j, "upsert")
  /\ replica' = [replica EXCEPT ![j] =
                   [k \in Keys |-> IF InPage(j, k) THEN run[j].img[k] ELSE replica[j][k]]]
  /\ \E last \in Keys :
       /\ InPage(j, last) /\ \A k \in Keys : InPage(j, k) => k <= last
       /\ run' = [run EXCEPT ![j] = [@ EXCEPT !.pc = IF run[j].short THEN "baseline" ELSE "page",
                                              !.cursor = last, !.img = Empty]]
  /\ UNCHANGED <<source, armed, outbox, nextSeq, txn, pos, faults>>

\* setWatermark(pos): the position taken before the snapshot.
SaveBaseline(j) ==
  /\ At(j, "baseline") /\ Stop(j)
  /\ pos' = [pos EXCEPT ![j] = run[j].seq]
  /\ UNCHANGED <<source, armed, outbox, nextSeq, txn, replica, faults>>

-----------------------------------------------------------------------------
(* Later runs: drain the outbox.                                           *)

Pending(s) == {e \in outbox : e.seq > s}

\* CdcCapture.read: the oldest changes after the position.
IsBatchAnyOrder(B, s) ==
  /\ B \subseteq Pending(s)
  /\ (B = Pending(s) /\ Cardinality(B) < BatchSize) \/ Cardinality(B) = BatchSize
IsBatch(B, s) ==
  /\ B \subseteq Pending(s)
  /\ \A a \in B, b \in Pending(s) \ B : a.seq < b.seq
  /\ (B = Pending(s) /\ Cardinality(B) < BatchSize) \/ Cardinality(B) = BatchSize

ReadChanges(j) ==
  /\ At(j, "drain")
  /\ \E B \in SUBSET outbox :
       /\ IsBatch(B, run[j].seq)
       /\ \/ B # {} /\ run' = [run EXCEPT ![j] = [@ EXCEPT !.pc = "apply", !.todo = B,
                                                           !.short = Cardinality(B) < BatchSize]]
          \/ B = {} /\ run[j].applied /\ Step(j, "prune")
          \/ B = {} /\ ~run[j].applied /\ Stop(j)
  /\ UNCHANGED <<source, armed, outbox, nextSeq, txn, replica, pos, faults>>

\* 'D' deletes the row, 'I' and 'U' upsert it.
ApplyChange(j) ==
  /\ At(j, "apply")
  /\ \E c \in run[j].todo :
       /\ \A d \in run[j].todo : c.seq <= d.seq
       /\ replica' = [replica EXCEPT ![j][c.key] = c.val]
       /\ run' = [run EXCEPT ![j] = [@ EXCEPT !.todo = run[j].todo \ {c}, !.seq = c.seq]]
  /\ UNCHANGED <<source, armed, outbox, nextSeq, txn, pos, faults>>

\* The position is saved once the whole batch is applied.
SavePosition(j) ==
  /\ At(j, "apply") /\ run[j].todo = {}
  /\ pos' = [pos EXCEPT ![j] = run[j].seq]
  /\ run' = [run EXCEPT ![j] = [@ EXCEPT !.pc = IF run[j].short THEN "prune" ELSE "drain",
                                         !.applied = TRUE]]
  /\ UNCHANGED <<source, armed, outbox, nextSeq, txn, replica, faults>>

\* Applied rows leave the outbox, which all jobs on the table share.  A job has
\* one run at a time: withLock sees to that within a process, and two processes
\* are assumed not to run the same job at once.
PruneEverything(j) ==
  /\ At(j, "prune") /\ Stop(j)
  /\ outbox' = {}
  /\ UNCHANGED <<source, armed, nextSeq, txn, replica, pos, faults>>
Prune(j) ==
  /\ At(j, "prune") /\ Stop(j)
  /\ outbox' = Pending(run[j].seq)
  /\ UNCHANGED <<source, armed, nextSeq, txn, replica, pos, faults>>

\* The process dies or a statement throws: the run is over (pruning included,
\* which is best effort), the next one starts from the watermark.
RunFails(j) ==
  /\ ~At(j, "off") /\ faults < MaxFaults
  /\ Stop(j)
  /\ faults' = faults + 1
  /\ UNCHANGED <<source, armed, outbox, nextSeq, txn, replica, pos>>

cdcRun(j) ==
  \/ EnsureReplace(j) \/ EnsureDrop(j) \/ EnsureCreate(j)
  \/ StartAtPosition(j) \/ TakeMaxSeq(j) \/ EnsureFresh(j)
  \/ ReadPage(j) \/ UpsertPage(j) \/ SaveBaseline(j)
  \/ ReadChanges(j) \/ ApplyChange(j) \/ SavePosition(j) \/ Prune(j)

Next ==
  \/ \E w \in Writers : \/ \E k \in Keys, v \in Row : Write(w, k, v)
                        \/ \E k, n \in Keys : WriteKey(w, k, n)
                        \/ Commit(w) \/ Rollback(w)
  \/ \E j \in Jobs : cdcRun(j) \/ RunFails(j)

Spec == Init /\ [][Next]_vars

\* The scheduler keeps running the jobs, source transactions end, and DDL that
\* queues for the table lock gets it (strong fairness: writers take it in
\* between); nothing makes the source write or a run fail.
FairSpec == /\ Spec
            /\ \A j \in Jobs : SF_vars(cdcRun(j))
            /\ \A w \in Writers : WF_vars(Commit(w) \/ Rollback(w))

-----------------------------------------------------------------------------
(* Properties.                                                             *)

Change == [seq : Nat \ {0}, key : Keys, val : Row]
Labels == {"off", "dropNext", "create", "position", "fresh", "page", "upsert", "baseline",
           "drain", "apply", "prune"}
RunType == [pc : Labels, arm : 1..Len(Triggers), seq : Nat, todo : SUBSET Change,
            short : BOOLEAN, applied : BOOLEAN, cursor : Nat, img : Image]

\* The shape of the state: outbox rows, open transactions, positions and runs.
TypeOK ==
  /\ source \in Image
  /\ armed \subseteq Ops
  /\ outbox \subseteq Change
  /\ nextSeq \in Nat \ {0}
  /\ txn \in [Writers -> [writes : SUBSET (Keys \X Row), change : SUBSET Change]]
  /\ replica \in [Jobs -> Image]
  /\ pos \in [Jobs -> Nat \union {-1}]
  /\ run \in [Jobs -> RunType]
  /\ faults \in Nat

PendingFor(k, s) == {e \in outbox : e.key = k /\ e.seq > s}

\* No committed change is lost to a job that has its position: the replica of a
\* row is current unless the outbox still holds a change of it for the job to
\* read, and the last of those is the row's current value.
NothingLost ==
  \A j \in Jobs : pos[j] >= 0 =>
    \A k \in Keys :
      \/ PendingFor(k, pos[j]) = {} /\ replica[j][k] = source[k]
      \/ \E e \in PendingFor(k, pos[j]) :
           e.val = source[k] /\ \A f \in PendingFor(k, pos[j]) : f.seq <= e.seq

\* The durable position only moves forward: a crash or a failed run never makes
\* a job forget what it applied.
PositionAdvances == [][\A j \in Jobs : pos'[j] >= pos[j]]_vars

\* "Prune applied outbox rows": a change leaves the outbox only once some job has
\* applied it and durably saved a position at or past it, so that a run that
\* dies while pruning has nothing to read again.  The other jobs on the table
\* get no such promise: what one has applied is gone for all of them, and with
\* two jobs NothingLost is false (cdcRun prunes by its own position alone).
PrunedWasApplied ==
  [][\A e \in outbox \ outbox' : \E j \in Jobs : pos[j] >= e.seq]_vars

\* Two jobs that race through DROP and CREATE of the same triggers, one of them
\* failing on the other's, never leave a job's table without them: an operation
\* whose trigger is missing is one that some run is about to restore.
TriggersRestored ==
  (\E j \in Jobs : pos[j] >= 0) =>
    \A op \in Ops \ armed :
      \E j \in Jobs : At(j, "create") /\ op \in Triggers[run[j].arm]

\* Once the source falls quiet, every replica becomes and stays equal to it.
Converges == \A j \in Jobs : <>[](replica[j] = source)
=============================================================================
