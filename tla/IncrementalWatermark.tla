------------------------ MODULE IncrementalWatermark -------------------------
(* INCREMENTAL replication and the watermark refresh of hub tables: a full    *)
(* load records the highest value of a tracking column, later runs read the   *)
(* rows above it.  The pages, checkpoints and retries of the full load are    *)
(* ResumableCopy's subject; here it copies the rows in key order.             *)
EXTENDS Integers, FiniteSets, FiniteSetsExt

CONSTANTS Rows,        \* keys of the source table, 1 .. n
          Cap,         \* rows one incremental run reads (CAP, COPY_CAP)
          MaxTime,     \* bound: values of the tracking column
          MaxVersions  \* bound: writes of the source table

VARIABLES job,       \* destination, initial load and tracking column
          table,     \* the source: Absent or [mark, version] per key
          open,      \* the source's open transaction, or NoTx
          time,      \* the source's clock (or id sequence)
          versions,  \* writes so far
          copy,      \* the replica
          mark,      \* the durable watermark, 0 when there is none
          load,      \* the full load: [on, next key, resumed]
          delta,     \* the incremental run: [on, batch]
          partial,   \* ghost: a full load has begun and not ended
          exposed    \* ghost: rows whose last write the scheme cannot see

vars == <<job, table, open, time, versions, copy, mark, load, delta, partial, exposed>>

Absent == [mark |-> 0, version |-> 0]
NoTx == [key |-> 0, mark |-> 0]
NoDelta == [on |-> FALSE, batch |-> << >>]
NoLoad == [on |-> FALSE, next |-> 0, resumed |-> FALSE]
Live(t) == {k \in Rows : t[k] # Absent}
MaxMark(ms) == IF ms = {} THEN 0 ELSE Max(ms)

----------------------------------------------------------------------------
(* The tracking column                                                       *)

Columns == {"update_ts", "create_ts", "other_ts", "id"}

Captures(c) == IF c \in {"update_ts", "other_ts"} THEN "inserts+updates" ELSE "inserts"

\* analyzeTracking: an update timestamp before a creation timestamp before any
\* other timestamp before an ascending id.
AnalyzeTracking(cols) ==
    IF "update_ts" \in cols THEN "update_ts" ELSE IF "create_ts" \in cols THEN "create_ts"
    ELSE IF "other_ts" \in cols THEN "other_ts" ELSE "id"

\* `updates`: the column moves with every update.  A timestamp of no known
\* meaning is taken to capture updates and may not.
Jobs == {[dest |-> d[1], initial |-> d[2],
          updates |-> Captures(AnalyzeTracking(cols)) = "inserts+updates" /\ AnalyzeTracking(cols) # "other_ts"] :
            d \in {<<"replica", "FULL">>, <<"replica", "NONE">>, <<"hub", "FULL">>},
            cols \in SUBSET Columns \ {{}}}

Init ==
    /\ job \in Jobs
    /\ table = [k \in Rows |-> IF k = 1 THEN [mark |-> 1, version |-> 1] ELSE Absent]
    /\ open = NoTx /\ time = 1 /\ versions = 1
    /\ copy = [k \in Rows |-> Absent] /\ mark = 0
    /\ load = NoLoad /\ delta = NoDelta /\ partial = FALSE /\ exposed = {}

----------------------------------------------------------------------------
(* The source                                                                *)

Tick == /\ time < MaxTime /\ time' = time + 1
        /\ UNCHANGED <<job, table, open, versions, copy, mark, load, delta, partial, exposed>>

\* A transaction takes its timestamp when it begins.
BeginWrite(k) ==
    /\ open = NoTx /\ versions < MaxVersions
    /\ open' = [key |-> k, mark |-> time]
    /\ UNCHANGED <<job, table, time, versions, copy, mark, load, delta, partial, exposed>>

\* Inserts carry a new value; updates move only an update timestamp.
Moves(k) == table[k] = Absent \/ job.updates

\* A write is invisible to the scheme when it lands at or below a mark that
\* has been, or is about to be, recorded, or while the full load is running.
Hidden(m) ==
    partial \/ m <= MaxMark({mark} \cup {delta.batch[i].mark : i \in DOMAIN delta.batch})

CommitWrite ==
    /\ open # NoTx
    /\ LET k == open.key
           m == IF Moves(k) THEN open.mark ELSE table[k].mark
       IN  /\ table' = [table EXCEPT ![k] = [mark |-> m, version |-> versions + 1]]
           /\ exposed' = IF ~Moves(k) THEN exposed ELSE IF Hidden(m) THEN exposed \cup {k} ELSE exposed \ {k}
    /\ versions' = versions + 1 /\ open' = NoTx
    /\ UNCHANGED <<job, time, copy, mark, load, delta, partial>>

Delete(k) ==
    /\ table[k] # Absent /\ open = NoTx
    /\ table' = [table EXCEPT ![k] = Absent]
    /\ UNCHANGED <<job, open, time, versions, copy, mark, load, delta, partial, exposed>>

----------------------------------------------------------------------------
(* The full load                                                             *)

\* A replication run holds one lock per job; the hub's backfill and refresh
\* hold different ones and may overlap.
LoadMayRun == ~load.on /\ (job.dest = "replica" => ~delta.on)
DeltaMayRun == ~delta.on /\ (job.dest = "replica" => ~load.on)

\* A first run, forceFull, or a backfill: the replica is dropped and rebuilt.
StartLoad ==
    /\ LoadMayRun
    /\ copy' = [k \in Rows |-> Absent] /\ exposed' = {} /\ partial' = TRUE
    /\ load' = [on |-> TRUE, next |-> 1, resumed |-> FALSE]
    /\ UNCHANGED <<job, table, open, time, versions, mark, delta>>

ResumeLoad ==
    /\ LoadMayRun /\ partial
    /\ load' = [on |-> TRUE, next |-> load.next, resumed |-> TRUE]
    /\ UNCHANGED <<job, table, open, time, versions, copy, mark, delta, partial, exposed>>

\* A fresh load inserts, so a row that a refresh has put there is an error;
\* a resumed one upserts.
LoadRow ==
    /\ load.on /\ load.next \in Rows
    /\ LET k == load.next IN
          /\ table[k] # Absent => load.resumed \/ copy[k] = Absent
          /\ copy' = IF table[k] = Absent THEN copy ELSE [copy EXCEPT ![k] = table[k]]
    /\ load' = [load EXCEPT !.next = @ + 1]
    /\ UNCHANGED <<job, table, open, time, versions, mark, delta, partial, exposed>>

LoadFails ==
    /\ load.on /\ load' = [load EXCEPT !.on = FALSE]
    /\ UNCHANGED <<job, table, open, time, versions, copy, mark, delta, partial, exposed>>

\* recordMaxWatermark asks the source (best effort: it may fail), the hub's
\* recordWatermark asks the replica.
RecordMark ==
    /\ load.on /\ load.next \notin Rows
    /\ mark' \in IF job.dest = "hub" THEN {MaxMark({copy[k].mark : k \in Rows})}
                 ELSE {mark, IF Live(table) = {} THEN mark ELSE MaxMark({table[k].mark : k \in Rows})}
    /\ load' = NoLoad /\ partial' = FALSE
    /\ UNCHANGED <<job, table, open, time, versions, copy, delta, exposed>>

\* initial_load NONE: the mark is recorded and nothing is copied.
Baseline ==
    /\ job.initial = "NONE" /\ mark = 0 /\ LoadMayRun
    /\ mark' = MaxMark({table[k].mark : k \in Rows})
    /\ exposed' = exposed \cup {k \in Rows : copy[k] # table[k]}
    /\ UNCHANGED <<job, table, open, time, versions, copy, load, delta, partial>>

----------------------------------------------------------------------------
(* The incremental run                                                       *)

Above(m) == {k \in Rows : table[k].mark > m}

\* The newest rows first.
IsBatchNewestFirst(b) ==
    /\ Cardinality(b) = IF Cardinality(Above(mark)) < Cap THEN Cardinality(Above(mark)) ELSE Cap
    /\ \A k \in b, i \in Above(mark) \ b : table[k].mark >= table[i].mark

\* WHERE column > mark ORDER BY column ASC LIMIT Cap.
IsBatch(b) ==
    /\ Cardinality(b) = IF Cardinality(Above(mark)) < Cap THEN Cardinality(Above(mark)) ELSE Cap
    /\ \A k \in b, i \in Above(mark) \ b : table[k].mark <= table[i].mark

\* Rows that tie with the last one of a full batch will be below the mark.
Cut(b) == {i \in Above(mark) \ b : table[i].mark = MaxMark({table[k].mark : k \in b})}

StartDelta ==
    /\ DeltaMayRun /\ (job.dest = "replica" => mark > 0)
    /\ \E b \in SUBSET Above(mark) :
          /\ b # {} /\ IsBatch(b)
          /\ delta' = [on |-> TRUE, batch |-> [k \in b |-> table[k]]]
          /\ exposed' = exposed \cup Cut(b)
    /\ UNCHANGED <<job, table, open, time, versions, copy, mark, load, partial>>

\* Upserts of the rows read; a row can be older than the replica's when a
\* backfill overlaps the refresh.
Upserted(b) == [k \in Rows |-> IF k \in b THEN delta.batch[k] ELSE copy[k]]
Overwritten(b) == {k \in b : copy[k].version > delta.batch[k].version}

ApplyAndMark ==
    /\ delta.on
    /\ LET b == DOMAIN delta.batch IN
          /\ copy' = Upserted(b) /\ exposed' = exposed \cup Overwritten(b)
          /\ mark' = MaxMark({delta.batch[k].mark : k \in b})
    /\ delta' = NoDelta
    /\ UNCHANGED <<job, table, open, time, versions, load, partial>>

\* The run dies after some of the upserts, or before the mark is written.
DeltaDies ==
    /\ delta.on
    /\ \E b \in SUBSET DOMAIN delta.batch :
          /\ copy' = Upserted(b) /\ exposed' = exposed \cup Overwritten(b)
    /\ delta' = NoDelta
    /\ UNCHANGED <<job, table, open, time, versions, mark, load, partial>>

Next ==
    \/ Tick \/ CommitWrite \/ \E k \in Rows : BeginWrite(k) \/ Delete(k)
    \/ StartLoad \/ ResumeLoad \/ LoadRow \/ LoadFails \/ RecordMark \/ Baseline
    \/ StartDelta \/ ApplyAndMark \/ DeltaDies

Spec == Init /\ [][Next]_vars

----------------------------------------------------------------------------
(* Properties                                                                *)

\* Everything at or below the watermark is in the replica, at its current
\* version when the tracking column is said to capture updates, except for the
\* writes named in the ghost variable: those made during the load, committed
\* late, or cut off a full batch at a tie.
MarkIsCovered ==
    partial \/ \A k \in Live(table) \ exposed :
        table[k].mark <= mark =>
            /\ copy[k] # Absent
            /\ job.updates => copy[k] = table[k]
=============================================================================
