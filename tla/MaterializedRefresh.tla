------------------------- MODULE MaterializedRefresh -------------------------
(* Refreshing a materialized view that the fabric keeps in an ordinary table: *)
(* run the query, TRUNCATE, insert the rows one by one, each its own          *)
(* statement.  A row is the version of the source data it was computed from.  *)
EXTENDS Integers, Sequences, FiniteSets

CONSTANTS Refreshers,   \* refresh requests that may overlap
          MaxRows,      \* rows the query may return
          MaxData       \* versions of the source data

VARIABLES data,        \* version of the source data
          view,        \* rows of the table, in insertion order
          refresh,     \* per request: [pc, rows, left, clean]
          expected     \* rows of the last whole refresh, or Unknown after a broken one

vars == <<data, view, refresh, expected>>

NoRefresh == [pc |-> "idle", rows |-> << >>, left |-> << >>, clean |-> TRUE]
Unknown == <<0>>
Writing == {r \in Refreshers : refresh[r].pc = "insert"}

Init == /\ data = 1 /\ view = << >> /\ expected = << >>
        /\ refresh = [r \in Refreshers |-> NoRefresh]

ChangeData == data < MaxData /\ data' = data + 1 /\ UNCHANGED <<view, refresh, expected>>

\* The definition's query; no rows means nothing is written at all.
RunQuery(r, n) ==
    /\ refresh[r] = NoRefresh /\ n > 0
    /\ LET rows == [i \in 1 .. n |-> data]
       IN  refresh' = [refresh EXCEPT ![r] = [pc |-> "truncate", rows |-> rows, left |-> rows, clean |-> TRUE]]
    /\ UNCHANGED <<data, view, expected>>

\* The table is not emptied.
TruncateNever(r) ==
    /\ refresh[r].pc = "truncate"
    /\ refresh' = [q \in Refreshers |->
         IF q = r THEN [refresh[r] EXCEPT !.pc = "insert", !.clean = Writing = {}]
         ELSE [refresh[q] EXCEPT !.clean = @ /\ refresh[q].pc # "insert"]]
    /\ UNCHANGED <<data, view, expected>>

\* A refresh that finds another one inserting takes its rows away.
Truncate(r) ==
    /\ refresh[r].pc = "truncate"
    /\ refresh' = [q \in Refreshers |->
         IF q = r THEN [refresh[r] EXCEPT !.pc = "insert", !.clean = Writing = {}]
         ELSE [refresh[q] EXCEPT !.clean = @ /\ refresh[q].pc # "insert"]]
    /\ view' = << >> /\ UNCHANGED <<data, expected>>

InsertRow(r) ==
    /\ refresh[r].pc = "insert" /\ refresh[r].left # << >>
    /\ view' = Append(view, Head(refresh[r].left))
    /\ refresh' = [refresh EXCEPT ![r].left = Tail(@)]
    /\ UNCHANGED <<data, expected>>

Finish(r) ==
    /\ refresh[r].pc = "insert" /\ refresh[r].left = << >>
    /\ expected' = IF refresh[r].clean THEN refresh[r].rows ELSE Unknown
    /\ refresh' = [refresh EXCEPT ![r] = NoRefresh] /\ UNCHANGED <<data, view>>

\* A row that cannot be inserted, or a crash, leaves the table half filled.
Fails(r) ==
    /\ refresh[r] # NoRefresh
    /\ expected' = IF refresh[r].pc = "insert" THEN Unknown ELSE expected
    /\ refresh' = [refresh EXCEPT ![r] = NoRefresh] /\ UNCHANGED <<data, view>>

Next == ChangeData \/ \E r \in Refreshers :
    \/ \E n \in 0 .. MaxRows : RunQuery(r, n)
    \/ Truncate(r) \/ InsertRow(r) \/ Finish(r) \/ Fails(r)

Spec == Init /\ [][Next]_vars

\* While no refresh is writing, the table holds exactly the rows of the last
\* refresh, all of one version, unless that refresh failed after its TRUNCATE
\* or another wrote at the same time.
QuietViewIsWhole == Writing = {} /\ expected # Unknown => view = expected
=============================================================================
