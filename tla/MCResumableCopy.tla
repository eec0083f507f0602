--------------------------- MODULE MCResumableCopy --------------------------
(* Small instances of ResumableCopy for TLC. *)
EXTENDS ResumableCopy, TLC

CONSTANTS w1, w2

OneWorker == {w1}
TwoWorkers == {w1, w2}
FourRows == 1..4
ThreeRows == 1..3

\* single-column primary key
SingleColumn == [r \in Rows |-> r]
\* composite primary key: rows 2 and 3 agree on its first column
Composite == [r \in Rows |-> IF r = 3 THEN 2 ELSE r]
=============================================================================
