--------------------------- MODULE FabricSequences ---------------------------
(* The fabric's own sequence of one tenant, for engines that have none.       *)
EXTENDS Integers, Sequences

CONSTANTS Steps,       \* increments a caller may ask for
          MaxCount,    \* numbers per call
          MaxCalls     \* bound on calls

VARIABLES counter,     \* fabric_sequences: [v, inc, stored], or NoCounter
          handed,      \* numbers handed out, in order
          lastReset    \* how many had been handed out at the last reset

vars == <<counter, handed, lastReset>>

NoCounter == [v |-> 0, inc |-> 0, stored |-> FALSE]
Counter(v, inc) == [v |-> v, inc |-> inc, stored |-> TRUE]

Init == counter = NoCounter /\ handed = << >> /\ lastReset = 0

\* The conflicting insert moves the counter by one increment, whatever count is.
AdvanceByOne(start, inc, count) ==
    IF counter = NoCounter THEN Counter(start + inc * (count - 1), inc)
    ELSE [counter EXCEPT !.v = @ + counter.inc]

\* INSERT .. ON CONFLICT DO UPDATE: the first call fixes the increment, 0 as well.
Advance(start, inc, count) ==
    IF counter = NoCounter THEN Counter(start + inc * (count - 1), inc)
    ELSE [counter EXCEPT !.v = @ + counter.inc * count]

\* nextval: the numbers end at the counter's new value.
Nextval(start, inc, count) ==
    /\ Len(handed) + count <= MaxCalls
    /\ counter' = Advance(start, inc, count)
    /\ handed' = handed \o [i \in 1 .. count |-> counter'.v - counter'.inc * (count - i)]
    /\ UNCHANGED lastReset

\* The INSERT road of a document source: one number for each row without one.
NextDefault ==
    /\ counter # NoCounter /\ Len(handed) < MaxCalls
    /\ counter' = [counter EXCEPT !.v = @ + counter.inc]
    /\ handed' = Append(handed, counter'.v) /\ UNCHANGED lastReset

\* Every apply of a manifest that declares the sequence sets it back; there an
\* increment of 0 stands for 1.
ManifestStep(inc) == IF inc = 0 THEN 1 ELSE inc
ApplyManifest(start, inc) ==
    /\ counter' = Counter(start - ManifestStep(inc), ManifestStep(inc))
    /\ lastReset' = Len(handed) /\ UNCHANGED handed

Next ==
    \/ \E start \in {1, 2}, inc \in Steps, count \in 1 .. MaxCount : Nextval(start, inc, count)
    \/ NextDefault \/ \E inc \in Steps : ApplyManifest(1, inc)

Spec == Init /\ [][Next]_vars

\* No number is handed out twice, whatever starts, increments and counts the
\* callers ask for, until a manifest that declares the sequence is applied: unless
\* the first call fixed the increment at 0.  All callers get one number then, also
\* those that ask for another increment, and until such a manifest is applied.
NumbersAreFresh ==
    \/ counter.inc = 0
    \/ \A i, j \in lastReset + 1 .. Len(handed) : handed[i] = handed[j] => i = j
=============================================================================
