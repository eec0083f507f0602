---------------------------- MODULE MCCopyJobQueue --------------------------
(* Small instances of CopyJobQueue for TLC. *)
EXTENDS CopyJobQueue, TLC

CONSTANTS p1, p2, c1, c2

OneProcess == {p1}
TwoProcesses == {p1, p2}
TwoCalls == {c1, c2}
\* overlapping ticks of one process; one call in each of two processes
SameProcess == [c \in Calls |-> p1]
ApartProcesses == [c \in Calls |-> IF c = c1 THEN p1 ELSE p2]
=============================================================================
