------------------------- MODULE ResumableCopyProofs ------------------------
(* Proofs about ResumableCopy, for every table, page size and fault count. *)
EXTENDS ResumableCopy, FiniteSetTheorems, TLAPS

-----------------------------------------------------------------------------
(* Type correctness.                                                       *)

\* Sets of rows are finite, so a page has a length.
LEMMA RowSetsFinite ==
  ASSUME NEW P, P \subseteq Rows
  PROVE  Cardinality(P) \in Nat /\ (Cardinality(P) = 0 <=> P = {})
BY RowsAssumption, FS_Subset, FS_CardinalityType, FS_EmptySet

\* A page of the table ends at a natural number (a key or an offset).
LEMMA PageEndsType ==
  ASSUME NEW P, P \subseteq Rows, NEW c \in Nat
  PROVE  PageEnds(P, c) \subseteq Nat
BY RowSetsFinite, KeyAssumption DEF PageEnds

\* A worker outside copyTable has well-typed locals.
LEMMA NoCallType == NoCall \in CallType
BY DEF NoCall, CallType, Labels

\* What checkpointProvider saves is a well-typed checkpoint row.
LEMMA CheckpointType ==
  ASSUME NEW c \in Nat, NEW n \in Nat, NEW d \in BOOLEAN
  PROVE  Checkpoint(c, n, d) \in CkptType
BY DEF Checkpoint, CkptType

\* Updating the label keeps the type of the call.
LEMMA GotoType ==
  ASSUME NEW w \in Workers, NEW l \in Labels, call \in [Workers -> CallType], Goto(w, l)
  PROVE  call' \in [Workers -> CallType]
BY DEF Goto, CallType

\* Starting a copy (from a cursor, or from scratch) keeps the type of the call.
LEMMA EnterType ==
  ASSUME NEW w \in Workers, NEW l \in Labels, NEW res \in BOOLEAN, NEW c \in Nat, NEW n \in Nat,
         call \in [Workers -> CallType], Enter(w, l, res, c, n)
  PROVE  call' \in [Workers -> CallType]
BY DEF Enter, CallType

\* So does holding a freshly read page ...
LEMMA ReadType ==
  ASSUME NEW c \in CallType, NEW l \in Labels, NEW P \in SUBSET Rows
  PROVE  [c EXCEPT !.pc = l, !.page = P, !.todo = P] \in CallType
BY DEF CallType

\* ... and moving the cursor past a written one ...
LEMMA MoveType ==
  ASSUME NEW c \in CallType, NEW l \in Labels, NEW e \in Nat, NEW n \in Nat
  PROVE  [c EXCEPT !.pc = l, !.cursor = e, !.rows = n] \in CallType
BY DEF CallType

\* ... and leaving copyTable.
LEMMA ExitType ==
  ASSUME NEW w \in Workers, call \in [Workers -> CallType], Exit(w)
  PROVE  call' \in [Workers -> CallType]
BY NoCallType DEF Exit

USE RowsAssumption, KeyAssumption, BoundsAssumption, FlagAssumption

\* A job is created in a well-typed state.
LEMMA TypeInit == Init => TypeOK
<1> SUFFICES ASSUME Init PROVE TypeOK
  OBVIOUS
<1>1. ckpt \in CkptType
  BY DEF Init, NoCheckpoint, CkptType
<1>2. call \in [Workers -> CallType]
  BY NoCallType DEF Init
<1>3. faults \in 0..MaxFaults /\ replica \in [Rows -> Nat]
  BY DEF Init
<1> QED BY <1>1, <1>2, <1>3 DEF Init, TypeOK

\* Every statement of a worker, every fault and every step of the environment
\* keeps the types.
LEMMA TypeStep == TypeOK /\ [Next]_vars => TypeOK'
<1> SUFFICES ASSUME TypeOK, [Next]_vars PROVE TypeOK'
  OBVIOUS
<1> USE DEF TypeOK
<1>1. ASSUME NEW w \in Workers, GetStart(w) PROVE TypeOK'
  <2>1. ckpt.cursor \in Nat /\ ckpt.rows \in Nat
    BY DEF CkptType
  <2>2. \A l \in {"tableDone", "probe", "prepare", "drop"} : l \in Labels
    BY DEF Labels
  <2>3. CASE Goto(w, "tableDone")
    BY <1>1, <2>2, <2>3, GotoType DEF GetStart
  <2>4. CASE \E l \in {"probe", "prepare"} : Enter(w, l, TRUE, ckpt.cursor, ckpt.rows)
    <3>1. PICK l \in {"probe", "prepare"} : Enter(w, l, TRUE, ckpt.cursor, ckpt.rows)
      BY <2>4
    <3> QED BY <1>1, <2>1, <2>2, <3>1, EnterType DEF GetStart
  <2>5. CASE Enter(w, "drop", FALSE, 0, 0)
    BY <1>1, <2>2, <2>5, EnterType DEF GetStart
  <2> QED BY <1>1, <2>3, <2>4, <2>5 DEF GetStart
<1>2. ASSUME NEW w \in Workers, ProbeReplica(w) PROVE TypeOK'
  <2>1. "prepare" \in Labels /\ "drop" \in Labels
    BY DEF Labels
  <2>2. CASE Goto(w, "prepare")
    BY <1>2, <2>1, <2>2, GotoType DEF ProbeReplica
  <2>3. CASE Enter(w, "drop", FALSE, 0, 0)
    BY <1>2, <2>1, <2>3, EnterType DEF ProbeReplica
  <2> QED BY <1>2, <2>2, <2>3 DEF ProbeReplica
<1>3. ASSUME NEW w \in Workers, DropTable(w) PROVE TypeOK'
  BY <1>3, GotoType DEF DropTable, Labels
<1>4. ASSUME NEW w \in Workers, CreateTable(w) PROVE TypeOK'
  BY <1>4, GotoType, ExitType DEF CreateTable, Labels
<1>5. ASSUME NEW w \in Workers, CreateIfNotExists(w) PROVE TypeOK'
  BY <1>5, GotoType DEF CreateIfNotExists, Labels
<1>6. ASSUME NEW w \in Workers, SaveStart(w) PROVE TypeOK'
  <2>1. call[w].cursor \in Nat /\ call[w].rows \in Nat
    BY DEF CallType
  <2> QED BY <1>6, <2>1, GotoType, CheckpointType DEF SaveStart, Labels
<1>7. ASSUME NEW w \in Workers, ReadPage(w) PROVE TypeOK'
  <2>1. PICK P \in SUBSET source :
          call' = [call EXCEPT ![w] = [@ EXCEPT !.pc = IF P = {} THEN "finish" ELSE "write",
                                                !.page = P, !.todo = P]]
    BY <1>7 DEF ReadPage
  <2>2. (IF P = {} THEN "finish" ELSE "write") \in Labels
    BY DEF Labels
  <2>3. call' \in [Workers -> CallType]
    BY <2>1, <2>2, ReadType
  <2> QED BY <1>7, <2>3 DEF ReadPage
<1>8. ASSUME NEW w \in Workers, WriteRow(w) PROVE TypeOK'
  <2>1. PICK r \in call[w].todo :
          \/ /\ replica' = Written(w, r) /\ exists' = TRUE
             /\ call' = [call EXCEPT ![w].todo = @ \ {r}] /\ status' = status
          \/ /\ Exit(w) /\ status' = "FAILED" /\ UNCHANGED <<replica, exists>>
    BY <1>8 DEF WriteRow
  <2>2. r \in Rows
    BY DEF CallType
  <2>3. Written(w, r) \in [Rows -> Nat]
    <3>1. [replica EXCEPT ![r] = @ + 1] \in [Rows -> Nat]
      BY <2>2
    <3>2. [replica EXCEPT ![r] = 1] \in [Rows -> Nat]
      BY <2>2
    <3>3. [x \in Rows |-> IF x = r THEN 1 ELSE IF keyOf[x] = keyOf[r] THEN 0 ELSE replica[x]]
            \in [Rows -> Nat]
      OBVIOUS
    <3> QED BY <3>1, <3>2, <3>3, Zenon DEF Written
  <2>4. call' = [call EXCEPT ![w].todo = @ \ {r}] => call' \in [Workers -> CallType]
    BY DEF CallType
  <2> QED BY <1>8, <2>1, <2>3, <2>4, ExitType DEF WriteRow
<1>9. ASSUME NEW w \in Workers, SaveProgress(w) PROVE TypeOK'
  <2> DEFINE n == call[w].rows + Cardinality(call[w].page)
  <2>0. call[w].page \subseteq Rows /\ call[w].cursor \in Nat /\ call[w].rows \in Nat
    BY DEF CallType
  <2>1. n \in Nat
    BY <2>0, RowSetsFinite
  <2>2. PageEnds(call[w].page, call[w].cursor) \subseteq Nat
    BY <2>0, PageEndsType
  <2>3. PICK e \in PageEnds(call[w].page, call[w].cursor) :
          /\ ckpt' = Checkpoint(e, n, FALSE)
          /\ \/ /\ \E l \in {"finish", "loop"} :
                    call' = [call EXCEPT ![w] = [@ EXCEPT !.pc = l, !.cursor = e, !.rows = n]]
                /\ UNCHANGED status
             \/ Exit(w) /\ status' = "FAILED"
    BY <1>9, Zenon DEF SaveProgress, Advance
  <2> HIDE DEF n
  <2>4. e \in Nat
    BY <2>2
  <2>5. ASSUME NEW l \in {"finish", "loop"},
               call' = [call EXCEPT ![w] = [@ EXCEPT !.pc = l, !.cursor = e, !.rows = n]]
        PROVE  call' \in [Workers -> CallType]
    BY <2>1, <2>4, <2>5, MoveType DEF Labels
  <2>6. call' \in [Workers -> CallType]
    BY <2>3, <2>5, ExitType
  <2> QED BY <1>9, <2>1, <2>3, <2>4, <2>6, CheckpointType DEF SaveProgress
<1>10. ASSUME NEW w \in Workers, SaveDone(w) PROVE TypeOK'
  <2>1. call[w].cursor \in Nat /\ call[w].rows \in Nat
    BY DEF CallType
  <2> QED BY <1>10, <2>1, GotoType, CheckpointType DEF SaveDone, Labels
<1>11. ASSUME NEW w \in Workers, CompleteJob(w) PROVE TypeOK'
  BY <1>11, ExitType DEF CompleteJob
<1>12. ASSUME NEW w \in Workers, StopForPause(w) PROVE TypeOK'
  BY <1>12, ExitType DEF StopForPause
<1>13. ASSUME NEW w \in Workers, TableError(w) PROVE TypeOK'
  BY <1>13, ExitType DEF TableError
<1>14. ASSUME NEW w \in Workers, Crash(w) PROVE TypeOK'
  BY <1>14, ExitType DEF Crash
<1>15. CASE ResumeJob
  BY <1>15 DEF ResumeJob
<1>16. ASSUME NEW r \in Rows, SourceChange(r) PROVE TypeOK'
  BY <1>16 DEF SourceChange
<1>17. CASE DropReplica
  BY <1>17 DEF DropReplica
<1>18. CASE UNCHANGED vars
  BY <1>18 DEF vars
<1> QED BY <1>1, <1>2, <1>3, <1>4, <1>5, <1>6, <1>7, <1>8, <1>9, <1>10, <1>11, <1>12,
           <1>13, <1>14, <1>15, <1>16, <1>17, <1>18 DEF Next, CopyStep

\* Every variable keeps its type, in every setting of the constants.
THEOREM CopyTypeOK == Spec => []TypeOK
BY TypeInit, TypeStep, PTL DEF Spec

-----------------------------------------------------------------------------
(* Nothing is lost.  In the setting the job engine means to establish (one *)
(* live worker per job, a single-column key, a replica nobody drops), the  *)
(* saved cursor is always covered by the replica, and so is the whole      *)
(* table once the job is COMPLETED.                                        *)

IntendedSetting == HasKey /\ UniqueKey /\ ~StaleWhileAlive /\ Drops = {}

Unchanged == source \ touched
CoveredTo(c) == \A r \in Unchanged : keyOf[r] <= c => replica[r] >= 1
AllCovered == \A r \in Unchanged : replica[r] >= 1

\* One call at a time, and only of an active job; a fresh copy means no
\* checkpoint was ever saved, a saved one means the replica exists.
Sessions ==
  /\ \A a, b \in Workers : Active(a) /\ Active(b) => a = b
  /\ \A w \in Workers : Active(w) => status = "ACTIVE"
  /\ \A w \in Workers : Active(w) /\ ~At(w, "tableDone") => ~ckpt.done
  /\ \A w \in Workers : At(w, "drop") \/ At(w, "create") => ~ckpt.saved
  /\ ckpt.saved => exists
  /\ \A w \in Workers :
       At(w, "mark") \/ At(w, "loop") \/ At(w, "write") \/ At(w, "finish") => exists
  /\ \A w \in Workers : At(w, "idle") \/ At(w, "drop") \/ At(w, "create") => call[w].cursor = 0

\* While a page is written: every unchanged row up to its end is in it, a
\* short page holds all the rest, and what left todo is in the replica.
PageInv(w) ==
  /\ \A r \in Unchanged, x \in call[w].page :
        keyOf[r] > call[w].cursor /\ keyOf[r] <= keyOf[x] => r \in call[w].page
  /\ LastPage(call[w].page) =>
        \A r \in Unchanged : keyOf[r] > call[w].cursor => r \in call[w].page
  /\ \A r \in call[w].page : r \in call[w].todo \/ replica[r] >= 1

Coverage ==
  /\ ckpt.saved => CoveredTo(ckpt.cursor)
  /\ ckpt.done => ckpt.saved /\ AllCovered
  /\ \A w \in Workers : CoveredTo(call[w].cursor)
  /\ \A w \in Workers : At(w, "write") => PageInv(w)
  /\ \A w \in Workers : At(w, "finish") => AllCovered
  /\ \A w \in Workers : At(w, "tableDone") => ckpt.done
  /\ status = "COMPLETED" => ckpt.done

CopyInv == TypeOK /\ Sessions /\ Coverage

-----------------------------------------------------------------------------
(* What the three ways to leave a step do to the calls.                    *)

Others(w) == \A x \in Workers : x # w => call'[x] = call[x]
SameLocals(w) == /\ call'[w].cursor = call[w].cursor
                 /\ call'[w].page = call[w].page /\ call'[w].todo = call[w].todo

\* A mere change of label keeps the locals and the other workers' calls.
LEMMA GotoFacts ==
  ASSUME NEW w \in Workers, NEW l, call \in [Workers -> CallType], Goto(w, l)
  PROVE  call'[w].pc = l /\ SameLocals(w) /\ Others(w)
BY DEF Goto, CallType, SameLocals, Others

\* Starting a copy sets the cursor and leaves the other calls alone.
LEMMA EnterFacts ==
  ASSUME NEW w \in Workers, NEW l, NEW res, NEW c, NEW n,
         call \in [Workers -> CallType], Enter(w, l, res, c, n)
  PROVE  call'[w].pc = l /\ call'[w].cursor = c /\ Others(w)
BY DEF Enter, Others

\* Leaving a copy forgets the cursor and leaves the other calls alone.
LEMMA ExitFacts ==
  ASSUME NEW w \in Workers, call \in [Workers -> CallType], Exit(w)
  PROVE  call'[w].pc = "idle" /\ call'[w].cursor = 0 /\ Others(w)
BY DEF Exit, NoCall, Others

\* CopyInv holds when the job is created: nothing is saved, nothing claimed.
LEMMA InvInit == Init => CopyInv
<1> SUFFICES ASSUME Init PROVE Sessions /\ Coverage
  BY TypeInit DEF CopyInv
<1>1. \A w \in Workers : call[w].pc = "idle" /\ call[w].cursor = 0
  BY DEF Init, NoCall
<1>2. ~ckpt.saved /\ ~ckpt.done /\ status = "ACTIVE"
  BY DEF Init, NoCheckpoint
<1>3. Sessions
  BY <1>1, <1>2 DEF Sessions, Active, At
<1>4. CoveredTo(0)
  BY DEF CoveredTo, Unchanged, Init
<1> QED BY <1>1, <1>2, <1>3, <1>4 DEF Coverage, At

\* Every step of a worker, of the source and of a fault preserves CopyInv.
LEMMA InvStep == IntendedSetting /\ CopyInv /\ [Next]_vars => CopyInv'
<1> SUFFICES ASSUME IntendedSetting, CopyInv, [Next]_vars PROVE Sessions' /\ Coverage'
  BY TypeStep DEF CopyInv
<1> USE DEF CopyInv, TypeOK
<1>a. Unchanged \subseteq Rows
  BY DEF Unchanged
<1>b. CoveredTo(0)
  BY <1>a DEF CoveredTo
<1>1. ASSUME NEW w \in Workers, GetStart(w) PROVE Sessions' /\ Coverage'
  <2>1. \A x \in Workers : At(x, "idle")
    BY <1>1 DEF GetStart, IntendedSetting, Active
  <2>2. UNCHANGED <<source, touched, replica, exists, ckpt, status>> /\ status = "ACTIVE"
    BY <1>1 DEF GetStart
  <2>3. CASE ckpt.done /\ Goto(w, "tableDone")
    <3>1. call'[w].pc = "tableDone" /\ SameLocals(w) /\ Others(w)
      BY <2>3, GotoFacts
    <3> QED BY <2>1, <2>2, <2>3, <3>1
        DEF Sessions, Coverage, Active, At, Others, SameLocals, CoveredTo, AllCovered, PageInv, Unchanged
  <2>4. CASE ~ckpt.done /\ CanResume /\ \E l \in {"probe", "prepare"} :
               Enter(w, l, TRUE, ckpt.cursor, ckpt.rows)
    <3>1. call'[w].pc \in {"probe", "prepare"} /\ call'[w].cursor = ckpt.cursor /\ Others(w)
      BY <2>4, EnterFacts
    <3> QED BY <2>1, <2>2, <2>4, <3>1
        DEF Sessions, Coverage, Active, At, Others, CanResume, CoveredTo, AllCovered, PageInv, Unchanged
  <2>5. CASE ~ckpt.done /\ ~CanResume /\ Enter(w, "drop", FALSE, 0, 0)
    <3>1. call'[w].pc = "drop" /\ call'[w].cursor = 0 /\ Others(w)
      BY <2>5, EnterFacts
    <3>2. ~ckpt.saved
      BY <2>5 DEF CanResume, IntendedSetting
    <3> QED BY <1>b, <2>1, <2>2, <2>5, <3>1, <3>2
        DEF Sessions, Coverage, Active, At, Others, CoveredTo, AllCovered, PageInv, Unchanged
  <2> QED BY <1>1, <2>3, <2>4, <2>5 DEF GetStart
<1>2. ASSUME NEW w \in Workers, ProbeReplica(w) PROVE Sessions' /\ Coverage'
  <2>1. UNCHANGED <<source, touched, replica, exists, ckpt, status>> /\ At(w, "probe")
    BY <1>2 DEF ProbeReplica
  <2>2. CASE exists /\ Goto(w, "prepare")
    <3>1. call'[w].pc = "prepare" /\ SameLocals(w) /\ Others(w)
      BY <2>2, GotoFacts
    <3> QED BY <2>1, <2>2, <3>1
        DEF Sessions, Coverage, Active, At, Others, SameLocals, CoveredTo, AllCovered, PageInv, Unchanged
  <2>3. CASE ~exists /\ Enter(w, "drop", FALSE, 0, 0)
    <3>1. call'[w].pc = "drop" /\ call'[w].cursor = 0 /\ Others(w)
      BY <2>3, EnterFacts
    <3> QED BY <1>b, <2>1, <2>3, <3>1
        DEF Sessions, Coverage, Active, At, Others, CoveredTo, AllCovered, PageInv, Unchanged
  <2> QED BY <1>2, <2>2, <2>3 DEF ProbeReplica
<1>3. ASSUME NEW w \in Workers, DropTable(w) PROVE Sessions' /\ Coverage'
  <2>1. call'[w].pc = "create" /\ SameLocals(w) /\ Others(w)
    BY <1>3, GotoFacts DEF DropTable
  <2>2. ~ckpt.saved /\ ~ckpt.done /\ call[w].cursor = 0
    BY <1>3 DEF DropTable, Sessions, Active, At
  <2>3. \A x \in Workers : x # w => At(x, "idle") /\ call[x].cursor = 0
    BY <1>3 DEF DropTable, Sessions, Active, At
  <2>4. CoveredTo(0)'
    BY <1>3 DEF DropTable, CoveredTo, Unchanged
  <2>5. At(w, "drop") /\ ckpt' = ckpt /\ status' = status
    BY <1>3 DEF DropTable
  <2>6. \A x \in Workers : x # w => At(x, "idle")' /\ call'[x].cursor = 0
    BY <2>1, <2>3 DEF At, Others
  <2>7. At(w, "create")' /\ call'[w].cursor = 0 /\ status = "ACTIVE"
    BY <2>1, <2>2, <2>5 DEF Sessions, Active, At, SameLocals
  <2>8. Sessions'
    BY <2>2, <2>5, <2>6, <2>7 DEF Sessions, Active, At
  <2>9. Coverage'
    BY <2>2, <2>4, <2>5, <2>6, <2>7 DEF Coverage, At, CoveredTo
  <2> QED BY <2>8, <2>9
<1>4. ASSUME NEW w \in Workers, CreateTable(w) PROVE Sessions' /\ Coverage'
  <2>1. UNCHANGED <<source, touched, replica, ckpt>> /\ exists' /\ At(w, "create")
    BY <1>4 DEF CreateTable
  <2>2. CASE Goto(w, "mark") /\ UNCHANGED status
    <3>1. call'[w].pc = "mark" /\ SameLocals(w) /\ Others(w)
      BY <2>2, GotoFacts
    <3> QED BY <2>1, <2>2, <3>1
        DEF Sessions, Coverage, Active, At, Others, SameLocals, CoveredTo, AllCovered, PageInv, Unchanged
  <2>3. CASE Exit(w) /\ status' = "FAILED"
    <3>1. call'[w].pc = "idle" /\ call'[w].cursor = 0 /\ Others(w)
      BY <2>3, ExitFacts
    <3> QED BY <1>b, <2>1, <2>3, <3>1
        DEF Sessions, Coverage, Active, At, Others, CoveredTo, AllCovered, PageInv, Unchanged
  <2> QED BY <1>4, <2>2, <2>3 DEF CreateTable
<1>5. ASSUME NEW w \in Workers, CreateIfNotExists(w) PROVE Sessions' /\ Coverage'
  <2>1. call'[w].pc = "mark" /\ SameLocals(w) /\ Others(w)
    BY <1>5, GotoFacts DEF CreateIfNotExists
  <2> QED BY <1>5, <2>1 DEF CreateIfNotExists, Sessions, Coverage, Active, At, Others, SameLocals,
             CoveredTo, AllCovered, PageInv, Unchanged
<1>6. ASSUME NEW w \in Workers, SaveStart(w) PROVE Sessions' /\ Coverage'
  <2>1. call'[w].pc = "loop" /\ SameLocals(w) /\ Others(w)
    BY <1>6, GotoFacts DEF SaveStart
  <2>2. ckpt'.saved /\ ckpt'.cursor = call[w].cursor /\ ~ckpt'.done
    BY <1>6 DEF SaveStart, Checkpoint
  <2>3. \A x \in Workers : x # w => At(x, "idle")
    BY <1>6 DEF SaveStart, Sessions, Active, At
  <2>4. status = "ACTIVE" /\ exists /\ UNCHANGED <<source, touched, replica, exists, status>>
    BY <1>6 DEF SaveStart, Sessions, Active, At
  <2>5. Sessions'
    BY <2>1, <2>2, <2>3, <2>4 DEF Sessions, Active, At, Others
  <2>6. \A x \in Workers : CoveredTo(call[x].cursor)'
    BY <2>1, <2>4 DEF Coverage, Others, SameLocals, CoveredTo, Unchanged
  <2> QED BY <2>1, <2>2, <2>3, <2>4, <2>5, <2>6 DEF Coverage, At, Others, SameLocals
<1>7. ASSUME NEW w \in Workers, ReadPage(w) PROVE Sessions' /\ Coverage'
  <2>1. PICK P \in SUBSET source :
          /\ IsPage(P, call[w].cursor)
          /\ call' = [call EXCEPT ![w] = [@ EXCEPT !.pc = IF P = {} THEN "finish" ELSE "write",
                                                   !.page = P, !.todo = P]]
    BY <1>7 DEF ReadPage
  <2>2. /\ call'[w].pc = IF P = {} THEN "finish" ELSE "write"
        /\ call'[w].cursor = call[w].cursor /\ call'[w].page = P /\ call'[w].todo = P
        /\ Others(w)
    BY <2>1 DEF CallType, Others
  <2>3. At(w, "loop") /\ UNCHANGED <<source, touched, replica, exists, ckpt, status>>
    BY <1>7 DEF ReadPage
  <2>4. Sessions'
    BY <2>2, <2>3 DEF Sessions, Active, At, Others
  <2>5. /\ \A r \in Unchanged, x \in P : keyOf[r] > call[w].cursor /\ keyOf[r] <= keyOf[x] => r \in P
        /\ LastPage(P) => \A r \in Unchanged : keyOf[r] > call[w].cursor => r \in P
    <3>1. CoveredTo(call[w].cursor) /\ P \subseteq Rows
      BY DEF Coverage
    <3>2. ASSUME NEW r \in Unchanged, keyOf[r] > call[w].cursor
          PROVE  r \in Beyond(call[w].cursor)
      BY <3>2 DEF Beyond, Unchanged, IntendedSetting
    <3>3. ASSUME NEW r \in Unchanged, NEW x \in P, keyOf[r] > call[w].cursor, keyOf[r] <= keyOf[x]
          PROVE  r \in P
      <4>1. r \in Beyond(call[w].cursor) /\ r \in Rows /\ x \in Rows
        BY <1>a, <3>1, <3>2, <3>3
      <4>2. r \notin P => keyOf[x] <= keyOf[r]
        BY <2>1, <4>1 DEF IsPage, Before, IntendedSetting
      <4>3. r \notin P => r = x
        BY <3>3, <4>1, <4>2 DEF IntendedSetting, UniqueKey
      <4> QED BY <4>3
    <3>4. LastPage(P) => P = Beyond(call[w].cursor)
      BY <2>1, <3>1, RowSetsFinite DEF IsPage, LastPage
    <3> QED BY <3>2, <3>3, <3>4
  <2>6. P = {} => AllCovered
    <3>1. P = {} => Cardinality(P) = 0
      BY RowSetsFinite
    <3>2. P = {} => LastPage(P)
      BY <3>1 DEF LastPage
    <3>3. CoveredTo(call[w].cursor) /\ call[w].cursor \in Nat
      BY DEF Coverage, CallType
    <3> QED BY <1>a, <2>5, <3>2, <3>3 DEF AllCovered, CoveredTo
  <2>7. \A x \in Workers : CoveredTo(call[x].cursor)'
    BY <2>2, <2>3 DEF Coverage, Others, CoveredTo, Unchanged
  <2>8. P # {} => PageInv(w)'
    BY <2>2, <2>3, <2>5 DEF PageInv, Unchanged, LastPage
  <2>9. \A x \in Workers : At(x, "write")' => PageInv(x)'
    BY <2>2, <2>3, <2>8 DEF Coverage, PageInv, Unchanged, LastPage, At, Others
  <2>10. \A x \in Workers : At(x, "finish")' => AllCovered'
    BY <2>2, <2>3, <2>6 DEF Coverage, AllCovered, Unchanged, At, Others
  <2> QED BY <2>2, <2>3, <2>4, <2>7, <2>9, <2>10 DEF Coverage, At, Others, CoveredTo, AllCovered, Unchanged
<1>8. ASSUME NEW w \in Workers, WriteRow(w) PROVE Sessions' /\ Coverage'
  <2>1. PICK r \in call[w].todo :
          \/ /\ replica' = Written(w, r) /\ exists' = TRUE
             /\ call' = [call EXCEPT ![w].todo = @ \ {r}] /\ status' = status
          \/ /\ Exit(w) /\ status' = "FAILED" /\ UNCHANGED <<replica, exists>>
    BY <1>8 DEF WriteRow
  <2>2. At(w, "write") /\ UNCHANGED <<source, touched, ckpt>> /\ r \in Rows
    BY <1>8 DEF WriteRow, CallType
  <2>3. CASE /\ replica' = Written(w, r) /\ exists' = TRUE
             /\ call' = [call EXCEPT ![w].todo = @ \ {r}] /\ status' = status
    <3>1. replica'[r] >= 1 /\ \A x \in Rows : replica[x] >= 1 => replica'[x] >= 1
      <4>1. Written(w, r) = [replica EXCEPT ![r] = 1] \/
            Written(w, r) = [x \in Rows |-> IF x = r THEN 1
                                            ELSE IF keyOf[x] = keyOf[r] THEN 0 ELSE replica[x]]
        BY Zenon DEF Written, Appends, IntendedSetting
      <4> QED BY <2>2, <2>3, <4>1 DEF IntendedSetting, UniqueKey
    <3>2. /\ call'[w].pc = call[w].pc /\ call'[w].cursor = call[w].cursor
          /\ call'[w].page = call[w].page /\ call'[w].todo = call[w].todo \ {r} /\ Others(w)
      BY <2>3 DEF CallType, Others
    <3>3. Sessions'
      BY <2>2, <2>3, <3>2 DEF Sessions, Active, At, Others
    <3>4. AllCovered => AllCovered'
      BY <1>a, <2>2, <3>1 DEF AllCovered, Unchanged
    <3>5. PageInv(w)'
      <4>1. PageInv(w) /\ call[w].page \subseteq Rows
        BY <2>2 DEF Coverage, CallType
      <4> QED BY <2>2, <3>1, <3>2, <4>1 DEF PageInv, Unchanged, LastPage
    <3>6. \A x \in Workers : x # w => ~At(x, "write")'
      BY <2>2, <3>2 DEF Sessions, Active, At, Others
    <3>7. ckpt.cursor \in Nat /\ \A x \in Workers : call[x].cursor \in Nat
      BY DEF CkptType, CallType
    <3>8. \A x \in Workers : call'[x].cursor = call[x].cursor /\ call'[x].pc = call[x].pc
      BY <3>2 DEF Others
    <3>9. \A x \in Workers : CoveredTo(call[x].cursor)'
      <4> SUFFICES ASSUME NEW x \in Workers PROVE CoveredTo(call[x].cursor)'
        OBVIOUS
      <4>1. CoveredTo(call[x].cursor)
        BY DEF Coverage
      <4>2. call[x].cursor \in Nat /\ call'[x].cursor = call[x].cursor
        BY <3>7, <3>8
      <4> QED BY <1>a, <2>2, <3>1, <4>1, <4>2 DEF CoveredTo, Unchanged
    <3>10. ckpt.saved => CoveredTo(ckpt.cursor)'
      BY <1>a, <2>2, <3>1 DEF Coverage, CoveredTo, Unchanged
    <3>11. \A x \in Workers : At(x, "write")' => PageInv(x)'
      BY <3>5, <3>6
    <3> QED BY <2>2, <2>3, <3>3, <3>4, <3>8, <3>9, <3>10, <3>11 DEF Coverage, At
  <2>4. CASE Exit(w) /\ status' = "FAILED" /\ UNCHANGED <<replica, exists>>
    <3>1. call'[w].pc = "idle" /\ call'[w].cursor = 0 /\ Others(w)
      BY <2>4, ExitFacts
    <3>2. \A x \in Workers : x # w => At(x, "idle") /\ call[x].cursor = 0
      BY <2>2 DEF Sessions, Active, At
    <3>3. Sessions'
      BY <2>2, <2>4, <3>1, <3>2 DEF Sessions, Active, At, Others
    <3>4. Coverage'
      BY <1>b, <2>2, <2>4, <3>1, <3>2 DEF Coverage, At, Others, CoveredTo, AllCovered, Unchanged
    <3> QED BY <3>3, <3>4
  <2> QED BY <2>1, <2>3, <2>4
<1>9. ASSUME NEW w \in Workers, SaveProgress(w) PROVE Sessions' /\ Coverage'
  <2> DEFINE n == call[w].rows + Cardinality(call[w].page)
  <2>1. At(w, "write") /\ call[w].todo = {} /\ UNCHANGED <<source, touched, replica, exists>>
    BY <1>9 DEF SaveProgress
  <2>2. PICK e \in PageEnds(call[w].page, call[w].cursor) :
          /\ ckpt' = Checkpoint(e, n, FALSE)
          /\ \/ /\ LastPage(call[w].page) /\ status' = status
                /\ call' = [call EXCEPT ![w] = [@ EXCEPT !.pc = "finish", !.cursor = e, !.rows = n]]
             \/ /\ ~LastPage(call[w].page) /\ status' = status
                /\ call' = [call EXCEPT ![w] = [@ EXCEPT !.pc = "loop", !.cursor = e, !.rows = n]]
             \/ Exit(w) /\ status' = "FAILED"
    BY <1>9, Zenon DEF SaveProgress, Advance
  <2> HIDE DEF n
  <2>3. PageInv(w) /\ CoveredTo(call[w].cursor) /\ call[w].page \subseteq Rows /\ call[w].cursor \in Nat
    BY <2>1 DEF Coverage, CallType
  <2>4. PICK last \in call[w].page : e = keyOf[last]
    BY <2>2 DEF PageEnds, IntendedSetting
  <2>5. CoveredTo(e)
    <3> SUFFICES ASSUME NEW r \in Unchanged, keyOf[r] <= e PROVE replica[r] >= 1
      BY DEF CoveredTo
    <3>1. r \in Rows /\ keyOf[r] \in Nat
      BY <1>a
    <3>2. CASE keyOf[r] <= call[w].cursor
      BY <2>3, <3>2 DEF CoveredTo
    <3>3. CASE keyOf[r] > call[w].cursor
      BY <2>1, <2>3, <2>4, <3>3 DEF PageInv
    <3> QED BY <2>3, <3>1, <3>2, <3>3
  <2>6. LastPage(call[w].page) => AllCovered
    <3> SUFFICES ASSUME LastPage(call[w].page), NEW r \in Unchanged PROVE replica[r] >= 1
      BY DEF AllCovered
    <3>1. r \in Rows /\ keyOf[r] \in Nat
      BY <1>a
    <3>2. CASE keyOf[r] <= call[w].cursor
      BY <2>3, <3>2 DEF CoveredTo
    <3>3. CASE keyOf[r] > call[w].cursor
      BY <2>1, <2>3, <3>3 DEF PageInv
    <3> QED BY <2>3, <3>1, <3>2, <3>3
  <2>7. ckpt'.saved /\ ckpt'.cursor = e /\ ~ckpt'.done
    BY <2>2 DEF Checkpoint
  <2>8. \A x \in Workers : x # w => At(x, "idle") /\ call[x].cursor = 0
    BY <2>1 DEF Sessions, Active, At
  <2>9. status = "ACTIVE" /\ (ckpt.saved => exists) /\ exists
    BY <2>1 DEF Sessions, Active, At
  <2>10. CASE Exit(w) /\ status' = "FAILED"
    <3>1. call'[w].pc = "idle" /\ call'[w].cursor = 0 /\ Others(w)
      BY <2>10, ExitFacts
    <3> QED BY <1>b, <2>1, <2>5, <2>7, <2>8, <2>9, <2>10, <3>1
        DEF Sessions, Coverage, Active, At, Others, CoveredTo, Unchanged
  <2>11. ASSUME NEW l \in {"finish", "loop"}, l = "finish" => LastPage(call[w].page), status' = status,
                call' = [call EXCEPT ![w] = [@ EXCEPT !.pc = l, !.cursor = e, !.rows = n]]
         PROVE  Sessions' /\ Coverage'
    <3>1. call'[w].pc = l /\ call'[w].cursor = e /\ Others(w)
      BY <2>11 DEF CallType, Others
    <3>2. Sessions'
      BY <2>1, <2>7, <2>8, <2>9, <2>11, <3>1 DEF Sessions, Active, At, Others
    <3>3. \A x \in Workers : CoveredTo(call[x].cursor)'
      BY <1>b, <2>1, <2>5, <2>8, <3>1 DEF Others, CoveredTo, Unchanged
    <3>4. l = "finish" => AllCovered'
      BY <2>1, <2>6, <2>11 DEF AllCovered, Unchanged
    <3>5. CoveredTo(ckpt.cursor)'
      BY <2>1, <2>5, <2>7 DEF CoveredTo, Unchanged
    <3> QED BY <2>7, <2>8, <2>9, <2>11, <3>1, <3>2, <3>3, <3>4, <3>5 DEF Coverage, At, Others
  <2> QED BY <2>2, <2>10, <2>11
<1>10. ASSUME NEW w \in Workers, SaveDone(w) PROVE Sessions' /\ Coverage'
  <2>1. call'[w].pc = "tableDone" /\ SameLocals(w) /\ Others(w)
    BY <1>10, GotoFacts DEF SaveDone
  <2>2. ckpt'.saved /\ ckpt'.cursor = call[w].cursor /\ ckpt'.done
    BY <1>10 DEF SaveDone, Checkpoint
  <2>3. \A x \in Workers : x # w => At(x, "idle")
    BY <1>10 DEF SaveDone, Sessions, Active, At
  <2>4. /\ status = "ACTIVE" /\ AllCovered /\ exists
        /\ UNCHANGED <<source, touched, replica, exists, status>>
    BY <1>10 DEF SaveDone, Sessions, Coverage, Active, At
  <2>5. Sessions'
    BY <2>1, <2>2, <2>3, <2>4 DEF Sessions, Active, At, Others
  <2>6. \A x \in Workers : CoveredTo(call[x].cursor)'
    BY <2>1, <2>4 DEF Coverage, Others, SameLocals, CoveredTo, Unchanged
  <2>7. AllCovered' /\ CoveredTo(ckpt.cursor)'
    BY <2>4 DEF AllCovered, CoveredTo, Unchanged
  <2> QED BY <2>1, <2>2, <2>3, <2>4, <2>5, <2>6, <2>7 DEF Coverage, At, Others, SameLocals
<1>11. ASSUME NEW w \in Workers, CompleteJob(w) PROVE Sessions' /\ Coverage'
  <2>1. call'[w].pc = "idle" /\ call'[w].cursor = 0 /\ Others(w)
    BY <1>11, ExitFacts DEF CompleteJob
  <2> QED BY <1>b, <1>11, <2>1
      DEF CompleteJob, Sessions, Coverage, Active, At, Others, CoveredTo, AllCovered, PageInv, Unchanged
<1>12. ASSUME NEW w \in Workers, StopForPause(w) PROVE Sessions' /\ Coverage'
  <2>1. call'[w].pc = "idle" /\ call'[w].cursor = 0 /\ Others(w)
    BY <1>12, ExitFacts DEF StopForPause
  <2> QED BY <1>b, <1>12, <2>1
      DEF StopForPause, Sessions, Coverage, Active, At, Others, CoveredTo, AllCovered, PageInv, Unchanged
<1>13. ASSUME NEW w \in Workers, TableError(w) PROVE Sessions' /\ Coverage'
  <2>1. call'[w].pc = "idle" /\ call'[w].cursor = 0 /\ Others(w)
    BY <1>13, ExitFacts DEF TableError
  <2> QED BY <1>b, <1>13, <2>1
      DEF TableError, Sessions, Coverage, Active, At, Others, CoveredTo, AllCovered, PageInv, Unchanged
<1>14. ASSUME NEW w \in Workers, Crash(w) PROVE Sessions' /\ Coverage'
  <2>1. call'[w].pc = "idle" /\ call'[w].cursor = 0 /\ Others(w)
    BY <1>14, ExitFacts DEF Crash
  <2> QED BY <1>b, <1>14, <2>1
      DEF Crash, Sessions, Coverage, Active, At, Others, CoveredTo, AllCovered, PageInv, Unchanged
<1>15. CASE ResumeJob
  BY <1>15 DEF ResumeJob, Sessions, Coverage, Active, At, CoveredTo, AllCovered, PageInv, Unchanged
<1>16. ASSUME NEW r \in Rows, SourceChange(r) PROVE Sessions' /\ Coverage'
  <2>1. Unchanged' \subseteq Unchanged
    BY <1>16 DEF SourceChange, Unchanged
  <2>2. Sessions'
    BY <1>16 DEF SourceChange, Sessions, Active, At
  <2>3. Coverage'
    BY <1>16, <2>1 DEF SourceChange, Coverage, At, CoveredTo, AllCovered, PageInv, LastPage
  <2> QED BY <2>2, <2>3
<1>17. CASE DropReplica
  BY <1>17 DEF DropReplica, IntendedSetting
<1>18. CASE UNCHANGED vars
  BY <1>18 DEF vars, Sessions, Coverage, Active, At, CoveredTo, AllCovered, PageInv, Unchanged
<1> QED BY <1>1, <1>2, <1>3, <1>4, <1>5, <1>6, <1>7, <1>8, <1>9, <1>10, <1>11, <1>12, <1>13,
           <1>14, <1>15, <1>16, <1>17, <1>18 DEF Next, CopyStep

\* CopyInv is an inductive invariant of the copy in the intended setting.
THEOREM CopyInvariant ==
  ASSUME IntendedSetting
  PROVE  Spec => []CopyInv
<1>1. CopyInv /\ [Next]_vars => CopyInv'
  BY InvStep
<1> QED BY <1>1, InvInit, PTL DEF Spec

\* Whatever crashed, was paused or failed and whatever changed in the source,
\* a COMPLETED job has copied every row that was there throughout.
THEOREM CompletedCopyIsWhole ==
  ASSUME IntendedSetting
  PROVE  Spec => []CompletedIsWhole
<1>1. CopyInv => CompletedIsWhole
  BY DEF CopyInv, Coverage, CompletedIsWhole, Stable, IntendedSetting, AllCovered, Unchanged
<1>2. Spec => []CopyInv
  BY CopyInvariant
<1> QED BY <1>1, <1>2, PTL

\* Resuming forward from the saved cursor never skips an unchanged row.
THEOREM CheckpointIsCovered ==
  ASSUME IntendedSetting
  PROVE  Spec => []CheckpointCovered
<1>1. CopyInv => CheckpointCovered
  BY DEF CopyInv, Coverage, CheckpointCovered, Stable, IntendedSetting, CoveredTo, Unchanged
<1>2. Spec => []CopyInv
  BY CopyInvariant
<1> QED BY <1>1, <1>2, PTL

-----------------------------------------------------------------------------
(* Nothing is duplicated.                                                  *)

HIDE RowsAssumption
HIDE KeyAssumption
HIDE BoundsAssumption
HIDE FlagAssumption

\* Workers of a keyless copy do not overlap; a keyed copy may run twice.
SafeToReload == HasKey \/ ~StaleWhileAlive

Loaded == {r \in Rows : replica[r] >= 1}

\* The first n rows of the source, in physical order.
IsPrefix(L, n) ==
  /\ L \subseteq source /\ Cardinality(L) = n
  /\ \A a \in L, b \in source : b < a => b \in L

\* A reload by OFFSET: what is in the replica is the rows before the cursor, and
\* those of the page in hand that were written.
ReloadAt(w) ==
  /\ call[w].pc \in {"create", "mark"} => Loaded = {} /\ call[w].cursor = 0
  /\ call[w].pc = "loop" => IsPrefix(Loaded, call[w].cursor)
  /\ call[w].pc = "write" =>
       \E L \in SUBSET source :
         /\ IsPrefix(L, call[w].cursor) /\ Loaded = L \cup (call[w].page \ call[w].todo)
         /\ call[w].page \cap L = {} /\ call[w].todo \subseteq call[w].page
         /\ IsPrefix(L \cup call[w].page, call[w].cursor + Cardinality(call[w].page))

ReloadInv ==
  /\ TypeOK
  /\ HasKey \/ touched = {} => \A r \in Rows : replica[r] <= 1
  /\ ~HasKey =>
       /\ \A a, b \in Workers : Active(a) /\ Active(b) => a = b
       /\ \A w \in Workers : call[w].pc \notin {"probe", "prepare"} /\ (call[w].pc = "drop" => call[w].cursor = 0)
       /\ Appends /\ touched = {} => \A w \in Workers : ReloadAt(w)

\* Counting the rows before a row finds the first n rows, so a page read with
\* OFFSET n goes on where they end.
LEMMA PageExtends ==
  ASSUME ~HasKey, source \subseteq Rows, NEW L \in SUBSET source, NEW c \in Nat, IsPrefix(L, c),
         NEW P \in SUBSET source, IsPage(P, c)
  PROVE  P \cap L = {} /\ IsPrefix(L \cup P, c + Cardinality(P))
<1>1. \A S \in SUBSET source : IsFiniteSet(S) /\ Cardinality(S) \in Nat
  BY RowsAssumption, FS_Subset, FS_CardinalityType
<1>2. \A r \in source : r \in Nat
  BY RowsAssumption
<1>3. ASSUME NEW r \in L PROVE Cardinality({x \in source : x < r}) < c
  <2>1. {x \in source : x < r} \subseteq L \ {r}
    BY <1>2 DEF IsPrefix
  <2>2. IsFiniteSet(L) /\ Cardinality(L \ {r}) = c - 1
    BY <1>1, FS_RemoveElement DEF IsPrefix
  <2>3. Cardinality({x \in source : x < r}) <= Cardinality(L \ {r})
    <3>1. IsFiniteSet(L \ {r})
      BY <2>2, FS_RemoveElement
    <3> QED BY <2>1, <3>1, FS_Subset
  <2>4. Cardinality({x \in source : x < r}) \in Nat
    BY <1>1
  <2> QED BY <2>2, <2>3, <2>4
<1>4. ASSUME NEW r \in source, r \notin L PROVE Cardinality({x \in source : x < r}) >= c
  <2>1. L \subseteq {x \in source : x < r}
    <3>1. ASSUME NEW a \in L PROVE a < r
      <4>1. a \in Nat /\ r \in Nat /\ a # r
        BY <1>2, <1>4
      <4>2. ~(r < a)
        BY <1>4 DEF IsPrefix
      <4> QED BY <4>1, <4>2
    <3> QED BY <3>1
  <2>2. IsFiniteSet({x \in source : x < r})
    BY <1>1
  <2>3. Cardinality(L) <= Cardinality({x \in source : x < r})
    BY <2>1, <2>2, FS_Subset
  <2>4. Cardinality({x \in source : x < r}) \in Nat
    BY <1>1
  <2> QED BY <2>3, <2>4 DEF IsPrefix
<1>5. Beyond(c) = source \ L
  <2>1. \A r \in source : r \in Beyond(c) <=> Cardinality({x \in source : x < r}) >= c
    BY DEF Beyond
  <2>2. \A r \in source : Cardinality({x \in source : x < r}) \in Nat
    BY <1>1
  <2>3. Beyond(c) \subseteq source
    BY DEF Beyond
  <2>4. ASSUME NEW r \in source PROVE r \in Beyond(c) <=> r \notin L
    <3>1. CASE r \in L
      <4>1. Cardinality({x \in source : x < r}) < c
        BY <1>3, <3>1
      <4> QED BY <2>1, <2>2, <3>1, <4>1
    <3>2. CASE r \notin L
      BY <1>4, <2>1, <3>2
    <3> QED BY <3>1, <3>2
  <2> QED BY <2>3, <2>4
<1>6. P \subseteq source \ L /\ \A a \in P, b \in (source \ L) \ P : a <= b
  BY <1>5 DEF IsPage, Before
<1>7. Cardinality(L \cup P) = c + Cardinality(P)
  <2>1. IsFiniteSet(L) /\ IsFiniteSet(P) /\ L \cap P = {} /\ Cardinality(P) \in Nat
    BY <1>1, <1>6
  <2>2. Cardinality({}) = 0
    BY FS_EmptySet
  <2>3. Cardinality(L \cup P) = Cardinality(L) + Cardinality(P) - Cardinality(L \cap P)
    BY <2>1, FS_Union
  <2>4. Cardinality(L) = c
    BY DEF IsPrefix
  <2>5. Cardinality(L \cap P) = 0
    BY <2>1, <2>2
  <2>6. Cardinality(L \cup P) = c + Cardinality(P) - 0
    BY <2>3, <2>4, <2>5
  <2> QED BY <2>1, <2>6
<1>8. \A a \in L \cup P, b \in source : b < a => b \in L \cup P
  BY <1>2, <1>6 DEF IsPrefix
<1> QED BY <1>6, <1>7, <1>8 DEF IsPrefix

\* Writing a row: appended once more, or there once; no other row gains a copy.
LEMMA WrittenFacts ==
  ASSUME TypeOK, NEW w \in Workers, NEW r \in Rows
  PROVE  /\ Appends => Written(w, r) = [replica EXCEPT ![r] = replica[r] + 1]
         /\ ~Appends => \A x \in Rows : Written(w, r)[x] <= IF x = r THEN 1 ELSE replica[x]
<1>1. replica \in [Rows -> Nat]
  BY DEF TypeOK
<1>2. CASE Appends
  BY <1>2 DEF Written
<1>3. CASE ~Appends /\ (PlainInsert(w) \/ profile.match \in {"pk", "unique"})
  <2>1. Written(w, r) = [replica EXCEPT ![r] = 1]
    BY <1>3, Zenon DEF Written
  <2> QED BY <1>1, <1>3, <2>1
<1>4. CASE ~Appends /\ ~(PlainInsert(w) \/ profile.match \in {"pk", "unique"})
  <2>1. Written(w, r) = [x \in Rows |-> IF x = r THEN 1 ELSE IF keyOf[x] = keyOf[r] THEN 0 ELSE replica[x]]
    BY <1>4, Zenon DEF Written
  <2> QED BY <1>1, <1>4, <2>1
<1> QED BY <1>2, <1>3, <1>4

\* Only a worker that is reloading is bound by the reload.
LEMMA ReloadMove ==
  ASSUME TypeOK', ~HasKey, NEW w \in Workers, Others(w), \A x \in Workers : x # w => At(x, "idle"),
         call'[w].pc \notin {"probe", "prepare"}, call'[w].pc = "drop" => call'[w].cursor = 0,
         touched' = {} => \A r \in Rows : replica'[r] <= 1,
         Appends /\ touched' = {} => ReloadAt(w)'
  PROVE  ReloadInv'
<1>1. \A x \in Workers : x # w => call'[x].pc = "idle"
  BY DEF Others, At
<1>2. \A a, b \in Workers : Active(a)' /\ Active(b)' => a = b
  BY <1>1 DEF Active, At
<1>3. ASSUME Appends, touched' = {}, NEW x \in Workers PROVE ReloadAt(x)'
  <2>1. CASE x = w
    BY <1>3, <2>1
  <2>2. CASE x # w
    BY <1>1, <2>2 DEF ReloadAt
  <2> QED BY <2>1, <2>2
<1>4. \A x \in Workers : call'[x].pc \notin {"probe", "prepare"} /\ (call'[x].pc = "drop" => call'[x].cursor = 0)
  BY <1>1
<1>5. Appends' = Appends /\ HasKey' = HasKey
  BY DEF Appends, profile
<1> HIDE DEF Appends
<1> QED BY <1>2, <1>3, <1>4, <1>5 DEF ReloadInv

\* A step of a worker that writes nothing.
LEMMA ReloadReads ==
  ASSUME ReloadInv, TypeOK', SafeToReload, ~HasKey, NEW w \in Workers,
         GetStart(w) \/ ProbeReplica(w) \/ CreateTable(w) \/ CreateIfNotExists(w) \/ SaveStart(w) \/ ReadPage(w)
  PROVE  ReloadInv'
<1> USE DEF ReloadInv, TypeOK
<1>1. UNCHANGED <<source, touched, replica>>
  BY DEF GetStart, ProbeReplica, CreateTable, CreateIfNotExists, SaveStart, ReadPage
<1>2. touched' = {} => \A r \in Rows : replica'[r] <= 1
  BY <1>1
<1>3. \A x \in Workers : x # w => At(x, "idle")
  BY DEF GetStart, ProbeReplica, CreateTable, CreateIfNotExists, SaveStart, ReadPage, SafeToReload, Active, At
<1>4. CASE GetStart(w)
  <2>1. CASE Goto(w, "tableDone")
    <3>1. call'[w].pc = "tableDone" /\ Others(w)
      BY <2>1, GotoFacts
    <3> QED BY <1>2, <1>3, <3>1, ReloadMove DEF ReloadAt
  <2>2. CASE Enter(w, "drop", FALSE, 0, 0)
    <3>1. call'[w].pc = "drop" /\ call'[w].cursor = 0 /\ Others(w)
      BY <2>2, EnterFacts
    <3> QED BY <1>2, <1>3, <3>1, ReloadMove DEF ReloadAt
  <2> QED BY <1>4, <2>1, <2>2 DEF GetStart, CanResume
<1>5. CASE ProbeReplica(w) \/ CreateIfNotExists(w)
  BY <1>5 DEF ProbeReplica, CreateIfNotExists, At
<1>6. CASE CreateTable(w)
  <2>1. CASE Goto(w, "mark")
    <3>1. call'[w].pc = "mark" /\ SameLocals(w) /\ Others(w) /\ call[w].pc = "create"
      BY <1>6, <2>1, GotoFacts DEF CreateTable, At
    <3>2. Appends /\ touched' = {} => ReloadAt(w)'
      <4>1. Loaded' = Loaded
        BY <1>1 DEF Loaded
      <4> QED BY <1>1, <3>1, <4>1 DEF ReloadAt, SameLocals
    <3> QED BY <1>2, <1>3, <3>1, <3>2, ReloadMove
  <2>2. CASE Exit(w)
    <3>1. call'[w].pc = "idle" /\ Others(w)
      BY <2>2, ExitFacts
    <3> QED BY <1>2, <1>3, <3>1, ReloadMove DEF ReloadAt
  <2> QED BY <1>6, <2>1, <2>2 DEF CreateTable
<1>7. CASE SaveStart(w)
  <2>1. call'[w].pc = "loop" /\ SameLocals(w) /\ Others(w) /\ call[w].pc = "mark"
    BY <1>7, GotoFacts DEF SaveStart, At
  <2>2. Appends /\ touched' = {} => ReloadAt(w)'
    <3> SUFFICES ASSUME Appends, touched' = {} PROVE ReloadAt(w)'
      OBVIOUS
    <3>1. Loaded' = {} /\ call'[w].cursor = 0
      BY <1>1, <2>1 DEF Loaded, ReloadAt, SameLocals
    <3>2. IsPrefix({}, 0)'
      BY FS_EmptySet DEF IsPrefix
    <3> QED BY <2>1, <3>1, <3>2 DEF ReloadAt
  <2> QED BY <1>2, <1>3, <2>1, <2>2, ReloadMove
<1>8. CASE ReadPage(w)
  <2>1. PICK P \in SUBSET source :
          /\ IsPage(P, call[w].cursor)
          /\ call' = [call EXCEPT ![w] = [call[w] EXCEPT !.pc = IF P = {} THEN "finish" ELSE "write",
                                                         !.page = P, !.todo = P]]
    BY <1>8 DEF ReadPage
  <2>2. /\ call'[w].pc \in {"finish", "write"} /\ call'[w].page = P /\ call'[w].todo = P
        /\ call'[w].cursor = call[w].cursor /\ Others(w) /\ call[w].pc = "loop" /\ call[w].cursor \in Nat
    BY <1>8, <2>1 DEF CallType, Others, ReadPage, At
  <2>3. Appends /\ touched' = {} => ReloadAt(w)'
    <3> SUFFICES ASSUME Appends, touched' = {} PROVE ReloadAt(w)'
      OBVIOUS
    <3>1. Loaded' = Loaded /\ Loaded \subseteq source /\ IsPrefix(Loaded, call[w].cursor)
      BY <1>1, <2>2 DEF Loaded, ReloadAt, IsPrefix
    <3>2. source \subseteq Rows /\ Loaded \in SUBSET source
      BY <3>1
    <3>3. PICK L \in SUBSET source : L = Loaded
      BY <3>2
    <3>4. PICK c \in Nat : c = call[w].cursor
      BY <2>2
    <3>5. IsPrefix(L, c) /\ IsPage(P, c)
      BY <2>1, <3>1, <3>3, <3>4
    <3>a. P \cap L = {} /\ IsPrefix(L \cup P, c + Cardinality(P))
      BY <3>2, <3>5, PageExtends
    <3>6. IsPrefix(L, c)' /\ IsPrefix(L \cup P, c + Cardinality(P))'
      BY <1>1, <3>5, <3>a DEF IsPrefix
    <3>7. /\ IsPrefix(L, call[w].cursor)' /\ IsPrefix(L \cup call[w].page, call[w].cursor + Cardinality(call[w].page))'
          /\ Loaded' = L \cup (call'[w].page \ call'[w].todo) /\ call'[w].page \cap L = {}
          /\ call'[w].todo \subseteq call'[w].page
      BY <2>2, <3>1, <3>3, <3>4, <3>a, <3>6
    <3> QED BY <1>1, <2>2, <3>3, <3>7 DEF ReloadAt
  <2> QED BY <1>2, <1>3, <2>2, <2>3, ReloadMove
<1> QED BY <1>4, <1>5, <1>6, <1>7, <1>8

\* onProgress moves the cursor of the call and of the checkpoint to the end of
\* the page, unless the copy ends at the row cap.
LEMMA ProgressFacts ==
  ASSUME TypeOK, NEW w \in Workers, SaveProgress(w)
  PROVE  /\ call[w].pc = "write" /\ call[w].todo = {} /\ Others(w)
         /\ UNCHANGED <<source, touched, replica, exists>> /\ ckpt'.saved
         /\ ckpt'.cursor \in PageEnds(call[w].page, call[w].cursor)
         /\ \/ call'[w].pc = "idle"
            \/ call'[w].pc \in {"finish", "loop"} /\ call'[w].cursor = ckpt'.cursor
<1> DEFINE n == call[w].rows + Cardinality(call[w].page)
<1>1. call[w].pc = "write" /\ call[w].todo = {} /\ UNCHANGED <<source, touched, replica, exists>>
  BY DEF SaveProgress, At
<1>2. PICK e \in PageEnds(call[w].page, call[w].cursor) :
        /\ ckpt' = Checkpoint(e, n, FALSE)
        /\ \/ call' = [call EXCEPT ![w] = [@ EXCEPT !.pc = "finish", !.cursor = e, !.rows = n]]
           \/ call' = [call EXCEPT ![w] = [@ EXCEPT !.pc = "loop", !.cursor = e, !.rows = n]]
           \/ Exit(w)
  BY Zenon DEF SaveProgress, Advance
<1> HIDE DEF n
<1>3. ckpt'.saved /\ ckpt'.cursor = e
  BY <1>2 DEF Checkpoint
<1>4. CASE Exit(w)
  BY <1>1, <1>2, <1>3, <1>4, ExitFacts DEF TypeOK
<1>5. ASSUME NEW l \in {"finish", "loop"},
             call' = [call EXCEPT ![w] = [@ EXCEPT !.pc = l, !.cursor = e, !.rows = n]]
      PROVE  call'[w].pc = l /\ call'[w].cursor = e /\ Others(w)
  BY <1>5 DEF TypeOK, CallType, Others
<1> QED BY <1>1, <1>2, <1>3, <1>4, <1>5

\* The steps of a reload that write, or that move its cursor.
LEMMA ReloadWrites ==
  ASSUME ReloadInv, TypeOK', ~HasKey, NEW w \in Workers,
         DropTable(w) \/ WriteRow(w) \/ SaveProgress(w)
  PROVE  ReloadInv'
<1> USE DEF ReloadInv, TypeOK
<1>1. \A x \in Workers : x # w => At(x, "idle")
  BY DEF DropTable, WriteRow, SaveProgress, Active, At
<1>2. CASE DropTable(w)
  <2>1. call'[w].pc = "create" /\ SameLocals(w) /\ Others(w) /\ call[w].cursor = 0
    BY <1>2, GotoFacts DEF DropTable, At
  <2>2. Loaded' = {} /\ \A r \in Rows : replica'[r] <= 1
    BY <1>2 DEF DropTable, Loaded
  <2>3. ReloadAt(w)'
    BY <2>1, <2>2 DEF ReloadAt, SameLocals
  <2> QED BY <1>1, <2>1, <2>2, <2>3, ReloadMove
<1>3. CASE SaveProgress(w)
  <2>1. /\ call[w].pc = "write" /\ call[w].todo = {} /\ Others(w)
        /\ UNCHANGED <<source, touched, replica, exists>>
        /\ \/ call'[w].pc = "idle"
           \/ call'[w].pc \in {"finish", "loop"} /\ call'[w].cursor \in PageEnds(call[w].page, call[w].cursor)
    BY <1>3, ProgressFacts
  <2>2. Appends /\ touched' = {} => ReloadAt(w)'
    <3> SUFFICES ASSUME Appends, touched' = {}, call'[w].pc = "loop" PROVE IsPrefix(Loaded, call[w].cursor)'
      BY <2>1 DEF ReloadAt
    <3>1. call'[w].cursor = call[w].cursor + Cardinality(call[w].page)
      BY <2>1 DEF PageEnds
    <3>2. PICK L \in SUBSET source :
            /\ Loaded = L \cup (call[w].page \ call[w].todo)
            /\ IsPrefix(L \cup call[w].page, call[w].cursor + Cardinality(call[w].page))
      BY <2>1 DEF ReloadAt
    <3>3. Loaded = L \cup call[w].page /\ Loaded' = Loaded
      BY <2>1, <3>2 DEF Loaded
    <3> QED BY <2>1, <3>1, <3>2, <3>3 DEF IsPrefix
  <2> QED BY <1>1, <2>1, <2>2, ReloadMove
<1>4. CASE WriteRow(w)
  <2>1. PICK r \in call[w].todo :
          \/ /\ replica' = Written(w, r) /\ call' = [call EXCEPT ![w].todo = @ \ {r}]
          \/ Exit(w) /\ UNCHANGED replica
    BY <1>4 DEF WriteRow
  <2>2. call[w].pc = "write" /\ UNCHANGED <<source, touched>> /\ call[w].todo \subseteq Rows
    BY <1>4 DEF WriteRow, At, CallType
  <2>3. CASE Exit(w) /\ UNCHANGED replica
    <3>1. call'[w].pc = "idle" /\ Others(w)
      BY <2>3, ExitFacts
    <3> QED BY <1>1, <2>2, <2>3, <3>1, ReloadMove DEF ReloadAt
  <2>4. CASE replica' = Written(w, r) /\ call' = [call EXCEPT ![w].todo = @ \ {r}]
    <3>1. /\ call'[w].pc = "write" /\ call'[w].cursor = call[w].cursor /\ call'[w].page = call[w].page
          /\ call'[w].todo = call[w].todo \ {r} /\ Others(w)
      BY <2>2, <2>4 DEF CallType, Others
    <3>2. r \in Rows
      BY <2>2
    <3>3. CASE ~Appends
      <4>1. \A x \in Rows : replica'[x] <= IF x = r THEN 1 ELSE replica[x]
        BY <2>4, <3>2, <3>3, WrittenFacts
      <4>2. touched' = {} => \A x \in Rows : replica'[x] <= 1
        BY <2>2, <4>1
      <4> QED BY <1>1, <3>1, <3>3, <4>2, ReloadMove
    <3>4. CASE Appends
      <4>1. replica' = [replica EXCEPT ![r] = replica[r] + 1]
        BY <2>4, <3>2, <3>4, WrittenFacts
      <4>2. CASE touched # {}
        BY <1>1, <2>2, <3>1, <4>2, ReloadMove
      <4>3. CASE touched = {}
        <5>1. PICK L \in SUBSET source :
                /\ IsPrefix(L, call[w].cursor) /\ Loaded = L \cup (call[w].page \ call[w].todo)
                /\ call[w].page \cap L = {} /\ call[w].todo \subseteq call[w].page
                /\ IsPrefix(L \cup call[w].page, call[w].cursor + Cardinality(call[w].page))
          BY <2>2, <3>4, <4>3 DEF ReloadAt
        <5>2. r \notin Loaded /\ replica[r] \in Nat
          BY <3>2, <5>1
        <5>3. replica[r] = 0 /\ replica'[r] = 1
          BY <3>2, <4>1, <5>2 DEF Loaded
        <5>4. \A x \in Rows : replica'[x] <= 1
          BY <4>1, <4>3, <5>3
        <5>5. Loaded' = Loaded \cup {r}
          BY <3>2, <4>1, <5>3 DEF Loaded
        <5>6. ReloadAt(w)'
          <6>1. /\ IsPrefix(L, call[w].cursor)' /\ L \in SUBSET source'
                /\ IsPrefix(L \cup call[w].page, call[w].cursor + Cardinality(call[w].page))'
            BY <2>2, <3>1, <5>1 DEF IsPrefix
          <6>2. /\ Loaded' = L \cup (call'[w].page \ call'[w].todo)
                /\ call'[w].page \cap L = {} /\ call'[w].todo \subseteq call'[w].page
            BY <3>1, <5>1, <5>5
          <6> QED BY <3>1, <6>1, <6>2 DEF ReloadAt
        <5> QED BY <1>1, <3>1, <5>4, <5>6, ReloadMove
      <4> QED BY <4>2, <4>3
    <3> QED BY <3>3, <3>4
  <2> QED BY <2>1, <2>3, <2>4
<1> QED BY <1>2, <1>3, <1>4

\* A reload ends: completed, paused, failed or with the death of its worker.
LEMMA ReloadEnds ==
  ASSUME ReloadInv, TypeOK', ~HasKey, NEW w \in Workers,
         SaveDone(w) \/ CompleteJob(w) \/ StopForPause(w) \/ TableError(w) \/ Crash(w)
  PROVE  ReloadInv'
<1> USE DEF ReloadInv, TypeOK
<1>1. UNCHANGED <<touched, replica>>
  BY DEF SaveDone, CompleteJob, StopForPause, TableError, Crash
<1>2. \A x \in Workers : x # w => At(x, "idle")
  BY DEF SaveDone, CompleteJob, StopForPause, TableError, Crash, Active, At
<1>3. call'[w].pc \in {"tableDone", "idle"} /\ Others(w)
  BY GotoFacts, ExitFacts DEF SaveDone, CompleteJob, StopForPause, TableError, Crash
<1>4. ReloadAt(w)'
  BY <1>3 DEF ReloadAt
<1> QED BY <1>1, <1>2, <1>3, <1>4, ReloadMove

\* Nothing else writes into the replica of a keyless table.
LEMMA ReloadRest ==
  ASSUME ReloadInv, TypeOK', ~HasKey,
         ResumeJob \/ DropReplica \/ UNCHANGED vars \/ \E r \in Rows : SourceChange(r)
  PROVE  ReloadInv'
<1> USE DEF ReloadInv, TypeOK
<1>1. UNCHANGED call /\ (Appends' <=> Appends)
  BY DEF ResumeJob, DropReplica, vars, SourceChange, Appends, profile
<1> HIDE DEF Appends
<1>2. \A a, b \in Workers : Active(a)' /\ Active(b)' => a = b
  BY <1>1 DEF Active, At
<1>3. CASE ResumeJob \/ UNCHANGED vars
  <2>1. UNCHANGED <<source, touched, replica>>
    BY <1>3 DEF ResumeJob, vars
  <2>2. ASSUME NEW w \in Workers, ReloadAt(w) PROVE ReloadAt(w)'
    <3>1. Loaded' = Loaded
      BY <2>1 DEF Loaded
    <3> QED BY <1>1, <2>1, <2>2, <3>1 DEF ReloadAt, IsPrefix
  <2> QED BY <1>1, <1>2, <2>1, <2>2
<1>4. CASE DropReplica
  <2>1. \A w \in Workers : ReloadAt(w)'
    BY <1>1, <1>4 DEF DropReplica, ReloadAt, Active, At
  <2>2. \A r \in Rows : replica'[r] <= 1
    BY <1>4 DEF DropReplica
  <2> QED BY <1>1, <1>2, <2>1, <2>2
<1>5. CASE \E r \in Rows : SourceChange(r)
  <2>1. touched' # {}
    BY <1>5 DEF SourceChange
  <2> QED BY <1>1, <1>2, <2>1
<1> QED BY <1>3, <1>4, <1>5

\* With a key every row is inserted or replaced, never appended.
LEMMA KeyedStep ==
  ASSUME ReloadInv, TypeOK', HasKey, [Next]_vars
  PROVE  ReloadInv'
<1> USE DEF ReloadInv
<1> SUFFICES \A r \in Rows : replica'[r] <= 1
  OBVIOUS
<1>1. CASE UNCHANGED replica
  BY <1>1
<1>2. CASE replica' = [r \in Rows |-> 0]
  BY <1>2
<1>3. ASSUME NEW w \in Workers, WriteRow(w), replica' # replica PROVE \A r \in Rows : replica'[r] <= 1
  <2>1. PICK r \in call[w].todo : replica' = Written(w, r)
    BY <1>3 DEF WriteRow
  <2>2. r \in Rows
    BY DEF TypeOK, CallType
  <2>3. ~Appends
    BY DEF Appends
  <2>4. \A x \in Rows : replica'[x] <= IF x = r THEN 1 ELSE replica[x]
    BY <2>1, <2>2, <2>3, WrittenFacts
  <2> QED BY <2>4 DEF TypeOK
<1>4. \/ UNCHANGED replica \/ replica' = [r \in Rows |-> 0] \/ \E w \in Workers : WriteRow(w)
  BY DEF Next, CopyStep, vars, GetStart, ProbeReplica, DropTable, CreateTable, CreateIfNotExists, SaveStart,
         ReadPage, SaveProgress, SaveDone, CompleteJob, StopForPause, TableError, Crash, ResumeJob,
         SourceChange, DropReplica
<1> QED BY <1>1, <1>2, <1>3, <1>4

\* Whatever fails, pauses or is retried, no unchanged row is copied twice: a
\* keyed copy replaces rows, even with two workers on one job or a replica that
\* is dropped meanwhile, and a keyless one, run by one worker, starts over.
THEOREM NeverDuplicated == ASSUME SafeToReload PROVE Spec => []NoDuplicates
<1>1. Init => ReloadInv
  <2> SUFFICES ASSUME Init PROVE ReloadInv
    OBVIOUS
  <2>1. \A w \in Workers : call[w].pc = "idle"
    BY DEF Init, NoCall
  <2>2. \A r \in Rows : replica[r] <= 1
    BY DEF Init
  <2> QED BY <2>1, <2>2, TypeInit DEF ReloadInv, ReloadAt, Active, At
<1>2. ReloadInv /\ [Next]_vars => ReloadInv'
  <2> SUFFICES ASSUME ReloadInv, [Next]_vars PROVE ReloadInv'
    OBVIOUS
  <2>1. TypeOK'
    BY TypeStep DEF ReloadInv
  <2>2. CASE HasKey
    BY <2>1, <2>2, KeyedStep
  <2>3. CASE ~HasKey
    <3>1. ASSUME NEW w \in Workers, CopyStep(w) \/ StopForPause(w) \/ TableError(w) \/ Crash(w) PROVE ReloadInv'
      BY <2>1, <2>3, <3>1, ReloadReads, ReloadWrites, ReloadEnds DEF CopyStep
    <3> QED BY <2>1, <2>3, <3>1, ReloadRest DEF Next
  <2> QED BY <2>2, <2>3
<1>3. ReloadInv => NoDuplicates
  BY DEF ReloadInv, NoDuplicates
<1> QED BY <1>1, <1>2, <1>3, PTL DEF Spec

-----------------------------------------------------------------------------
(* At most one batch is applied again.                                     *)

\* Unchanged rows that a resumed copy would write again.
Ahead == {r \in Unchanged : keyOf[r] > ckpt.cursor /\ replica[r] > 0}

\* Rows are written in key order, so these are the first ones after the cursor.
AheadIsBatch ==
  /\ Cardinality(Ahead) <= BatchSize
  /\ \A a \in Ahead, b \in Unchanged : keyOf[b] > ckpt.cursor /\ keyOf[b] < keyOf[a] => b \in Ahead

\* A copy works from the saved cursor, or saves none before the replica is new.
FromSaved(w) ==
  /\ call[w].pc \in {"probe", "prepare", "loop", "write", "finish"} => ckpt.saved
  /\ call[w].pc \in {"probe", "prepare", "mark", "loop", "write", "finish"} /\ ckpt.saved
        => call[w].cursor = ckpt.cursor
  /\ call[w].pc \in {"create", "mark"} /\ ~ckpt.saved => \A r \in Rows : replica[r] = 0
  /\ call[w].pc = "write" =>
       /\ Cardinality(call[w].page) <= BatchSize /\ call[w].todo \subseteq call[w].page
       /\ \A r \in call[w].page : keyOf[r] > call[w].cursor

BoundaryInv ==
  /\ CopyInv
  /\ ckpt.saved => AheadIsBatch
  /\ \A w \in Workers : FromSaved(w)

\* The rows ahead of the cursor grow neither by a change of the source nor by a
\* cursor that moves on.
LEMMA AheadShrinks ==
  ASSUME TypeOK, TypeOK', AheadIsBatch, Unchanged' \subseteq Unchanged, UNCHANGED replica,
         ckpt'.cursor >= ckpt.cursor
  PROVE  AheadIsBatch'
<1>1. ckpt.cursor \in Nat /\ ckpt'.cursor \in Nat
  BY DEF TypeOK, CkptType
<1>2. Unchanged \subseteq Rows /\ \A r \in Unchanged : keyOf[r] \in Nat
  BY KeyAssumption DEF TypeOK, Unchanged
<1>3. Ahead' \subseteq Ahead /\ Ahead \subseteq Rows
  BY <1>1, <1>2 DEF Ahead
<1>4. IsFiniteSet(Ahead) /\ Cardinality(Ahead) \in Nat
  BY <1>3, RowsAssumption, FS_Subset, FS_CardinalityType
<1>5. Cardinality(Ahead') <= Cardinality(Ahead) /\ Cardinality(Ahead') \in Nat
  BY <1>3, <1>4, FS_Subset, FS_CardinalityType
<1>6. \A a \in Ahead', b \in Unchanged' : keyOf[b] > ckpt'.cursor /\ keyOf[b] < keyOf[a] => b \in Ahead'
  BY <1>1, <1>2, <1>3 DEF Ahead, AheadIsBatch
<1> QED BY <1>4, <1>5, <1>6, BoundsAssumption DEF AheadIsBatch

\* While one worker moves the others are idle.
LEMMA BoundaryMove ==
  ASSUME CopyInv', NEW w \in Workers, Others(w), \A x \in Workers : x # w => At(x, "idle"),
         ckpt'.saved => AheadIsBatch', FromSaved(w)'
  PROVE  BoundaryInv'
<1>1. \A x \in Workers : x # w => call'[x].pc = "idle"
  BY DEF Others, At
<1>2. ASSUME NEW x \in Workers PROVE FromSaved(x)'
  <2>1. CASE x = w
    BY <2>1
  <2>2. CASE x # w
    BY <1>1, <2>2 DEF FromSaved
  <2> QED BY <2>1, <2>2
<1> QED BY <1>2 DEF BoundaryInv

\* The steps up to the page loop, and those that leave the copy.
LEMMA BoundaryQuiet ==
  ASSUME IntendedSetting, BoundaryInv, CopyInv', NEW w \in Workers,
         \/ GetStart(w) \/ ProbeReplica(w) \/ DropTable(w) \/ CreateTable(w) \/ CreateIfNotExists(w)
         \/ SaveStart(w) \/ SaveDone(w) \/ CompleteJob(w) \/ StopForPause(w) \/ TableError(w) \/ Crash(w)
  PROVE  BoundaryInv'
<1> USE DEF BoundaryInv, CopyInv
<1>0. TypeOK /\ TypeOK' /\ call \in [Workers -> CallType] /\ ckpt.cursor \in Nat
  BY DEF TypeOK, CkptType
<1>1. \A x \in Workers : x # w => At(x, "idle")
  BY DEF GetStart, ProbeReplica, DropTable, CreateTable, CreateIfNotExists, SaveStart, SaveDone, CompleteJob,
         StopForPause, TableError, Crash, Sessions, Active, At, IntendedSetting
<1>2. Unchanged' = Unchanged
  BY DEF GetStart, ProbeReplica, DropTable, CreateTable, CreateIfNotExists, SaveStart, SaveDone, CompleteJob,
         StopForPause, TableError, Crash, Unchanged
<1>3. CASE GetStart(w)
  <2>1. UNCHANGED <<replica, ckpt>>
    BY <1>3 DEF GetStart
  <2>2. ckpt'.saved => AheadIsBatch'
    BY <1>0, <1>2, <2>1, AheadShrinks
  <2>3. CASE Goto(w, "tableDone")
    BY <1>0, <1>1, <2>2, <2>3, GotoFacts, BoundaryMove DEF FromSaved
  <2>4. CASE Enter(w, "drop", FALSE, 0, 0)
    <3>1. call'[w].pc = "drop" /\ Others(w)
      BY <1>0, <2>4, EnterFacts
    <3>2. FromSaved(w)'
      BY <3>1 DEF FromSaved
    <3> QED BY <1>1, <2>2, <3>1, <3>2, BoundaryMove
  <2>5. CASE ckpt.saved /\ \E l \in {"probe", "prepare"} : Enter(w, l, TRUE, ckpt.cursor, ckpt.rows)
    <3>1. call'[w].pc \in {"probe", "prepare"} /\ call'[w].cursor = ckpt.cursor /\ Others(w)
      BY <1>0, <2>5, EnterFacts
    <3>2. FromSaved(w)'
      BY <2>1, <2>5, <3>1 DEF FromSaved
    <3> QED BY <1>1, <2>2, <3>1, <3>2, BoundaryMove
  <2> QED BY <1>3, <2>3, <2>4, <2>5 DEF GetStart, CanResume
<1>4. CASE ProbeReplica(w) \/ CreateIfNotExists(w)
  <2>1. UNCHANGED <<replica, ckpt>> /\ call[w].pc \in {"probe", "prepare"} /\ ckpt.saved
    BY <1>4 DEF ProbeReplica, CreateIfNotExists, At, FromSaved
  <2>2. Goto(w, "prepare") \/ Goto(w, "mark")
    BY <1>4, <2>1 DEF ProbeReplica, CreateIfNotExists, Sessions
  <2>3. call'[w].pc \in {"prepare", "mark"} /\ call'[w].cursor = call[w].cursor /\ Others(w)
    BY <1>0, <2>2, GotoFacts DEF SameLocals
  <2>4. FromSaved(w)'
    BY <2>1, <2>3 DEF FromSaved
  <2> QED BY <1>0, <1>1, <1>2, <2>1, <2>3, <2>4, AheadShrinks, BoundaryMove
<1>5. CASE DropTable(w)
  <2>1. ~ckpt.saved /\ UNCHANGED ckpt /\ \A r \in Rows : replica'[r] = 0
    BY <1>5 DEF DropTable, Sessions
  <2>2. call'[w].pc = "create" /\ Others(w)
    BY <1>0, <1>5, GotoFacts DEF DropTable
  <2>3. FromSaved(w)'
    BY <2>1, <2>2 DEF FromSaved
  <2> QED BY <1>1, <2>1, <2>2, <2>3, BoundaryMove
<1>6. CASE CreateTable(w)
  <2>1. ~ckpt.saved /\ UNCHANGED <<ckpt, replica>> /\ \A r \in Rows : replica[r] = 0
    BY <1>6 DEF CreateTable, Sessions, FromSaved, At
  <2>2. call'[w].pc \in {"mark", "idle"} /\ Others(w)
    BY <1>0, <1>6, GotoFacts, ExitFacts DEF CreateTable
  <2>3. FromSaved(w)'
    BY <2>1, <2>2 DEF FromSaved
  <2> QED BY <1>1, <2>1, <2>2, <2>3, BoundaryMove
<1>7. CASE SaveStart(w) \/ SaveDone(w)
  <2>1. /\ ckpt'.saved /\ ckpt'.cursor = call[w].cursor /\ UNCHANGED replica
        /\ call[w].pc \in {"mark", "finish"}
    BY <1>7 DEF SaveStart, SaveDone, Checkpoint, At
  <2>2. call'[w].pc \in {"loop", "tableDone"} /\ call'[w].cursor = call[w].cursor /\ Others(w)
    BY <1>0, <1>7, GotoFacts DEF SaveStart, SaveDone, SameLocals
  <2>3. AheadIsBatch'
    <3>1. CASE ckpt.saved
      <4>1. ckpt'.cursor = ckpt.cursor
        BY <2>1, <3>1 DEF FromSaved
      <4> QED BY <1>0, <1>2, <2>1, <3>1, <4>1, AheadShrinks
    <3>2. CASE ~ckpt.saved
      <4>1. \A r \in Rows : replica'[r] = 0
        BY <2>1, <3>2 DEF FromSaved
      <4>2. Ahead' = {}
        BY <1>0, <4>1 DEF Ahead, Unchanged, TypeOK
      <4>3. Cardinality(Ahead') <= BatchSize
        BY <4>2, FS_EmptySet, BoundsAssumption
      <4> QED BY <4>2, <4>3 DEF AheadIsBatch
    <3> QED BY <3>1, <3>2
  <2>4. FromSaved(w)'
    BY <2>1, <2>2 DEF FromSaved
  <2> QED BY <1>1, <2>2, <2>3, <2>4, BoundaryMove
<1>8. CASE CompleteJob(w) \/ StopForPause(w) \/ TableError(w) \/ Crash(w)
  <2>1. UNCHANGED <<replica, ckpt>>
    BY <1>8 DEF CompleteJob, StopForPause, TableError, Crash
  <2>2. call'[w].pc = "idle" /\ Others(w)
    BY <1>0, <1>8, ExitFacts DEF CompleteJob, StopForPause, TableError, Crash
  <2>3. FromSaved(w)'
    BY <2>2 DEF FromSaved
  <2> QED BY <1>0, <1>1, <1>2, <2>1, <2>2, <2>3, AheadShrinks, BoundaryMove
<1> QED BY <1>3, <1>4, <1>5, <1>6, <1>7, <1>8

\* With a key and no two rows of it, an upsert puts the row there and touches no
\* other one.
LEMMA KeyedWrite ==
  ASSUME IntendedSetting, TypeOK, NEW w \in Workers, NEW r \in Rows
  PROVE  Written(w, r)[r] = 1 /\ \A x \in Rows : x # r => Written(w, r)[x] = replica[x]
<1>1. ~Appends /\ replica \in [Rows -> Nat] /\ \A x \in Rows : keyOf[x] = keyOf[r] => x = r
  BY DEF Appends, IntendedSetting, UniqueKey, TypeOK
<1>2. CASE PlainInsert(w) \/ profile.match \in {"pk", "unique"}
  <2>1. Written(w, r) = [replica EXCEPT ![r] = 1]
    BY <1>1, <1>2, Zenon DEF Written
  <2> QED BY <1>1, <2>1
<1>3. CASE ~(PlainInsert(w) \/ profile.match \in {"pk", "unique"})
  <2>1. Written(w, r) = [x \in Rows |-> IF x = r THEN 1 ELSE IF keyOf[x] = keyOf[r] THEN 0 ELSE replica[x]]
    BY <1>1, <1>3, Zenon DEF Written
  <2> QED BY <1>1, <2>1
<1> QED BY <1>2, <1>3

\* The first row of the page that is still to be written.
LEMMA BoundaryWrite ==
  ASSUME IntendedSetting, BoundaryInv, CopyInv', NEW w \in Workers, WriteRow(w)
  PROVE  BoundaryInv'
<1> USE DEF BoundaryInv, CopyInv
<1>0. TypeOK /\ TypeOK' /\ call \in [Workers -> CallType] /\ ckpt.cursor \in Nat
  BY DEF TypeOK, CkptType
<1>1. /\ call[w].pc = "write" /\ UNCHANGED <<source, touched, ckpt>> /\ ckpt.saved
      /\ call[w].cursor = ckpt.cursor /\ Unchanged' = Unchanged
      /\ \A x \in Workers : x # w => At(x, "idle")
  BY DEF WriteRow, At, Sessions, Active, FromSaved, Unchanged
<1>2. PICK r \in call[w].todo :
        /\ \A x \in call[w].todo : keyOf[r] <= keyOf[x]
        /\ \/ replica' = Written(w, r) /\ call' = [call EXCEPT ![w].todo = @ \ {r}]
           \/ Exit(w) /\ UNCHANGED replica
  BY DEF WriteRow, Before, IntendedSetting
<1>3. CASE Exit(w) /\ UNCHANGED replica
  <2>1. call'[w].pc = "idle" /\ Others(w)
    BY <1>0, <1>3, ExitFacts
  <2>2. FromSaved(w)'
    BY <2>1 DEF FromSaved
  <2> QED BY <1>0, <1>1, <1>3, <2>1, <2>2, AheadShrinks, BoundaryMove
<1>4. CASE replica' = Written(w, r) /\ call' = [call EXCEPT ![w].todo = @ \ {r}]
  <2>1. /\ call'[w].pc = "write" /\ call'[w].cursor = call[w].cursor /\ call'[w].page = call[w].page /\ Others(w)
        /\ call[w].page \subseteq Rows /\ call[w].todo \subseteq Rows /\ call'[w].todo = call[w].todo \ {r}
    BY <1>0, <1>1, <1>4 DEF CallType, Others
  <2>2. r \in Rows /\ keyOf[r] \in Nat
    BY <2>1, KeyAssumption
  <2>3. replica'[r] = 1 /\ \A x \in Rows : x # r => replica'[x] = replica[x]
    BY <1>0, <1>4, <2>2, KeyedWrite
  <2>4. FromSaved(w)'
    BY <1>1, <2>1 DEF FromSaved
  <2>5. /\ Unchanged \subseteq Rows /\ Ahead \subseteq Rows /\ Ahead \subseteq Unchanged
        /\ \A x \in Rows : keyOf[x] \in Nat /\ replica[x] \in Nat
    BY <1>0, KeyAssumption DEF TypeOK, Unchanged, Ahead
  <2>6. \A x \in Rows : x # r => (x \in Ahead' <=> x \in Ahead)
    BY <1>1, <2>3 DEF Ahead
  <2>7. CASE r \notin Ahead'
    <3>1. Ahead' \subseteq Ahead /\ (r \in Unchanged => keyOf[r] <= ckpt.cursor)
      BY <1>1, <2>2, <2>3, <2>5, <2>6, <2>7, <1>0 DEF Ahead
    <3>2. Ahead' = Ahead
      BY <1>0, <2>2, <2>5, <2>6, <3>1 DEF Ahead
    <3>3. AheadIsBatch'
      BY <1>1, <3>2 DEF AheadIsBatch
    <3> QED BY <1>1, <2>1, <2>4, <3>3, BoundaryMove
  <2>8. CASE r \in Ahead
    <3>1. Ahead' = Ahead
      BY <1>1, <2>3, <2>5, <2>6, <2>8 DEF Ahead
    <3>2. AheadIsBatch'
      BY <1>1, <3>1 DEF AheadIsBatch
    <3> QED BY <1>1, <2>1, <2>4, <3>2, BoundaryMove
  <2>9. CASE r \in Ahead' /\ r \notin Ahead
    <3>1. r \in Unchanged /\ keyOf[r] > ckpt.cursor
      BY <1>1, <2>9 DEF Ahead
    <3>2. \A b \in Unchanged : keyOf[b] > ckpt.cursor /\ keyOf[b] <= keyOf[r] => b \in call[w].page
      <4>1. r \in call[w].page
        BY <1>1 DEF FromSaved
      <4> QED BY <1>1, <4>1 DEF Coverage, PageInv, At
    <3>3. \A b \in Unchanged : keyOf[b] > ckpt.cursor /\ keyOf[b] < keyOf[r] => b \in Ahead
      <4> SUFFICES ASSUME NEW b \in Unchanged, keyOf[b] > ckpt.cursor, keyOf[b] < keyOf[r] PROVE b \in Ahead
        OBVIOUS
      <4>1. b \in call[w].page /\ b \notin call[w].todo
        BY <1>2, <2>2, <2>5, <3>2
      <4>2. replica[b] >= 1
        BY <1>1, <4>1 DEF Coverage, PageInv, At
      <4> QED BY <2>5, <4>2 DEF Ahead
    <3>4. \A a \in Ahead : keyOf[a] < keyOf[r]
      <4> SUFFICES ASSUME NEW a \in Ahead PROVE keyOf[a] < keyOf[r]
        OBVIOUS
      <4>1. a # r /\ a \in Rows /\ ~(keyOf[r] < keyOf[a])
        BY <1>1, <2>5, <2>9, <3>1 DEF AheadIsBatch
      <4>2. keyOf[a] # keyOf[r]
        BY <2>2, <4>1 DEF IntendedSetting, UniqueKey
      <4> QED BY <2>2, <2>5, <4>1, <4>2
    <3>5. Ahead' = Ahead \cup {r}
      BY <2>2, <2>5, <2>6, <2>9, <1>1 DEF Ahead
    <3>6. Ahead' \subseteq call[w].page
      <4>1. \A a \in Ahead : a \in Unchanged /\ keyOf[a] > ckpt.cursor
        BY DEF Ahead
      <4>2. \A a \in Ahead : a \in call[w].page
        BY <2>2, <2>5, <3>2, <3>4, <4>1
      <4>3. r \in call[w].page
        BY <2>2, <3>1, <3>2
      <4> QED BY <3>5, <4>2, <4>3
    <3>7. Cardinality(Ahead') <= BatchSize
      <4>1. IsFiniteSet(call[w].page) /\ Cardinality(call[w].page) \in Nat /\ Cardinality(call[w].page) <= BatchSize
        BY <1>1, <2>1, RowsAssumption, FS_Subset, FS_CardinalityType DEF FromSaved
      <4>2. Cardinality(Ahead') <= Cardinality(call[w].page) /\ Cardinality(Ahead') \in Nat
        BY <3>6, <4>1, FS_Subset, FS_CardinalityType
      <4> QED BY <4>1, <4>2, BoundsAssumption
    <3>8. \A a \in Ahead', b \in Unchanged' : keyOf[b] > ckpt'.cursor /\ keyOf[b] < keyOf[a] => b \in Ahead'
      <4>1. \A a \in Ahead, b \in Unchanged : keyOf[b] > ckpt.cursor /\ keyOf[b] < keyOf[a] => b \in Ahead
        BY <1>1 DEF AheadIsBatch
      <4> QED BY <1>1, <3>3, <3>5, <4>1
    <3>9. AheadIsBatch'
      BY <3>7, <3>8 DEF AheadIsBatch
    <3> QED BY <1>1, <2>1, <2>4, <3>9, BoundaryMove
  <2> QED BY <2>7, <2>8, <2>9
<1> QED BY <1>2, <1>3, <1>4

\* Reading a page, and moving on behind it.
LEMMA BoundaryPage ==
  ASSUME IntendedSetting, BoundaryInv, CopyInv', NEW w \in Workers, ReadPage(w) \/ SaveProgress(w)
  PROVE  BoundaryInv'
<1> USE DEF BoundaryInv, CopyInv
<1>0. TypeOK /\ TypeOK' /\ call \in [Workers -> CallType] /\ ckpt.cursor \in Nat
  BY DEF TypeOK, CkptType
<1>1. CASE ReadPage(w)
  <2>1. /\ call[w].pc = "loop" /\ UNCHANGED <<source, touched, ckpt, replica>> /\ ckpt.saved
        /\ call[w].cursor = ckpt.cursor /\ Unchanged' = Unchanged
        /\ \A x \in Workers : x # w => At(x, "idle")
    BY <1>1 DEF ReadPage, At, Sessions, Active, FromSaved, Unchanged
  <2>2. PICK P \in SUBSET source :
          /\ IsPage(P, call[w].cursor)
          /\ call' = [call EXCEPT ![w] = [call[w] EXCEPT !.pc = IF P = {} THEN "finish" ELSE "write",
                                                         !.page = P, !.todo = P]]
    BY <1>1 DEF ReadPage
  <2>3. /\ call'[w].pc \in {"finish", "write"} /\ call'[w].page = P /\ call'[w].todo = P
        /\ call'[w].cursor = call[w].cursor /\ Others(w)
    BY <1>0, <2>2 DEF CallType, Others
  <2>4. Cardinality(P) <= BatchSize
    BY <2>2, BoundsAssumption DEF IsPage
  <2>5. \A r \in P : keyOf[r] > call[w].cursor
    BY <2>2 DEF IsPage, Beyond, IntendedSetting
  <2>6. FromSaved(w)'
    BY <2>1, <2>3, <2>4, <2>5 DEF FromSaved
  <2> QED BY <1>0, <2>1, <2>3, <2>6, AheadShrinks, BoundaryMove
<1>2. CASE SaveProgress(w)
  <2>1. /\ call[w].pc = "write" /\ UNCHANGED <<source, touched, replica>> /\ ckpt'.saved /\ Others(w)
        /\ ckpt'.cursor \in PageEnds(call[w].page, call[w].cursor)
        /\ \/ call'[w].pc = "idle"
           \/ call'[w].pc \in {"finish", "loop"} /\ call'[w].cursor = ckpt'.cursor
    BY <1>0, <1>2, ProgressFacts
  <2>2. /\ ckpt.saved /\ call[w].cursor = ckpt.cursor /\ Unchanged' = Unchanged
        /\ \A x \in Workers : x # w => At(x, "idle")
    BY <2>1 DEF At, Sessions, Active, FromSaved, Unchanged
  <2>3. PICK last \in call[w].page : ckpt'.cursor = keyOf[last]
    BY <2>1 DEF PageEnds, IntendedSetting
  <2>4. ckpt'.cursor >= ckpt.cursor
    <3>1. keyOf[last] > ckpt.cursor
      BY <2>1, <2>2 DEF FromSaved
    <3>2. ckpt'.cursor \in Nat
      BY <1>0 DEF TypeOK, CkptType
    <3> QED BY <1>0, <2>3, <3>1, <3>2
  <2>5. FromSaved(w)'
    BY <2>1 DEF FromSaved
  <2> QED BY <1>0, <2>1, <2>2, <2>4, <2>5, AheadShrinks, BoundaryMove
<1> QED BY <1>1, <1>2

\* "Re-applying at most one boundary batch": whatever crashes, resumes and
\* changes of the source, a copy that goes on from its checkpoint writes no more
\* than one batch of unchanged rows a second time.
THEOREM OneBatchAgain ==
  ASSUME IntendedSetting
  PROVE  Spec => []OneBatchReapplied
<1>1. Init => BoundaryInv
  <2>1. Init => CopyInv
    BY InvInit
  <2>2. Init => ~ckpt.saved /\ \A w \in Workers : FromSaved(w)
    BY DEF Init, NoCheckpoint, NoCall, FromSaved
  <2> QED BY <2>1, <2>2 DEF BoundaryInv
<1>2. BoundaryInv /\ [Next]_vars => BoundaryInv'
  <2> SUFFICES ASSUME BoundaryInv, [Next]_vars PROVE BoundaryInv'
    OBVIOUS
  <2>1. CopyInv /\ CopyInv' /\ TypeOK /\ TypeOK' /\ ckpt.cursor \in Nat
    BY InvStep DEF BoundaryInv, CopyInv, TypeOK, CkptType
  <2>2. ASSUME NEW w \in Workers, CopyStep(w) \/ StopForPause(w) \/ TableError(w) \/ Crash(w) PROVE BoundaryInv'
    BY <2>1, <2>2, BoundaryQuiet, BoundaryWrite, BoundaryPage DEF CopyStep
  <2>3. CASE ResumeJob \/ UNCHANGED vars \/ \E r \in Rows : SourceChange(r)
    <3>1. UNCHANGED <<replica, ckpt, call>> /\ Unchanged' \subseteq Unchanged
      BY <2>3 DEF ResumeJob, vars, SourceChange, Unchanged
    <3>2. ckpt'.saved => AheadIsBatch'
      BY <2>1, <3>1, AheadShrinks DEF BoundaryInv
    <3>3. \A w \in Workers : FromSaved(w)'
      BY <3>1 DEF BoundaryInv, FromSaved
    <3> QED BY <2>1, <3>2, <3>3 DEF BoundaryInv
  <2>4. CASE DropReplica
    BY <2>4 DEF DropReplica, IntendedSetting
  <2> QED BY <2>2, <2>3, <2>4 DEF Next
<1>3. BoundaryInv => OneBatchReapplied
  BY DEF BoundaryInv, AheadIsBatch, Ahead, OneBatchReapplied, Stable, Unchanged, IntendedSetting
<1> QED BY <1>1, <1>2, <1>3, PTL DEF Spec
=============================================================================
