------------------------ MODULE CdcReplicationProofs ------------------------
(***************************************************************************)
(* Proof that change capture loses nothing in the setting it is built for: *)
(* one CDC job per source table, a trigger that is replaced atomically     *)
(* (Oracle), source transactions that commit in sequence order, and        *)
(* immutable primary keys.  Without any one of these conditions the        *)
(* property fails: TLC refutes NothingLost when the constant is changed.   *)
(***************************************************************************)
EXTENDS CdcReplication, TLAPS, FiniteSetTheorems

\* The setting: each conjunct excludes one way to lose a change.
CdcSetting ==
  /\ SourceEngine = "ORACLE" /\ ~Hub /\ SerialWriters /\ ~KeyUpdates
  /\ \A i, j \in Jobs : i = j

Running(j) == ~At(j, "off")
InSnapshot(j) == run[j].pc \in {"fresh", "page", "upsert", "baseline"}
InDrain(j) == run[j].pc \in {"drain", "apply", "prune"}
IsPending(k, s) == \E e \in outbox : e.key = k /\ e.seq > s
Caught(j, s, k) == IsPending(k, s) \/ replica[j][k] = source[k]

\* An open transaction writes one row; its change, if captured, says the same.
TxnShape ==
  /\ \A w \in Writers :
       \/ txn[w] = NoTxn
       \/ \E k \in Keys, v \in Row :
            /\ txn[w].writes = {<<k, v>>}
            /\ \/ txn[w].change = {}
               \/ \E s \in 1..nextSeq : txn[w].change = {[seq |-> s, key |-> k, val |-> v]}
  /\ \A w, x \in Writers : Open(w) /\ Open(x) => w = x

\* Once a job has started, or a change was ever captured, every change is.
Capturing ==
  /\ armed \in {{}, Ops}
  /\ \/ outbox # {}
     \/ \E w \in Writers : txn[w].change # {}
     \/ \E j \in Jobs : Running(j) \/ pos[j] >= 0
     => armed = Ops /\ \A w \in Writers : Open(w) => txn[w].change # {}

\* Sequence numbers: committed ones are distinct, and an open transaction's is
\* above all of them and above every position.
SeqOrder ==
  /\ \A e \in outbox : e.seq < nextSeq
  /\ \A e, f \in outbox : e.seq = f.seq => e = f
  /\ \A j \in Jobs : pos[j] < nextSeq /\ run[j].seq < nextSeq
  /\ \A w \in Writers : \A c \in txn[w].change :
       /\ c.seq < nextSeq
       /\ \A e \in outbox : e.seq < c.seq
       /\ \A j \in Jobs : pos[j] < c.seq /\ run[j].seq < c.seq

\* The newest outbox row of a key carries the key's committed value.
NewestIsCurrent ==
  \A k \in Keys : (\E f \in outbox : f.key = k) =>
    \E e \in outbox : /\ e.key = k /\ e.val = source[k]
                      /\ \A f \in outbox : f.key = k => f.seq <= e.seq

\* What a drain has left to apply.
DrainState ==
  \A j \in Jobs : InDrain(j) =>
    /\ pos[j] >= 0 /\ pos[j] <= run[j].seq
    /\ \A k \in Keys : Caught(j, run[j].seq, k)
    /\ ~At(j, "apply") => pos[j] = run[j].seq
    /\ At(j, "apply") =>
         /\ run[j].todo \subseteq outbox
         /\ \A c \in run[j].todo : c.seq > run[j].seq
         /\ \A e \in outbox \ run[j].todo : e.seq > run[j].seq =>
              \A c \in run[j].todo : c.seq < e.seq

\* How far a snapshot has come: caught up to the cursor, empty beyond it, and
\* the page in hand is what the source still holds or a pending change.
SnapshotAt(j) ==
  /\ pos[j] = -1
  /\ At(j, "baseline") => \A k \in Keys : Caught(j, run[j].seq, k)
  /\ run[j].pc \in {"page", "upsert"} =>
       \A k \in Keys : IF k <= run[j].cursor THEN Caught(j, run[j].seq, k)
                                             ELSE replica[j][k] = Absent
  /\ At(j, "upsert") =>
       \A k \in Keys :
         /\ InPage(j, k) => /\ k > run[j].cursor
                            /\ run[j].img[k] = source[k] \/ IsPending(k, run[j].seq)
         /\ /\ k > run[j].cursor /\ ~InPage(j, k)
            /\ run[j].short \/ \E p \in Keys : InPage(j, p) /\ k < p
            => source[k] = Absent \/ IsPending(k, run[j].seq)

SnapshotState ==
  \A j \in Jobs :
    /\ run[j].pc \in {"off", "position", "fresh"} => run[j].cursor = 0
    /\ InSnapshot(j) => SnapshotAt(j)

\* A job with a position is caught up, or the outbox still holds the change.
Positioned == \A j \in Jobs : pos[j] >= 0 => \A k \in Keys : Caught(j, pos[j], k)

CdcInv ==
  /\ TypeOK /\ TxnShape /\ Capturing /\ SeqOrder /\ NewestIsCurrent
  /\ DrainState /\ SnapshotState /\ Positioned

-----------------------------------------------------------------------------
(* Types, for every setting.                                               *)

\* MySQL arms one trigger per operation, the other engines one for all three.
LEMMA TriggersFacts ==
  Len(Triggers) \in Nat \ {0} /\ \A i \in 1..Len(Triggers) : Triggers[i] \subseteq Ops
  <1>1. CASE SourceEngine = "MYSQL"
    BY <1>1 DEF Triggers, Ops
  <1>2. CASE SourceEngine # "MYSQL"
    BY <1>2 DEF Triggers, Ops
  <1> QED
    BY <1>1, <1>2

\* The local state of a job that is not running.
LEMMA OffType == Off \in RunType /\ Empty \in Image
  BY TriggersFacts DEF Off, RunType, Labels, Empty, Image, Row

\* A run record keeps its type whichever of its fields a step updates.
LEMMA RunUpdates ==
  ASSUME NEW r \in RunType, NEW l \in Labels
  PROVE  /\ [r EXCEPT !.pc = l] \in RunType
         /\ \A n \in Nat : [r EXCEPT !.pc = l, !.seq = n] \in RunType
         /\ \A i \in 1..Len(Triggers) : [r EXCEPT !.pc = l, !.arm = i] \in RunType
         /\ \A b \in BOOLEAN : [r EXCEPT !.pc = l, !.applied = b] \in RunType
         /\ \A b \in BOOLEAN, g \in Image : [r EXCEPT !.pc = l, !.short = b, !.img = g] \in RunType
         /\ \A n \in Nat, g \in Image : [r EXCEPT !.pc = l, !.cursor = n, !.img = g] \in RunType
         /\ \A b \in BOOLEAN, B \in SUBSET Change :
              [r EXCEPT !.pc = l, !.todo = B, !.short = b] \in RunType
         /\ \A n \in Nat, B \in SUBSET Change : [r EXCEPT !.todo = B, !.seq = n] \in RunType
  BY DEF RunType

\* Replacing one job's record.
LEMMA RunReplace ==
  ASSUME TypeOK, NEW j \in Jobs, NEW r \in RunType, run' = [run EXCEPT ![j] = r]
  PROVE  run' \in [Jobs -> RunType]
  BY DEF TypeOK

\* What the type invariant says of one job.
LEMMA JobTypes ==
  ASSUME TypeOK, NEW j \in Jobs
  PROVE  /\ run[j] \in RunType /\ replica[j] \in Image /\ pos[j] \in Nat \union {-1}
         /\ run[j].arm \in 1..Len(Triggers) /\ run[j].seq \in Nat /\ run[j].cursor \in Nat
         /\ run[j].todo \subseteq Change /\ run[j].img \in Image
  BY DEF TypeOK, RunType

\* Init establishes the type invariant.
LEMMA TypeInit == Init => TypeOK
  <1> SUFFICES ASSUME Init PROVE TypeOK
    OBVIOUS
  <1>1. NoTxn \in [writes : SUBSET (Keys \X Row), change : SUBSET Change]
    BY DEF NoTxn
  <1>2. Off \in RunType /\ Empty \in Image
    BY OffType
  <1>3. replica \in [Jobs -> Image]
    BY <1>2 DEF Init
  <1> QED
    BY <1>1, <1>2, <1>3, CdcBounds DEF Init, TypeOK

\* Source transactions keep the type invariant.
LEMMA TypeSource ==
  ASSUME TypeOK, NEW w \in Writers,
         \/ \E k \in Keys, v \in Row : Write(w, k, v)
         \/ \E k, n \in Keys : WriteKey(w, k, n)
         \/ Commit(w) \/ Rollback(w)
  PROVE  TypeOK'
  <1>1. ASSUME NEW op, NEW k \in Keys, NEW v \in Row PROVE Capture(op, k, v) \subseteq Change
    BY DEF Capture, Change, TypeOK
  <1>2. nextSeq + 1 \in Nat \ {0}
    BY DEF TypeOK
  <1>3. CASE \E k \in Keys, v \in Row : Write(w, k, v)
    <2> PICK k \in Keys, v \in Row : Write(w, k, v)
      BY <1>3
    <2>1. [writes |-> {<<k, v>>}, change |-> Capture(OpOf(k, v), k, v)]
            \in [writes : SUBSET (Keys \X Row), change : SUBSET Change]
      BY <1>1
    <2> HIDE DEF Change, Capture, OpOf
    <2> QED
      BY <2>1, <1>2 DEF Write, TypeOK
  <1>4. CASE \E k, n \in Keys : WriteKey(w, k, n)
    <2> PICK k \in Keys, n \in Keys : WriteKey(w, k, n)
      BY <1>4
    <2>0. source[k] \in Row
      BY DEF TypeOK, Image
    <2>1. [writes |-> {<<k, Absent>>, <<n, source[k]>>}, change |-> Capture("U", n, source[k])]
            \in [writes : SUBSET (Keys \X Row), change : SUBSET Change]
      BY <1>1, <2>0 DEF Row
    <2> HIDE DEF Change, Capture
    <2> QED
      BY <2>1, <1>2 DEF WriteKey, TypeOK
  <1>5. CASE Commit(w)
    <2>1. /\ txn[w].writes \subseteq Keys \X Row /\ txn[w].change \subseteq Change
          /\ NoTxn \in [writes : SUBSET (Keys \X Row), change : SUBSET Change]
      BY DEF TypeOK, NoTxn
    <2>2. ASSUME NEW k \in Keys, \E x \in txn[w].writes : x[1] = k
          PROVE  (CHOOSE x \in txn[w].writes : x[1] = k)[2] \in Row
      <3>1. (CHOOSE x \in txn[w].writes : x[1] = k) \in txn[w].writes
        BY <2>2
      <3> QED
        BY <3>1, <2>1
    <2>3. source' \in Image
      BY <1>5, <2>2 DEF Commit, TypeOK, Image
    <2> QED
      BY <1>5, <2>1, <2>3 DEF Commit, TypeOK
  <1>6. CASE Rollback(w)
    <2>1. NoTxn \in [writes : SUBSET (Keys \X Row), change : SUBSET Change]
      BY DEF NoTxn
    <2> QED
      BY <1>6, <2>1 DEF Rollback, TypeOK
  <1> QED
    BY <1>3, <1>4, <1>5, <1>6

\* The steps of a run keep the type invariant.
LEMMA TypeRun ==
  ASSUME TypeOK, NEW j \in Jobs, cdcRun(j) \/ RunFails(j)
  PROVE  TypeOK'
  <1>0. /\ run[j] \in RunType /\ replica[j] \in Image /\ pos[j] \in Nat \union {-1}
        /\ run[j].arm \in 1..Len(Triggers) /\ run[j].seq \in Nat /\ run[j].cursor \in Nat
        /\ run[j].todo \subseteq Change /\ run[j].img \in Image
    BY JobTypes
  <1>1. ASSUME NEW l \in Labels, Step(j, l) PROVE run' \in [Jobs -> RunType]
    <2>1. [run[j] EXCEPT !.pc = l] \in RunType
      BY <1>0, RunUpdates
    <2>2. run' = [run EXCEPT ![j] = [run[j] EXCEPT !.pc = l]]
      BY <1>1 DEF Step
    <2> QED
      BY <2>1, <2>2, RunReplace
  <1>2. ASSUME Stop(j) PROVE run' \in [Jobs -> RunType]
    BY <1>2, OffType, RunReplace DEF Stop
  <1>3. CASE EnsureReplace(j)
    BY <1>3, <1>1 DEF EnsureReplace, TypeOK, Labels
  <1>4. CASE EnsureDrop(j)
    BY <1>4, <1>1 DEF EnsureDrop, TypeOK, Labels
  <1>5. CASE EnsureCreate(j)
    <2>1. armed' \subseteq Ops
      BY <1>5, <1>0, TriggersFacts DEF EnsureCreate, TypeOK
    <2>2. CASE run[j].arm < Len(Triggers)
               /\ run' = [run EXCEPT ![j] = [@ EXCEPT !.pc = "dropNext", !.arm = run[j].arm + 1]]
      <3>1. run[j].arm + 1 \in 1..Len(Triggers)
        BY <2>2, <1>0, TriggersFacts
      <3>2. run' = [run EXCEPT ![j] = [run[j] EXCEPT !.pc = "dropNext", !.arm = run[j].arm + 1]]
        BY <2>2
      <3>3. [run[j] EXCEPT !.pc = "dropNext", !.arm = run[j].arm + 1] \in RunType
        BY <3>1, <1>0, RunUpdates DEF Labels
      <3>4. run' \in [Jobs -> RunType]
        BY <3>2, <3>3, RunReplace
      <3> QED
        BY <1>5, <2>1, <3>4 DEF EnsureCreate, TypeOK
    <2>3. CASE Step(j, "position") \/ Stop(j)
      <3>1. run' \in [Jobs -> RunType]
        BY <2>3, <1>1, <1>2 DEF Labels
      <3> QED
        BY <1>5, <2>1, <3>1 DEF EnsureCreate, TypeOK
    <2> QED
      BY <1>5, <2>2, <2>3 DEF EnsureCreate
  <1>6. CASE StartAtPosition(j)
    <2>1. [run[j] EXCEPT !.pc = "drain", !.seq = pos[j]] \in RunType
      <3>1. pos[j] \in Nat
        BY <1>6, <1>0 DEF StartAtPosition
      <3> QED
        BY <3>1, <1>0, RunUpdates DEF Labels
    <2>2. run' \in [Jobs -> RunType]
      BY <1>6, <2>1, RunReplace DEF StartAtPosition
    <2> QED
      BY <1>6, <2>2 DEF StartAtPosition, TypeOK
  <1>7. CASE TakeMaxSeq(j)
    <2> DEFINE l == IF Hub THEN "baseline" ELSE "fresh"
    <2>1. PICK s \in 0..nextSeq : run' = [run EXCEPT ![j] = [run[j] EXCEPT !.pc = l, !.seq = s]]
      BY <1>7 DEF TakeMaxSeq
    <2>2. s \in Nat /\ l \in Labels
      BY DEF TypeOK, Labels
    <2> HIDE DEF l
    <2>3. [run[j] EXCEPT !.pc = l, !.seq = s] \in RunType
      BY <2>2, <1>0, RunUpdates
    <2>4. run' \in [Jobs -> RunType]
      BY <2>1, <2>3, RunReplace
    <2> QED
      BY <1>7, <2>4 DEF TakeMaxSeq, TypeOK
  <1>8. CASE EnsureFresh(j)
    BY <1>8, <1>1, OffType DEF EnsureFresh, TypeOK, Labels
  <1>9. CASE ReadPage(j)
    <2>1. PICK P \in SUBSET Keys :
          run' = [run EXCEPT ![j] =
                    [run[j] EXCEPT !.pc = IF P = {} THEN "baseline" ELSE "upsert",
                              !.short = Cardinality(P) < BatchSize,
                              !.img = [k \in Keys |-> IF k \in P THEN source[k] ELSE Absent]]]
      BY <1>9 DEF ReadPage
    <2> DEFINE l == IF P = {} THEN "baseline" ELSE "upsert"
               sh == Cardinality(P) < BatchSize
               g == [k \in Keys |-> IF k \in P THEN source[k] ELSE Absent]
    <2>2. g \in Image /\ sh \in BOOLEAN /\ l \in Labels
      BY DEF TypeOK, Image, Row, Labels
    <2>3. run' = [run EXCEPT ![j] = [run[j] EXCEPT !.pc = l, !.short = sh, !.img = g]]
      BY <2>1
    <2> HIDE DEF l, sh, g
    <2>4. [run[j] EXCEPT !.pc = l, !.short = sh, !.img = g] \in RunType
      BY <2>2, <1>0, RunUpdates
    <2>5. run' \in [Jobs -> RunType]
      BY <2>3, <2>4, RunReplace
    <2> QED
      BY <1>9, <2>5 DEF ReadPage, TypeOK
  <1>10. CASE UpsertPage(j)
    <2>1. [k \in Keys |-> IF InPage(j, k) THEN run[j].img[k] ELSE replica[j][k]] \in Image
      BY <1>0 DEF Image
    <2>2. replica' \in [Jobs -> Image]
      BY <1>10, <2>1 DEF UpsertPage, TypeOK
    <2> DEFINE l == IF run[j].short THEN "baseline" ELSE "page"
    <2>3. PICK last \in Keys :
            run' = [run EXCEPT ![j] = [run[j] EXCEPT !.pc = l, !.cursor = last, !.img = Empty]]
      BY <1>10 DEF UpsertPage
    <2>4. last \in Nat /\ l \in Labels
      BY KeysAssumption DEF Labels
    <2> HIDE DEF l
    <2>5. [run[j] EXCEPT !.pc = l, !.cursor = last, !.img = Empty] \in RunType
      BY <2>4, <1>0, OffType, RunUpdates
    <2>6. run' \in [Jobs -> RunType]
      BY <2>3, <2>5, RunReplace
    <2> QED
      BY <1>10, <2>2, <2>6 DEF UpsertPage, TypeOK
  <1>11. CASE SaveBaseline(j)
    BY <1>11, <1>0, <1>2 DEF SaveBaseline, TypeOK
  <1>12. CASE ReadChanges(j)
    <2> DEFINE sh(B) == Cardinality(B) < BatchSize
    <2>1. PICK B \in SUBSET outbox :
          \/ run' = [run EXCEPT ![j] = [run[j] EXCEPT !.pc = "apply", !.todo = B, !.short = sh(B)]]
          \/ Step(j, "prune")
          \/ Stop(j)
      BY <1>12 DEF ReadChanges
    <2>2. B \in SUBSET Change /\ sh(B) \in BOOLEAN
      BY DEF TypeOK
    <2> HIDE DEF sh
    <2>3. [run[j] EXCEPT !.pc = "apply", !.todo = B, !.short = sh(B)] \in RunType
      BY <2>2, <1>0, RunUpdates DEF Labels
    <2>4. run' \in [Jobs -> RunType]
      BY <2>1, <2>3, <1>1, <1>2, RunReplace DEF Labels
    <2> QED
      BY <1>12, <2>4 DEF ReadChanges, TypeOK
  <1>13. CASE ApplyChange(j)
    <2>1. PICK c \in run[j].todo :
          /\ replica' = [replica EXCEPT ![j][c.key] = c.val]
          /\ run' = [run EXCEPT ![j] = [run[j] EXCEPT !.todo = run[j].todo \ {c}, !.seq = c.seq]]
      BY <1>13 DEF ApplyChange
    <2>2. c \in Change /\ c.key \in Keys /\ c.val \in Row /\ c.seq \in Nat
      BY <1>0 DEF Change
    <2>3. replica' \in [Jobs -> Image]
      BY <1>0, <2>1, <2>2 DEF TypeOK, Image
    <2>4. [run[j] EXCEPT !.todo = run[j].todo \ {c}, !.seq = c.seq] \in RunType
      <3>1. run[j].todo \ {c} \in SUBSET Change
        BY <1>0
      <3> QED
        BY <3>1, <2>2, <1>0, RunUpdates DEF Labels
    <2>5. run' \in [Jobs -> RunType]
      BY <2>1, <2>4, RunReplace
    <2> QED
      BY <1>13, <2>3, <2>5 DEF ApplyChange, TypeOK
  <1>14. CASE SavePosition(j)
    <2> DEFINE l == IF run[j].short THEN "prune" ELSE "drain"
    <2>1. run' = [run EXCEPT ![j] = [run[j] EXCEPT !.pc = l, !.applied = TRUE]]
      BY <1>14 DEF SavePosition
    <2>2. l \in Labels
      BY DEF Labels
    <2> HIDE DEF l
    <2>3. [run[j] EXCEPT !.pc = l, !.applied = TRUE] \in RunType
      BY <2>2, <1>0, RunUpdates
    <2>4. run' \in [Jobs -> RunType]
      BY <2>1, <2>3, RunReplace
    <2> QED
      BY <1>14, <1>0, <2>4 DEF SavePosition, TypeOK
  <1>15. CASE Prune(j)
    BY <1>15, <1>2 DEF Prune, Pending, TypeOK
  <1>16. CASE RunFails(j)
    BY <1>16, <1>2 DEF RunFails, TypeOK
  <1> QED
    BY <1>3, <1>4, <1>5, <1>6, <1>7, <1>8, <1>9, <1>10, <1>11, <1>12, <1>13, <1>14, <1>15, <1>16
       DEF cdcRun

\* Every step keeps the type invariant.
LEMMA TypeStep == TypeOK /\ [Next]_vars => TypeOK'
  <1> SUFFICES ASSUME TypeOK, [Next]_vars PROVE TypeOK'
    OBVIOUS
  <1>1. CASE UNCHANGED vars
    BY <1>1 DEF vars, TypeOK
  <1>2. CASE Next
    BY <1>2, TypeSource, TypeRun DEF Next
  <1> QED
    BY <1>1, <1>2

\* Whatever the engine, the writers and the number of jobs: outbox rows, open
\* transactions, positions and runs keep their shape.
THEOREM CdcTypeOK == Spec => []TypeOK
  <1> QED
    BY TypeInit, TypeStep, PTL DEF Spec

-----------------------------------------------------------------------------
(* The inductive invariant.                                                *)

\* Init establishes the invariant.
LEMMA InvInit == CdcSetting /\ Init => CdcInv
  <1> SUFFICES ASSUME CdcSetting, Init PROVE CdcInv
    OBVIOUS
  <1>1. TypeOK
    BY TypeInit
  <1>2. TxnShape
    BY DEF Init, TxnShape, Open, NoTxn
  <1>3. \A j \in Jobs : run[j].pc = "off" /\ run[j].seq = 0 /\ run[j].cursor = 0 /\ pos[j] = -1
    BY DEF Init, Off
  <1>4. Capturing /\ DrainState /\ SnapshotState /\ Positioned
    BY <1>3 DEF Init, Capturing, NoTxn, Open, Running, At, DrainState, InDrain, SnapshotState, InSnapshot, Positioned
  <1>5. SeqOrder /\ NewestIsCurrent
    BY <1>3 DEF Init, SeqOrder, NewestIsCurrent, NoTxn
  <1> QED
    BY <1>1, <1>2, <1>4, <1>5 DEF CdcInv

\* A statement opens a transaction: its change gets the newest sequence number.
LEMMA WriteInv ==
  ASSUME CdcSetting, CdcInv, TypeOK', NEW w \in Writers, NEW k \in Keys, NEW v \in Row,
         Write(w, k, v)
  PROVE  CdcInv'
  <1> USE DEF CdcInv
  <1>1. /\ \A x \in Writers : txn[x] = NoTxn /\ ~Open(x)
        /\ \A x \in Writers : x # w => txn'[x] = NoTxn
        /\ txn'[w] = [writes |-> {<<k, v>>}, change |-> Capture(OpOf(k, v), k, v)]
        /\ UNCHANGED <<source, armed, outbox, replica, pos, run>>
    BY DEF Write, MayWrite, CdcSetting, TypeOK, TxnShape, Open
  <1>2. OpOf(k, v) \in Ops
    BY DEF OpOf, Ops
  <1>3. /\ OpOf(k, v) \in armed => /\ nextSeq' = nextSeq + 1
                                   /\ txn'[w].change = {[seq |-> nextSeq, key |-> k, val |-> v]}
        /\ OpOf(k, v) \notin armed => nextSeq' = nextSeq /\ txn'[w].change = {}
    BY <1>1 DEF Write, Capture
  <1>4. nextSeq \in Nat \ {0}
    BY DEF TypeOK
  <1>5. TxnShape'
    <2>1. \A x, y \in Writers : Open(x)' /\ Open(y)' => x = y
      BY <1>1 DEF Open, NoTxn
    <2>2. txn'[w].writes = {<<k, v>>}
      BY <1>1
    <2>3. \/ txn'[w].change = {}
          \/ \E s \in 1..nextSeq' : txn'[w].change = {[seq |-> s, key |-> k, val |-> v]}
      BY <1>3, <1>4
    <2> QED
      BY <1>1, <2>1, <2>2, <2>3 DEF TxnShape
  <1>6. Capturing'
    BY <1>1, <1>2, <1>3 DEF Capturing, Running, At, Open, NoTxn
  <1>7. SeqOrder'
    <2>1. \A e \in outbox : e.seq \in Nat
      BY DEF TypeOK, Change
    <2>2. \A j \in Jobs : run[j].seq \in Nat /\ pos[j] \in Int
      BY JobTypes
    <2>3. \A c \in txn'[w].change : c.seq = nextSeq /\ nextSeq' = nextSeq + 1
      BY <1>3
    <2> QED
      BY <1>1, <1>3, <1>4, <2>1, <2>2, <2>3 DEF SeqOrder, NoTxn
  <1>8. NewestIsCurrent' /\ Positioned'
    BY <1>1 DEF NewestIsCurrent, Positioned, Caught, IsPending
  <1>9. DrainState' /\ SnapshotState'
    BY <1>1 DEF DrainState, SnapshotState, SnapshotAt, InDrain, InSnapshot, At, Caught, IsPending,
                InPage
  <1> QED
    BY <1>5, <1>6, <1>7, <1>8, <1>9

\* ROLLBACK leaves only a gap in the sequence.
LEMMA RollbackInv ==
  ASSUME CdcSetting, CdcInv, TypeOK', NEW w \in Writers, Rollback(w)
  PROVE  CdcInv'
  <1> USE DEF CdcInv
  <1>1. /\ txn'[w] = NoTxn /\ \A x \in Writers : x # w => txn'[x] = txn[x]
        /\ UNCHANGED <<source, armed, outbox, nextSeq, replica, pos, run>>
    BY DEF Rollback, TypeOK
  <1>2. TxnShape' /\ Capturing' /\ SeqOrder'
    BY <1>1 DEF TxnShape, Capturing, SeqOrder, Open, NoTxn, Running, At
  <1>3. NewestIsCurrent' /\ Positioned'
    BY <1>1 DEF NewestIsCurrent, Positioned, Caught, IsPending
  <1>4. DrainState' /\ SnapshotState'
    BY <1>1 DEF DrainState, SnapshotState, SnapshotAt, InDrain, InSnapshot, At, Caught, IsPending,
                InPage
  <1> QED
    BY <1>2, <1>3, <1>4

\* COMMIT: a captured change becomes the newest outbox row of its key, pending
\* for every job; an uncaptured one happens only before any job has started.
LEMMA CommitInv ==
  ASSUME CdcSetting, CdcInv, TypeOK', NEW w \in Writers, Commit(w)
  PROVE  CdcInv'
  <1> USE DEF CdcInv
  <1>1. PICK k \in Keys, v \in Row :
          /\ txn[w].writes = {<<k, v>>}
          /\ \/ txn[w].change = {}
             \/ \E s \in 1..nextSeq : txn[w].change = {[seq |-> s, key |-> k, val |-> v]}
    BY DEF Commit, TxnShape, Open, NoTxn
  <1>2. \A x \in Keys : source'[x] = IF x = k THEN v ELSE source[x]
    <2>1. (CHOOSE x \in txn[w].writes : x[1] = k) = <<k, v>>
      BY <1>1
    <2>2. \A x \in Keys : (\E y \in txn[w].writes : y[1] = x) <=> x = k
      BY <1>1
    <2> QED
      BY <2>1, <2>2 DEF Commit
  <1>3. /\ txn'[w] = NoTxn /\ \A x \in Writers : x # w => txn'[x] = txn[x] /\ txn[x] = NoTxn
        /\ outbox' = outbox \union txn[w].change
        /\ UNCHANGED <<armed, nextSeq, replica, pos, run>>
    BY DEF Commit, TypeOK, TxnShape, Open, NoTxn
  <1>4. TxnShape' /\ Capturing'
    BY <1>3 DEF TxnShape, Capturing, Commit, Open, NoTxn, Running, At
  <1>5. SeqOrder'
    BY <1>1, <1>3 DEF SeqOrder, NoTxn
  <1>6. CASE txn[w].change = {}
    <2>1. outbox = {} /\ \A j \in Jobs : ~Running(j) /\ ~(pos[j] >= 0)
      BY <1>6 DEF Capturing, Commit
    <2>2. \A j \in Jobs : run'[j] = run[j] /\ pos'[j] = pos[j] /\ run[j].pc = "off"
      BY <2>1, <1>3 DEF Running, At
    <2>3. DrainState' /\ SnapshotState' /\ Positioned'
      BY <2>1, <2>2 DEF DrainState, SnapshotState, InDrain, InSnapshot, At, Positioned
    <2>4. NewestIsCurrent'
      BY <1>3, <1>6, <2>1 DEF NewestIsCurrent
    <2> QED
      BY <1>4, <1>5, <2>3, <2>4
  <1>7. CASE txn[w].change # {}
    <2>1. PICK s \in 1..nextSeq : txn[w].change = {[seq |-> s, key |-> k, val |-> v]}
      BY <1>1, <1>7
    <2> DEFINE c == [seq |-> s, key |-> k, val |-> v]
    <2>2. /\ c \in outbox' /\ outbox \subseteq outbox' /\ \A e \in outbox' : e \in outbox \/ e = c
          /\ c.key = k /\ c.val = v /\ c.seq = s
          /\ \A e \in outbox : e.seq < c.seq
          /\ \A j \in Jobs : pos[j] < c.seq /\ run[j].seq < c.seq
      BY <1>3, <2>1 DEF SeqOrder
    <2> HIDE DEF c
    <2>3. NewestIsCurrent'
      <3> SUFFICES ASSUME NEW x \in Keys, \E f \in outbox' : f.key = x
                   PROVE  \E e \in outbox' : /\ e.key = x /\ e.val = source'[x]
                                             /\ \A f \in outbox' : f.key = x => f.seq <= e.seq
        BY DEF NewestIsCurrent
      <3>1. CASE x = k
        <4>1. \A f \in outbox' : f.seq <= c.seq
          <5>1. \A e \in outbox : e.seq \in Int
            BY DEF TypeOK, Change
          <5> QED
            BY <2>2, <5>1
        <4> QED
          BY <3>1, <4>1, <2>2, <1>2
      <3>2. CASE x # k
        BY <3>2, <2>2, <1>2 DEF NewestIsCurrent
      <3> QED
        BY <3>1, <3>2
    <2>4. /\ \A j \in Jobs : IsPending(k, pos[j])' /\ IsPending(k, run[j].seq)'
          /\ \A x \in Keys : \A n : IsPending(x, n) => IsPending(x, n)'
      <3>1. \A j \in Jobs : pos'[j] = pos[j] /\ run'[j].seq = run[j].seq
        BY <1>3
      <3>2. \A j \in Jobs : run[j].seq \in Int /\ pos[j] \in Int
        BY JobTypes
      <3>3. c.seq \in Int
        BY <2>2
      <3> QED
        BY <2>2, <3>1, <3>2, <3>3 DEF IsPending
    <2>5. \A j \in Jobs, x \in Keys : /\ Caught(j, pos[j], x) => Caught(j, pos[j], x)'
                                      /\ Caught(j, run[j].seq, x) => Caught(j, run[j].seq, x)'
      BY <2>4, <1>2, <1>3 DEF Caught
    <2>6. Positioned'
      BY <2>5, <1>3 DEF Positioned
    <2>7. DrainState'
      BY <2>5, <2>2, <1>3 DEF DrainState, InDrain, At
    <2>8. SnapshotState'
      <3> SUFFICES ASSUME NEW j \in Jobs, InSnapshot(j) PROVE SnapshotAt(j)'
        BY <1>3 DEF SnapshotState, InSnapshot
      <3>1. SnapshotAt(j)
        BY DEF SnapshotState
      <3>2. \A x \in Keys : source'[x] = source[x] \/ IsPending(x, run[j].seq)'
        BY <1>2, <2>4
      <3>3. \A x \in Keys : IsPending(x, run[j].seq) => IsPending(x, run[j].seq)'
        BY <2>4, <1>3 DEF IsPending
      <3> HIDE DEF IsPending
      <3> QED
        BY <3>1, <3>2, <3>3, <2>5, <1>3 DEF SnapshotAt, At, InPage
    <2> QED
      BY <1>4, <1>5, <2>3, <2>6, <2>7, <2>8
  <1> QED
    BY <1>6, <1>7

\* Parts of the invariant that only the source, the outbox and the triggers
\* decide, and what a job contributes to the others.
LEMMA RunFrame ==
  ASSUME CdcSetting, CdcInv, NEW j \in Jobs,
         UNCHANGED <<source, armed, outbox, nextSeq, txn>>,
         Running(j) \/ pos[j] >= 0,
         pos'[j] < nextSeq, run'[j].seq < nextSeq,
         \A w \in Writers : \A c \in txn[w].change : pos'[j] < c.seq /\ run'[j].seq < c.seq
  PROVE  TxnShape' /\ Capturing' /\ SeqOrder' /\ NewestIsCurrent'
  <1>1. TxnShape'
    BY DEF CdcInv, TxnShape, Open
  <1>2. Capturing'
    BY DEF CdcInv, Capturing, Open
  <1>3. SeqOrder'
    BY DEF CdcInv, SeqOrder, CdcSetting
  <1>4. NewestIsCurrent'
    BY DEF CdcInv, NewestIsCurrent
  <1> QED
    BY <1>1, <1>2, <1>3, <1>4

\* A run that stops, for whatever reason, leaves the position to carry on from.
LEMMA StopInv ==
  ASSUME CdcSetting, CdcInv, TypeOK', NEW j \in Jobs, Stop(j), Running(j),
         UNCHANGED <<source, armed, outbox, nextSeq, txn, replica>>,
         \/ pos'[j] = pos[j]
         \/ pos'[j] = run[j].seq /\ \A k \in Keys : Caught(j, run[j].seq, k)
  PROVE  CdcInv'
  <1>1. \A i \in Jobs : i = j
    BY DEF CdcSetting
  <1>2. /\ run'[j] = Off /\ run'[j].pc = "off" /\ run'[j].seq = 0 /\ run'[j].cursor = 0
        /\ run[j].seq \in Nat /\ pos[j] \in Int
    BY JobTypes DEF Stop, Off, CdcInv, TypeOK
  <1>3. /\ pos'[j] < nextSeq /\ run'[j].seq < nextSeq
        /\ \A w \in Writers : \A c \in txn[w].change : pos'[j] < c.seq /\ run'[j].seq < c.seq
    <2>1. nextSeq \in Nat \ {0} /\ \A w \in Writers : \A c \in txn[w].change : c.seq \in Nat \ {0}
      BY DEF CdcInv, TypeOK, Change
    <2> QED
      BY <1>2, <2>1 DEF CdcInv, SeqOrder
  <1>4. TxnShape' /\ Capturing' /\ SeqOrder' /\ NewestIsCurrent'
    BY <1>3, RunFrame
  <1>5. DrainState' /\ SnapshotState'
    BY <1>1, <1>2 DEF DrainState, SnapshotState, InDrain, InSnapshot, At
  <1>6. Positioned'
    BY <1>1 DEF CdcInv, Positioned, Caught, IsPending
  <1> QED
    BY <1>4, <1>5, <1>6 DEF CdcInv

\* Arming the trigger: from here on every change is captured.
LEMMA EnsureInv ==
  ASSUME CdcSetting, CdcInv, TypeOK', NEW j \in Jobs, EnsureReplace(j)
  PROVE  CdcInv'
  <1> USE DEF CdcInv
  <1>1. \A i \in Jobs : i = j
    BY DEF CdcSetting
  <1>2. /\ run'[j].pc = "position" /\ run'[j].seq = run[j].seq /\ run'[j].cursor = run[j].cursor
        /\ run[j].pc = "off" /\ run[j].cursor = 0
        /\ armed' = Ops
        /\ UNCHANGED <<source, outbox, nextSeq, txn, replica, pos>>
    BY DEF EnsureReplace, Step, At, TypeOK, RunType, SnapshotState
  <1>3. TxnShape' /\ Capturing'
    BY <1>2 DEF TxnShape, Capturing, EnsureReplace, NoOpenTxn, Open
  <1>4. SeqOrder' /\ NewestIsCurrent'
    BY <1>1, <1>2 DEF SeqOrder, NewestIsCurrent
  <1>5. DrainState' /\ SnapshotState' /\ Positioned'
    BY <1>1, <1>2 DEF DrainState, SnapshotState, Positioned, InDrain, InSnapshot, At, Caught, IsPending
  <1> QED
    BY <1>3, <1>4, <1>5

\* Taking up the saved position, or the log's end for a snapshot.
LEMMA PositionInv ==
  ASSUME CdcSetting, CdcInv, TypeOK', NEW j \in Jobs, StartAtPosition(j) \/ TakeMaxSeq(j)
  PROVE  CdcInv'
  <1> USE DEF CdcInv
  <1>1. \A i \in Jobs : i = j
    BY DEF CdcSetting
  <1>2. /\ run[j].pc = "position" /\ run[j].cursor = 0 /\ Running(j)
        /\ UNCHANGED <<source, armed, outbox, nextSeq, txn, replica, pos>>
    BY DEF StartAtPosition, TakeMaxSeq, At, Running, SnapshotState
  <1>3. CASE StartAtPosition(j)
    <2>1. /\ run'[j].pc = "drain" /\ run'[j].seq = pos[j] /\ pos[j] >= 0
          /\ pos[j] \in Int
      BY <1>3, JobTypes DEF StartAtPosition, TypeOK, RunType
    <2>2. TxnShape' /\ Capturing' /\ SeqOrder' /\ NewestIsCurrent'
      <3>1. /\ pos'[j] < nextSeq /\ run'[j].seq < nextSeq
            /\ \A w \in Writers : \A c \in txn[w].change : pos'[j] < c.seq /\ run'[j].seq < c.seq
        BY <1>2, <2>1 DEF SeqOrder
      <3> QED
        BY <1>2, <3>1, RunFrame
    <2>3. DrainState' /\ SnapshotState' /\ Positioned'
      BY <1>1, <1>2, <2>1
         DEF DrainState, SnapshotState, Positioned, InDrain, InSnapshot, At, Caught, IsPending
    <2> QED
      BY <2>2, <2>3
  <1>4. CASE TakeMaxSeq(j)
    <2>0. PICK s \in 0..nextSeq :
            /\ IsMaxSeq(s)
            /\ run' = [run EXCEPT ![j] = [run[j] EXCEPT !.pc = "fresh", !.seq = s]]
      BY <1>4 DEF TakeMaxSeq, CdcSetting
    <2>1. /\ IsMaxSeq(s) /\ run'[j].pc = "fresh" /\ run'[j].seq = s /\ pos[j] = -1
          /\ run'[j].cursor = 0
      BY <1>4, <1>2, <2>0 DEF TakeMaxSeq, TypeOK, RunType
    <2>2. TxnShape' /\ Capturing' /\ SeqOrder' /\ NewestIsCurrent'
      <3>1. nextSeq \in Nat \ {0} /\ \A w \in Writers : \A c \in txn[w].change : c.seq \in Nat \ {0}
        BY DEF TypeOK, Change
      <3>2. /\ pos'[j] < nextSeq /\ run'[j].seq < nextSeq
            /\ \A w \in Writers : \A c \in txn[w].change : pos'[j] < c.seq /\ run'[j].seq < c.seq
        <4>1. CASE s = 0
          BY <1>2, <2>1, <3>1, <4>1
        <4>2. CASE \E e \in outbox : e.seq = s
          BY <1>2, <2>1, <3>1, <4>2 DEF SeqOrder
        <4> QED
          BY <2>1, <4>1, <4>2 DEF IsMaxSeq
      <3> QED
        BY <1>2, <3>2, RunFrame
    <2>3. DrainState' /\ SnapshotState' /\ Positioned'
      BY <1>1, <1>2, <2>1
         DEF DrainState, SnapshotState, SnapshotAt, Positioned, InDrain, InSnapshot, At
    <2> QED
      BY <2>2, <2>3
  <1> QED
    BY <1>3, <1>4

\* The steps of the snapshot.
LEMMA SnapshotInv ==
  ASSUME CdcSetting, CdcInv, TypeOK', NEW j \in Jobs,
         EnsureFresh(j) \/ ReadPage(j) \/ UpsertPage(j)
  PROVE  CdcInv'
  <1> USE DEF CdcInv
  <1>1. \A i \in Jobs : i = j
    BY DEF CdcSetting
  <1>2. /\ Running(j) /\ InSnapshot(j) /\ SnapshotAt(j) /\ pos[j] = -1
        /\ UNCHANGED <<source, armed, outbox, nextSeq, txn, pos>>
        /\ run[j].seq \in Nat /\ run[j].cursor \in Nat
    BY JobTypes DEF EnsureFresh, ReadPage, UpsertPage, At, Running, InSnapshot, SnapshotState, SnapshotAt
  <1>3. run'[j].seq = run[j].seq
    <2>1. CASE EnsureFresh(j)
      BY <2>1 DEF EnsureFresh, Step, TypeOK, RunType
    <2>2. CASE ReadPage(j)
      <3>1. \E l, b, g : run' = [run EXCEPT ![j] = [run[j] EXCEPT !.pc = l, !.short = b, !.img = g]]
        BY <2>2, Zenon DEF ReadPage
      <3> QED
        BY <3>1 DEF TypeOK, RunType
    <2>3. CASE UpsertPage(j)
      <3>1. \E l, n, g : run' = [run EXCEPT ![j] = [run[j] EXCEPT !.pc = l, !.cursor = n, !.img = g]]
        BY <2>3, Zenon DEF UpsertPage
      <3> QED
        BY <3>1 DEF TypeOK, RunType
    <2> QED
      BY <2>1, <2>2, <2>3
  <1>4. TxnShape' /\ Capturing' /\ SeqOrder' /\ NewestIsCurrent'
    <2>1. /\ pos'[j] < nextSeq /\ run'[j].seq < nextSeq
          /\ \A w \in Writers : \A c \in txn[w].change : pos'[j] < c.seq /\ run'[j].seq < c.seq
      BY <1>2, <1>3 DEF SeqOrder
    <2> QED
      BY <1>2, <2>1, RunFrame
  <1>5. Positioned'
    BY <1>1, <1>2 DEF Positioned
  <1>6. \A k \in Keys : k \in Nat \ {0}
    BY KeysAssumption
  <1>7. \A k \in Keys : \A s : IsPending(k, s)' <=> IsPending(k, s)
    BY <1>2 DEF IsPending
  <1>8. SnapshotAt(j)' /\ run'[j].pc \in {"page", "upsert", "baseline"}
    <2>1. CASE EnsureFresh(j)
      <3>1. /\ run'[j].pc = "page" /\ run'[j].cursor = 0
            /\ \A k \in Keys : replica'[j][k] = Absent
        BY <2>1 DEF EnsureFresh, Step, At, TypeOK, RunType, SnapshotState, Empty
      <3> QED
        BY <3>1, <1>2, <1>6 DEF SnapshotAt, At
    <2>2. CASE ReadPage(j)
      <3>1. PICK P \in SUBSET Keys :
              /\ IsPage(P, run[j].cursor)
              /\ run' = [run EXCEPT ![j] =
                    [run[j] EXCEPT !.pc = IF P = {} THEN "baseline" ELSE "upsert",
                              !.short = Cardinality(P) < BatchSize,
                              !.img = [k \in Keys |-> IF k \in P THEN source[k] ELSE Absent]]]
        BY <2>2 DEF ReadPage
      <3>2. /\ run'[j].pc = IF P = {} THEN "baseline" ELSE "upsert"
            /\ run'[j].cursor = run[j].cursor
            /\ run'[j].short <=> Cardinality(P) < BatchSize
            /\ run'[j].img = [k \in Keys |-> IF k \in P THEN source[k] ELSE Absent]
            /\ UNCHANGED replica /\ At(j, "page")
        BY <2>2, <3>1 DEF ReadPage, TypeOK, RunType
      <3>3. \A k \in Keys : InPage(j, k)' <=> k \in P
        BY <3>1, <3>2 DEF InPage, IsPage, Beyond
      <3>4. run'[j].short \/ P = {} => P = Beyond(run[j].cursor)
        BY <3>1, <3>2, FS_EmptySet, CdcBounds DEF IsPage
      <3>5. \A k \in Keys : k > run[j].cursor /\ k \notin P /\ source[k] # Absent =>
              ~run'[j].short /\ \A p \in P : p < k
        BY <3>1, <3>4 DEF IsPage, Beyond
      <3>6. CASE P = {}
        <4>1. \A k \in Keys : k > run[j].cursor => source[k] = Absent
          BY <3>4, <3>6 DEF Beyond
        <4>2. \A k \in Keys : Caught(j, run[j].seq, k)
          BY <4>1, <3>2, <1>2, <1>6 DEF SnapshotAt, Caught, At
        <4> QED
          BY <4>2, <3>2, <3>6, <1>2, <1>3, <1>7 DEF SnapshotAt, Caught, At
      <3>7. CASE P # {}
        <4>1. run'[j].pc = "upsert"
          BY <3>2, <3>7
        <4>2. \A k \in Keys : IF k <= run[j].cursor THEN Caught(j, run[j].seq, k)
                                                    ELSE replica[j][k] = Absent
          BY <3>2, <1>2 DEF SnapshotAt, At
        <4>3. \A k \in Keys :
                /\ InPage(j, k)' => k > run[j].cursor /\ run'[j].img[k] = source[k]
                /\ /\ k > run[j].cursor /\ ~InPage(j, k)'
                   /\ run'[j].short \/ \E p \in Keys : InPage(j, p)' /\ k < p
                   => source[k] = Absent
          BY <3>1, <3>2, <3>3, <3>5, <1>6 DEF IsPage, Beyond
        <4>4. \A k \in Keys : Caught(j, run[j].seq, k)' <=> Caught(j, run[j].seq, k)
          BY <3>2, <1>2, <1>3, <1>7 DEF Caught
        <4> QED
          BY <4>1, <4>2, <4>3, <4>4, <3>2, <1>2, <1>3 DEF SnapshotAt, At
      <3> QED
        BY <3>6, <3>7
    <2>3. CASE UpsertPage(j)
      <3>1. PICK last \in Keys :
              /\ InPage(j, last) /\ \A k \in Keys : InPage(j, k) => k <= last
              /\ run' = [run EXCEPT ![j] =
                    [run[j] EXCEPT !.pc = IF run[j].short THEN "baseline" ELSE "page",
                                   !.cursor = last, !.img = Empty]]
        BY <2>3 DEF UpsertPage
      <3>2. /\ run'[j].pc = (IF run[j].short THEN "baseline" ELSE "page") /\ run'[j].cursor = last
            /\ At(j, "upsert")
            /\ \A k \in Keys : replica'[j][k] = IF InPage(j, k) THEN run[j].img[k] ELSE replica[j][k]
        BY <2>3, <3>1 DEF UpsertPage, TypeOK, RunType
      <3>3. \A k \in Keys :
              /\ InPage(j, k) => /\ k > run[j].cursor
                                 /\ run[j].img[k] = source[k] \/ IsPending(k, run[j].seq)
              /\ /\ k > run[j].cursor /\ ~InPage(j, k)
                 /\ run[j].short \/ \E p \in Keys : InPage(j, p) /\ k < p
                 => source[k] = Absent \/ IsPending(k, run[j].seq)
              /\ IF k <= run[j].cursor THEN Caught(j, run[j].seq, k) ELSE replica[j][k] = Absent
        BY <3>2, <1>2 DEF SnapshotAt, At
      <3>4. ASSUME NEW k \in Keys, k <= last \/ run[j].short
            PROVE  Caught(j, run[j].seq, k)'
        <4>1. CASE InPage(j, k)
          BY <4>1, <3>2, <3>3, <1>2, <1>3, <1>7 DEF Caught
        <4>2. CASE ~InPage(j, k) /\ k <= run[j].cursor
          BY <4>2, <3>2, <3>3, <1>2, <1>3, <1>7 DEF Caught
        <4>3. CASE ~InPage(j, k) /\ ~(k <= run[j].cursor)
          <5>1. k > run[j].cursor /\ (k < last \/ run[j].short)
            BY <4>3, <3>1, <3>4, <1>2, <1>6
          <5>2. source[k] = Absent \/ IsPending(k, run[j].seq)
            BY <5>1, <4>3, <3>1, <3>3
          <5> QED
            BY <5>2, <4>3, <3>2, <3>3, <1>2, <1>3, <1>7 DEF Caught
        <4> QED
          BY <4>1, <4>2, <4>3
      <3>5. ASSUME NEW k \in Keys, ~(k <= last) PROVE replica'[j][k] = Absent
        <4>1. ~InPage(j, k) /\ ~(k <= run[j].cursor)
          BY <3>5, <3>1, <3>3, <1>2, <1>6
        <4> QED
          BY <4>1, <3>2, <3>3
      <3> QED
        BY <3>2, <3>4, <3>5, <1>2 DEF SnapshotAt, At
    <2> QED
      BY <2>1, <2>2, <2>3
  <1>9. DrainState' /\ SnapshotState'
    BY <1>1, <1>8 DEF DrainState, SnapshotState, InDrain, InSnapshot, At
  <1> QED
    BY <1>4, <1>5, <1>9

\* Reading a batch: it is what lies between the position and everything later.
LEMMA ReadChangesInv ==
  ASSUME CdcSetting, CdcInv, TypeOK', NEW j \in Jobs, ReadChanges(j)
  PROVE  CdcInv'
  <1>1. \A i \in Jobs : i = j
    BY DEF CdcSetting
  <1>2. /\ Running(j) /\ InDrain(j) /\ ~At(j, "apply") /\ pos[j] >= 0 /\ pos[j] = run[j].seq
        /\ \A k \in Keys : Caught(j, run[j].seq, k)
        /\ UNCHANGED <<source, armed, outbox, nextSeq, txn, replica, pos>>
        /\ run[j].seq \in Nat
    BY JobTypes DEF ReadChanges, At, Running, InDrain, CdcInv, DrainState
  <1>3. CASE Stop(j)
    BY <1>2, <1>3, StopInv
  <1>4. CASE ~Stop(j)
    <2>1. PICK B \in SUBSET outbox :
            /\ IsBatch(B, run[j].seq)
            /\ \/ run' = [run EXCEPT ![j] = [run[j] EXCEPT !.pc = "apply", !.todo = B,
                                                           !.short = Cardinality(B) < BatchSize]]
               \/ Step(j, "prune")
      BY <1>4 DEF ReadChanges
    <2>2. /\ run'[j].seq = run[j].seq
          /\ (run'[j].pc = "apply" /\ run'[j].todo = B) \/ run'[j].pc = "prune"
      <3>1. CASE Step(j, "prune")
        BY <3>1 DEF Step, CdcInv, TypeOK, RunType
      <3>2. CASE ~Step(j, "prune")
        <4>1. \E b : run' = [run EXCEPT ![j] = [run[j] EXCEPT !.pc = "apply", !.todo = B, !.short = b]]
          BY <2>1, <3>2, Zenon
        <4> QED
          BY <4>1 DEF CdcInv, TypeOK, RunType
      <3> QED
        BY <3>1, <3>2
    <2>3. TxnShape' /\ Capturing' /\ SeqOrder' /\ NewestIsCurrent'
      <3>1. /\ pos'[j] < nextSeq /\ run'[j].seq < nextSeq
            /\ \A w \in Writers : \A c \in txn[w].change : pos'[j] < c.seq /\ run'[j].seq < c.seq
        BY <1>2, <2>2 DEF CdcInv, SeqOrder
      <3> QED
        BY <1>2, <3>1, RunFrame
    <2>4. /\ B \subseteq outbox /\ \A c \in B : c.seq > run[j].seq
          /\ \A e \in outbox \ B : e.seq > run[j].seq => \A c \in B : c.seq < e.seq
      BY <2>1 DEF IsBatch, Pending
    <2>5. DrainState'
      BY <1>1, <1>2, <2>2, <2>4 DEF DrainState, InDrain, At, Caught, IsPending
    <2>6. SnapshotState'
      BY <1>1, <2>2 DEF SnapshotState, InSnapshot
    <2>7. Positioned'
      BY <1>2 DEF CdcInv, Positioned, Caught, IsPending
    <2> QED
      BY <2>3, <2>5, <2>6, <2>7 DEF CdcInv
  <1> QED
    BY <1>3, <1>4

\* Applying the oldest change of the batch: what is left pending is newer.
LEMMA ApplyInv ==
  ASSUME CdcSetting, CdcInv, TypeOK', NEW j \in Jobs, ApplyChange(j)
  PROVE  CdcInv'
  <1>1. \A i \in Jobs : i = j
    BY DEF CdcSetting
  <1>2. PICK c \in run[j].todo :
          /\ \A d \in run[j].todo : c.seq <= d.seq
          /\ replica' = [replica EXCEPT ![j][c.key] = c.val]
          /\ run' = [run EXCEPT ![j] = [run[j] EXCEPT !.todo = run[j].todo \ {c}, !.seq = c.seq]]
    BY DEF ApplyChange
  <1>3. /\ Running(j) /\ InDrain(j) /\ At(j, "apply")
        /\ UNCHANGED <<source, armed, outbox, nextSeq, txn, pos>>
        /\ run[j].seq \in Nat /\ pos[j] \in Int /\ pos[j] >= 0 /\ pos[j] <= run[j].seq
        /\ run[j].todo \subseteq outbox
        /\ \A d \in run[j].todo : d.seq > run[j].seq
        /\ \A e \in outbox \ run[j].todo : e.seq > run[j].seq =>
              \A d \in run[j].todo : d.seq < e.seq
        /\ \A k \in Keys : Caught(j, run[j].seq, k)
    BY JobTypes DEF ApplyChange, At, Running, InDrain, CdcInv, DrainState
  <1>4. /\ c \in outbox /\ c.seq > run[j].seq /\ c.seq \in Nat /\ c.key \in Keys
        /\ \A e \in outbox : e.seq \in Nat
    BY <1>2, <1>3 DEF CdcInv, TypeOK, Change
  <1>5. /\ run'[j].pc = "apply" /\ run'[j].seq = c.seq /\ run'[j].todo = run[j].todo \ {c}
        /\ \A k \in Keys : replica'[j][k] = IF k = c.key THEN c.val ELSE replica[j][k]
    BY <1>2, <1>3, <1>4 DEF CdcInv, TypeOK, RunType, Image, At
  <1>6. \A e \in outbox : e.seq > run[j].seq /\ e # c => e.seq > c.seq
    <2> TAKE e \in outbox
    <2> HAVE e.seq > run[j].seq /\ e # c
    <2>1. CASE e \in run[j].todo
      BY <2>1, <1>2, <1>4 DEF CdcInv, SeqOrder
    <2>2. CASE e \notin run[j].todo
      BY <2>2, <1>2, <1>3
    <2> QED
      BY <2>1, <2>2
  <1>7. ASSUME NEW k \in Keys PROVE Caught(j, c.seq, k)'
    <2>1. CASE k = c.key
      <3>1. PICK e \in outbox : /\ e.key = k /\ e.val = source[k]
                                /\ \A f \in outbox : f.key = k => f.seq <= e.seq
        BY <2>1, <1>4 DEF CdcInv, NewestIsCurrent
      <3>2. CASE e = c
        BY <3>1, <3>2, <2>1, <1>3, <1>5 DEF Caught
      <3>3. CASE e # c
        <4>1. c.seq <= e.seq /\ e.seq > c.seq
          BY <3>1, <3>3, <2>1, <1>3, <1>4, <1>6
        <4> QED
          BY <4>1, <3>1, <1>3, <1>5 DEF Caught, IsPending
      <3> QED
        BY <3>2, <3>3
    <2>2. CASE k # c.key
      BY <2>2, <1>3, <1>4, <1>5, <1>6 DEF Caught, IsPending
    <2> QED
      BY <2>1, <2>2
  <1>8. TxnShape' /\ Capturing' /\ SeqOrder' /\ NewestIsCurrent'
    <2>1. /\ pos'[j] < nextSeq /\ run'[j].seq < nextSeq
          /\ \A w \in Writers : \A d \in txn[w].change : pos'[j] < d.seq /\ run'[j].seq < d.seq
      BY <1>3, <1>4, <1>5 DEF CdcInv, SeqOrder
    <2> QED
      BY <1>3, <2>1, RunFrame
  <1>9. DrainState'
    <2>1. \A k \in Keys : Caught(j, run[j].seq, k)'
      BY <1>5, <1>7 DEF Caught, IsPending
    <2>2. \A d \in run'[j].todo : d \in outbox /\ d.seq > c.seq
      BY <1>3, <1>4, <1>5, <1>6
    <2>3. \A e \in outbox \ run'[j].todo : e.seq > c.seq =>
            \A d \in run'[j].todo : d.seq < e.seq
      BY <1>3, <1>4, <1>5
    <2> QED
      BY <1>1, <1>3, <1>4, <1>5, <2>1, <2>2, <2>3 DEF DrainState, InDrain, At
  <1>10. SnapshotState'
    BY <1>1, <1>5 DEF SnapshotState, InSnapshot
  <1>11. Positioned'
    <2>1. ASSUME NEW k \in Keys PROVE Caught(j, pos[j], k)'
      <3>1. CASE k = c.key
        BY <3>1, <1>3, <1>4 DEF Caught, IsPending
      <3>2. CASE k # c.key
        BY <3>2, <1>3, <1>5 DEF CdcInv, Positioned, Caught, IsPending
      <3> QED
        BY <3>1, <3>2
    <2> QED
      BY <1>1, <2>1 DEF Positioned
  <1> QED
    BY <1>8, <1>9, <1>10, <1>11 DEF CdcInv

\* The position is saved once the batch is applied.
LEMMA SavePositionInv ==
  ASSUME CdcSetting, CdcInv, TypeOK', NEW j \in Jobs, SavePosition(j)
  PROVE  CdcInv'
  <1>1. \A i \in Jobs : i = j
    BY DEF CdcSetting
  <1>2. /\ Running(j) /\ InDrain(j)
        /\ UNCHANGED <<source, armed, outbox, nextSeq, txn, replica>>
        /\ run[j].seq \in Nat
        /\ \A k \in Keys : Caught(j, run[j].seq, k)
    BY JobTypes DEF SavePosition, At, Running, InDrain, CdcInv, DrainState
  <1>3. /\ run'[j].pc \in {"prune", "drain"} /\ run'[j].seq = run[j].seq /\ pos'[j] = run[j].seq
    BY DEF SavePosition, CdcInv, TypeOK, RunType
  <1>4. TxnShape' /\ Capturing' /\ SeqOrder' /\ NewestIsCurrent'
    <2>1. /\ pos'[j] < nextSeq /\ run'[j].seq < nextSeq
          /\ \A w \in Writers : \A c \in txn[w].change : pos'[j] < c.seq /\ run'[j].seq < c.seq
      BY <1>3 DEF CdcInv, SeqOrder
    <2> QED
      BY <1>2, <2>1, RunFrame
  <1>5. \A k \in Keys : Caught(j, run[j].seq, k)' /\ Caught(j, pos[j], k)'
    BY <1>2, <1>3 DEF Caught, IsPending
  <1>6. DrainState' /\ SnapshotState' /\ Positioned'
    BY <1>1, <1>2, <1>3, <1>5 DEF DrainState, SnapshotState, Positioned, InDrain, InSnapshot, At
  <1> QED
    BY <1>4, <1>6 DEF CdcInv

\* Pruning removes what the only job has applied.
LEMMA PruneInv ==
  ASSUME CdcSetting, CdcInv, TypeOK', NEW j \in Jobs, Prune(j)
  PROVE  CdcInv'
  <1>1. \A i \in Jobs : i = j
    BY DEF CdcSetting
  <1>2. /\ Running(j) /\ pos[j] >= 0 /\ pos[j] = run[j].seq
        /\ outbox' = {e \in outbox : e.seq > pos[j]}
        /\ UNCHANGED <<source, armed, nextSeq, txn, replica, pos>>
        /\ run'[j].pc = "off" /\ run'[j].seq = 0 /\ run'[j].cursor = 0
        /\ pos[j] \in Nat
    BY JobTypes DEF Prune, Pending, Stop, Off, At, Running, InDrain, CdcInv, DrainState, TypeOK
  <1>3. TxnShape' /\ Capturing'
    BY <1>2 DEF CdcInv, TxnShape, Capturing, Open
  <1>4. SeqOrder'
    <2>1. nextSeq \in Nat \ {0} /\ \A w \in Writers : \A c \in txn[w].change : c.seq \in Nat \ {0}
      BY DEF CdcInv, TypeOK, Change
    <2> QED
      BY <1>1, <1>2, <2>1 DEF CdcInv, SeqOrder
  <1>5. NewestIsCurrent'
    <2>1. \A e \in outbox : e.seq \in Nat
      BY DEF CdcInv, TypeOK, Change
    <2> SUFFICES ASSUME NEW k \in Keys, NEW f \in outbox', f.key = k
                 PROVE  \E e \in outbox' : /\ e.key = k /\ e.val = source'[k]
                                           /\ \A g \in outbox' : g.key = k => g.seq <= e.seq
      BY DEF NewestIsCurrent
    <2>2. PICK e \in outbox : /\ e.key = k /\ e.val = source[k]
                              /\ \A g \in outbox : g.key = k => g.seq <= e.seq
      BY <1>2 DEF CdcInv, NewestIsCurrent
    <2>3. e \in outbox'
      BY <1>2, <2>1, <2>2
    <2> QED
      BY <1>2, <2>2, <2>3
  <1>6. DrainState' /\ SnapshotState'
    BY <1>1, <1>2 DEF DrainState, SnapshotState, InDrain, InSnapshot, At
  <1>7. Positioned'
    BY <1>1, <1>2 DEF CdcInv, Positioned, Caught, IsPending
  <1> QED
    BY <1>3, <1>4, <1>5, <1>6, <1>7 DEF CdcInv

\* Every step of the system keeps the invariant.
LEMMA InvStep == CdcSetting /\ CdcInv /\ [Next]_vars => CdcInv'
  <1> SUFFICES ASSUME CdcSetting, CdcInv, [Next]_vars PROVE CdcInv'
    OBVIOUS
  <1>1. TypeOK'
    BY TypeStep DEF CdcInv
  <1>2. CASE UNCHANGED vars
    BY <1>2, <1>1 DEF vars, CdcInv, TxnShape, Capturing, SeqOrder, NewestIsCurrent, DrainState,
         SnapshotState, SnapshotAt, Positioned, Open, Running, At, InDrain, InSnapshot, InPage,
         Caught, IsPending
  <1>3. ASSUME NEW w \in Writers, NEW k \in Keys, NEW v \in Row, Write(w, k, v) PROVE CdcInv'
    BY <1>1, <1>3, WriteInv
  <1>4. ASSUME NEW w \in Writers, NEW k \in Keys, NEW n \in Keys, WriteKey(w, k, n) PROVE CdcInv'
    BY <1>4 DEF WriteKey, CdcSetting
  <1>5. ASSUME NEW w \in Writers, Commit(w) \/ Rollback(w) PROVE CdcInv'
    BY <1>1, <1>5, CommitInv, RollbackInv
  <1>6. ASSUME NEW j \in Jobs, cdcRun(j) PROVE CdcInv'
    <2>1. CASE EnsureReplace(j)
      BY <1>1, <2>1, EnsureInv
    <2>2. CASE EnsureDrop(j)
      BY <2>2 DEF EnsureDrop, CdcSetting
    <2>3. CASE EnsureCreate(j)
      BY <2>3 DEF EnsureCreate, CdcSetting
    <2>4. CASE StartAtPosition(j) \/ TakeMaxSeq(j)
      BY <1>1, <2>4, PositionInv
    <2>5. CASE EnsureFresh(j) \/ ReadPage(j) \/ UpsertPage(j)
      BY <1>1, <2>5, SnapshotInv
    <2>6. CASE SaveBaseline(j)
      <3>1. /\ Running(j) /\ Stop(j) /\ pos'[j] = run[j].seq
            /\ \A k \in Keys : Caught(j, run[j].seq, k)
            /\ UNCHANGED <<source, armed, outbox, nextSeq, txn, replica>>
        BY <2>6 DEF SaveBaseline, Running, At, CdcInv, SnapshotState, SnapshotAt, InSnapshot, TypeOK
      <3> QED
        BY <3>1, <1>1, StopInv
    <2>7. CASE ReadChanges(j)
      BY <1>1, <2>7, ReadChangesInv
    <2>8. CASE ApplyChange(j)
      BY <1>1, <2>8, ApplyInv
    <2>9. CASE SavePosition(j)
      BY <1>1, <2>9, SavePositionInv
    <2>10. CASE Prune(j)
      BY <1>1, <2>10, PruneInv
    <2> QED
      BY <1>6, <2>1, <2>2, <2>3, <2>4, <2>5, <2>6, <2>7, <2>8, <2>9, <2>10 DEF cdcRun
  <1>7. ASSUME NEW j \in Jobs, RunFails(j) PROVE CdcInv'
    BY <1>1, <1>7, StopInv DEF RunFails, Running
  <1> QED
    BY <1>2, <1>3, <1>4, <1>5, <1>6, <1>7 DEF Next

\* CdcInv is an invariant of the intended setting.
THEOREM CdcInvariant == ASSUME CdcSetting PROVE Spec => []CdcInv
  <1>1. Init => CdcInv
    BY InvInit
  <1>2. CdcInv /\ [Next]_vars => CdcInv'
    BY InvStep
  <1> QED
    BY <1>1, <1>2, PTL DEF Spec

\* In that setting no committed change is lost, whatever the interleaving of
\* source transactions, snapshot pages, batches, pruning and crashes: a replica
\* row is current or the outbox still holds its latest change for the job.
THEOREM NoChangeIsLost == ASSUME CdcSetting PROVE Spec => []NothingLost
  <1>1. CdcInv => NothingLost
    <2> SUFFICES ASSUME CdcInv, NEW j \in Jobs, pos[j] >= 0, NEW k \in Keys
                 PROVE  \/ PendingFor(k, pos[j]) = {} /\ replica[j][k] = source[k]
                        \/ \E e \in PendingFor(k, pos[j]) :
                             /\ e.val = source[k]
                             /\ \A f \in PendingFor(k, pos[j]) : f.seq <= e.seq
      BY DEF NothingLost
    <2>1. CASE ~IsPending(k, pos[j])
      BY <2>1 DEF CdcInv, Positioned, Caught, IsPending, PendingFor
    <2>2. CASE IsPending(k, pos[j])
      <3>1. PICK g \in outbox : g.key = k /\ g.seq > pos[j]
        BY <2>2 DEF IsPending
      <3>2. PICK e \in outbox : /\ e.key = k /\ e.val = source[k]
                                /\ \A f \in outbox : f.key = k => f.seq <= e.seq
        BY <3>1 DEF CdcInv, NewestIsCurrent
      <3>3. e.seq \in Int /\ g.seq \in Int /\ pos[j] \in Int
        BY JobTypes DEF CdcInv, TypeOK, Change
      <3>4. e \in PendingFor(k, pos[j])
        BY <3>1, <3>2, <3>3 DEF PendingFor
      <3> QED
        BY <3>2, <3>4 DEF PendingFor
    <2> QED
      BY <2>1, <2>2
  <1> QED
    BY <1>1, CdcInvariant, PTL

\* What a step may do to the positions.
LEMMA StepEffects ==
  ASSUME CdcSetting, CdcInv, [Next]_vars
  PROVE  \A j \in Jobs : pos'[j] >= pos[j]
  <1>1. \A j \in Jobs : pos[j] \in Int /\ run[j].seq \in Nat
    BY JobTypes DEF CdcInv
  <1>2. \A e \in outbox : e.seq \in Nat
    BY DEF CdcInv, TypeOK, Change
  <1>3. CASE UNCHANGED pos
    BY <1>1, <1>3
  <1>4. ASSUME NEW j \in Jobs, SaveBaseline(j) PROVE pos'[j] >= pos[j]
    BY <1>1, <1>4 DEF SaveBaseline, At, InSnapshot, SnapshotAt, SnapshotState, CdcInv, TypeOK
  <1>5. ASSUME NEW j \in Jobs, SavePosition(j) PROVE pos'[j] >= pos[j]
    BY <1>1, <1>5 DEF SavePosition, At, InDrain, DrainState, CdcInv, TypeOK
  <1>6. UNCHANGED pos \/ \E j \in Jobs : SaveBaseline(j) \/ SavePosition(j)
    BY DEF Next, vars, cdcRun, Write, WriteKey, Commit, Rollback, RunFails, EnsureReplace, EnsureDrop,
           EnsureCreate, StartAtPosition, TakeMaxSeq, EnsureFresh, ReadPage, UpsertPage,
           ReadChanges, ApplyChange, Prune
  <1> QED
    BY <1>1, <1>3, <1>4, <1>5, <1>6 DEF CdcSetting

\* A durable position never moves back, whatever crashes and re-runs happen.
THEOREM PositionNeverMovesBack == ASSUME CdcSetting PROVE Spec => PositionAdvances
  <1>1. CdcInv /\ [Next]_vars => [\A j \in Jobs : pos'[j] >= pos[j]]_vars
    BY StepEffects
  <1> QED
    BY <1>1, CdcInvariant, PTL DEF PositionAdvances, Spec

-----------------------------------------------------------------------------
(* Pruning, for every engine and any number of jobs.                       *)

\* A run that is about to read or to prune has saved all that it applied.
SavedFirst == \A j \in Jobs : run[j].pc \in {"drain", "prune"} => pos[j] = run[j].seq

PruneInvariant == TypeOK /\ SavedFirst

\* Every step of a run keeps SavedFirst; the outbox shrinks only by what the
\* pruning job has applied and saved.
LEMMA PruneRun ==
  ASSUME PruneInvariant, NEW j \in Jobs, cdcRun(j) \/ RunFails(j)
  PROVE  SavedFirst' /\ \A e \in outbox \ outbox' : pos[j] >= e.seq
  <1> USE DEF PruneInvariant, SavedFirst
  <1>1. /\ \A i \in Jobs : run[i] \in RunType /\ pos[i] \in Nat \union {-1} /\ run[i].seq \in Nat
        /\ run \in [Jobs -> RunType] /\ pos \in [Jobs -> Nat \union {-1}]
        /\ \A e \in outbox : e.seq \in Nat
    BY JobTypes DEF TypeOK, Change
  <1>2. CASE UNCHANGED <<pos, outbox>> /\ \E l \in Labels \ {"drain", "prune"} : Step(j, l)
    BY <1>1, <1>2 DEF Step, RunType
  <1>3. CASE UNCHANGED <<pos, outbox>> /\ Stop(j)
    BY <1>1, <1>3 DEF Stop, Off
  <1>4. CASE EnsureReplace(j) \/ EnsureDrop(j) \/ EnsureFresh(j)
    BY <1>2, <1>4 DEF EnsureReplace, EnsureDrop, EnsureFresh, Labels
  <1>5. CASE EnsureCreate(j)
    <2>1. UNCHANGED <<pos, outbox>> /\ \A i \in Jobs : i # j => run'[i] = run[i]
      BY <1>1, <1>5 DEF EnsureCreate, Step, Stop
    <2>2. run'[j].pc \in {"dropNext", "position", "off"}
      <3>1. CASE Step(j, "position")
        BY <1>1, <3>1 DEF Step, RunType
      <3>2. CASE Stop(j)
        BY <1>1, <3>2 DEF Stop, Off
      <3>3. CASE run' = [run EXCEPT ![j] = [@ EXCEPT !.pc = "dropNext", !.arm = run[j].arm + 1]]
        BY <1>1, <3>3 DEF RunType
      <3> QED
        BY <1>5, <3>1, <3>2, <3>3 DEF EnsureCreate
    <2> QED
      BY <1>1, <2>1, <2>2
  <1>6. CASE StartAtPosition(j)
    BY <1>1, <1>6 DEF StartAtPosition, RunType
  <1>7. CASE TakeMaxSeq(j)
    BY <1>1, <1>7 DEF TakeMaxSeq, RunType
  <1>8. CASE ReadPage(j)
    BY <1>1, <1>8 DEF ReadPage, RunType
  <1>9. CASE UpsertPage(j)
    BY <1>1, <1>9 DEF UpsertPage, RunType
  <1>10. CASE SaveBaseline(j)
    BY <1>1, <1>10 DEF SaveBaseline, Stop, Off
  <1>11. CASE ReadChanges(j)
    <2>1. /\ UNCHANGED <<pos, outbox>> /\ pos[j] = run[j].seq
          /\ \A i \in Jobs : i # j => run'[i] = run[i]
      BY <1>1, <1>11 DEF ReadChanges, Step, Stop, At
    <2>2. run'[j].pc \in {"apply", "off"} \/ (run'[j].pc = "prune" /\ run'[j].seq = run[j].seq)
      <3>1. CASE Step(j, "prune")
        BY <1>1, <3>1 DEF Step, RunType
      <3>2. CASE Stop(j)
        BY <1>1, <3>2 DEF Stop, Off
      <3>3. CASE \E B, b : run' = [run EXCEPT ![j] = [@ EXCEPT !.pc = "apply", !.todo = B, !.short = b]]
        BY <1>1, <3>3 DEF RunType
      <3> QED
        BY <1>11, <3>1, <3>2, <3>3 DEF ReadChanges
    <2> QED
      BY <1>1, <2>1, <2>2
  <1>12. CASE ApplyChange(j)
    BY <1>1, <1>12 DEF ApplyChange, At, RunType
  <1>13. CASE SavePosition(j)
    BY <1>1, <1>13 DEF SavePosition, RunType
  <1>14. CASE Prune(j)
    BY <1>1, <1>14 DEF Prune, Pending, Stop, Off, At
  <1>15. CASE RunFails(j)
    BY <1>3, <1>15 DEF RunFails
  <1> QED
    BY <1>4, <1>5, <1>6, <1>7, <1>8, <1>9, <1>10, <1>11, <1>12, <1>13, <1>14, <1>15 DEF cdcRun

\* However many jobs share an outbox, whatever the engine and its writers: a
\* change is pruned only after a job has applied it and saved its position.
THEOREM PruningFollowsSaving == Spec => PrunedWasApplied
  <1>1. Init => PruneInvariant
    BY TypeInit DEF Init, PruneInvariant, SavedFirst, Off
  <1>2. PruneInvariant /\ [Next]_vars =>
          PruneInvariant' /\ [\A e \in outbox \ outbox' : \E j \in Jobs : pos[j] >= e.seq]_vars
    <2> SUFFICES ASSUME PruneInvariant, [Next]_vars
                 PROVE  SavedFirst' /\ \A e \in outbox \ outbox' : \E j \in Jobs : pos[j] >= e.seq
      BY TypeStep DEF PruneInvariant
    <2>1. CASE \E j \in Jobs : cdcRun(j) \/ RunFails(j)
      BY <2>1, PruneRun
    <2>2. CASE UNCHANGED <<pos, run>> /\ outbox \subseteq outbox'
      BY <2>2 DEF PruneInvariant, SavedFirst
    <2>3. (\E j \in Jobs : cdcRun(j) \/ RunFails(j)) \/ (UNCHANGED <<pos, run>> /\ outbox \subseteq outbox')
      BY DEF Next, vars, Write, WriteKey, Commit, Rollback
    <2> QED
      BY <2>1, <2>2, <2>3
  <1> QED
    BY <1>1, <1>2, PTL DEF PrunedWasApplied, Spec

-----------------------------------------------------------------------------
(* The triggers, for every engine and any number of jobs.                  *)

\* A job's run, or an earlier one, has created the trigger of the operation.
Created(j, op) ==
  \/ pos[j] >= 0
  \/ run[j].pc \notin {"off", "dropNext", "create"}
  \/ \E i \in 1..(run[j].arm - 1) : op \in Triggers[i]

Restoring(op) == \E j \in Jobs : At(j, "create") /\ op \in Triggers[run[j].arm]

\* A trigger that some job created is there, or a run is about to create it.
CreatedStays ==
  \A op \in Ops : (\E j \in Jobs : Created(j, op)) => op \in armed \/ Restoring(op)

TriggersInv == TypeOK /\ faults = 0 /\ CreatedStays

\* The steps of a run that has its triggers leave everybody's alone.
LEMMA LaterSteps ==
  ASSUME TypeOK, CreatedStays, UNCHANGED armed, NEW j \in Jobs,
         run[j].pc \notin {"off", "dropNext", "create"},
         \A x \in Jobs : x # j => run'[x] = run[x] /\ pos'[x] = pos[x]
  PROVE  CreatedStays'
  <1> SUFFICES ASSUME NEW op \in Ops, NEW x \in Jobs, Created(x, op)' PROVE (op \in armed \/ Restoring(op))'
    BY DEF CreatedStays
  <1>1. \E y \in Jobs : Created(y, op)
    BY DEF Created
  <1>2. op \in armed \/ Restoring(op)
    BY <1>1 DEF CreatedStays
  <1>3. CASE op \in armed
    BY <1>3
  <1>4. CASE Restoring(op)
    <2>1. PICK y \in Jobs : At(y, "create") /\ op \in Triggers[run[y].arm]
      BY <1>4 DEF Restoring
    <2>2. y # j
      BY <2>1 DEF At
    <2> QED
      BY <2>1, <2>2 DEF Restoring, At
  <1> QED
    BY <1>2, <1>3, <1>4

\* DROP TRIGGER: the run that dropped it is about to create it.
LEMMA DropStep ==
  ASSUME TypeOK, CreatedStays, NEW j \in Jobs, EnsureDrop(j)
  PROVE  CreatedStays'
  <1>1. /\ armed' = armed \ Triggers[run[j].arm] /\ UNCHANGED pos
        /\ run[j].pc \in {"off", "dropNext"} /\ run'[j].pc = "create" /\ run'[j].arm = run[j].arm
        /\ \A x \in Jobs : x # j => run'[x] = run[x]
    BY DEF EnsureDrop, Step, TypeOK, RunType, At
  <1> SUFFICES ASSUME NEW op \in Ops, NEW x \in Jobs, Created(x, op)' PROVE (op \in armed \/ Restoring(op))'
    BY DEF CreatedStays
  <1>2. Created(x, op)
    BY <1>1 DEF Created
  <1>3. op \in armed \/ Restoring(op)
    BY <1>2 DEF CreatedStays
  <1>4. CASE op \in Triggers[run[j].arm]
    BY <1>1, <1>4 DEF Restoring, At
  <1>5. CASE op \in armed /\ op \notin Triggers[run[j].arm]
    BY <1>1, <1>5
  <1>6. CASE Restoring(op)
    <2>1. PICK y \in Jobs : At(y, "create") /\ op \in Triggers[run[y].arm]
      BY <1>6 DEF Restoring
    <2>2. y # j
      BY <1>1, <2>1 DEF At
    <2> QED
      BY <1>1, <2>1, <2>2 DEF Restoring, At
  <1> QED
    BY <1>3, <1>4, <1>5, <1>6

\* CREATE TRIGGER, whether it fails or not: the trigger is there.
LEMMA CreateStep ==
  ASSUME TypeOK, CreatedStays, NEW j \in Jobs, EnsureCreate(j)
  PROVE  CreatedStays'
  <1> DEFINE n == run[j].arm
  <1>1. n \in 1..Len(Triggers) /\ Len(Triggers) \in Nat
    BY JobTypes, TriggersFacts
  <1>2. /\ armed' = armed \union Triggers[n] /\ UNCHANGED pos /\ run[j].pc = "create"
        /\ \A x \in Jobs : x # j => run'[x] = run[x]
    BY DEF EnsureCreate, Step, Stop, TypeOK, RunType, At
  <1>3. \/ run'[j].pc = "dropNext" /\ run'[j].arm = n + 1
        \/ n = Len(Triggers) /\ run'[j].pc = "position" /\ run'[j].arm = n
        \/ run'[j].pc = "off" /\ run'[j].arm = 1
    <2>1. /\ Off.pc = "off" /\ Off.arm = 1
          /\ \A r \in RunType, l \in Labels : [r EXCEPT !.pc = l].arm = r.arm /\ [r EXCEPT !.pc = l].pc = l
      BY DEF Off, RunType
    <2>2. run[j] \in RunType /\ {"position", "dropNext"} \subseteq Labels
      BY DEF TypeOK, Labels
    <2>3. CASE run' = [run EXCEPT ![j] = [run[j] EXCEPT !.pc = "dropNext", !.arm = n + 1]]
      BY <2>2, <2>3 DEF TypeOK, RunType
    <2>4. CASE n = Len(Triggers) /\ run' = [run EXCEPT ![j] = [run[j] EXCEPT !.pc = "position"]]
      BY <2>1, <2>2, <2>4 DEF TypeOK
    <2>5. CASE run' = [run EXCEPT ![j] = Off]
      BY <2>1, <2>5 DEF TypeOK
    <2> QED
      BY <2>3, <2>4, <2>5 DEF EnsureCreate, Step, Stop
  <1> SUFFICES ASSUME NEW op \in Ops, NEW x \in Jobs, Created(x, op)' PROVE (op \in armed \/ Restoring(op))'
    BY DEF CreatedStays
  <1>4. CASE op \in Triggers[n]
    BY <1>2, <1>4
  <1>5. CASE op \notin Triggers[n]
    <2>1. Created(x, op)
      <3>1. CASE x # j
        BY <1>2, <3>1 DEF Created
      <3>2. CASE x = j /\ run'[j].pc = "dropNext"
        BY <1>1, <1>2, <1>3, <1>5, <3>2 DEF Created
      <3>3. CASE x = j /\ run'[j].pc = "position"
        <4>1. n = Len(Triggers)
          BY <1>3, <3>3
        <4>2. \E i \in 1..Len(Triggers) : op \in Triggers[i]
          BY DEF Triggers, Ops
        <4> QED
          BY <1>1, <1>5, <4>1, <4>2, <3>3 DEF Created
      <3>4. CASE x = j /\ run'[j].pc = "off"
        BY <1>1, <1>2, <1>3, <3>4 DEF Created
      <3> QED
        BY <1>3, <3>1, <3>2, <3>3, <3>4
    <2>2. op \in armed \/ Restoring(op)
      BY <2>1 DEF CreatedStays
    <2>3. CASE op \in armed
      BY <1>2, <2>3
    <2>4. CASE Restoring(op)
      <3>1. PICK y \in Jobs : At(y, "create") /\ op \in Triggers[run[y].arm]
        BY <2>4 DEF Restoring
      <3>2. y # j
        BY <1>5, <3>1
      <3> QED
        BY <1>2, <3>1, <3>2 DEF Restoring, At
    <2> QED
      BY <2>2, <2>3, <2>4
  <1> QED
    BY <1>4, <1>5

\* Every step keeps the triggers that were created.
LEMMA TriggersStep == MaxFaults = 0 /\ TriggersInv /\ [Next]_vars => TriggersInv'
  <1> SUFFICES ASSUME MaxFaults = 0, TriggersInv, [Next]_vars PROVE TriggersInv'
    OBVIOUS
  <1> USE DEF TriggersInv
  <1>1. TypeOK'
    BY TypeStep
  <1>2. CASE UNCHANGED <<armed, run, pos, faults>>
    BY <1>1, <1>2 DEF CreatedStays, Created, Restoring, At
  <1>3. ASSUME NEW j \in Jobs, EnsureReplace(j) PROVE TriggersInv'
    BY <1>1, <1>3 DEF EnsureReplace, CreatedStays
  <1>4. ASSUME NEW j \in Jobs, EnsureDrop(j) PROVE TriggersInv'
    BY <1>1, <1>4, DropStep DEF EnsureDrop
  <1>5. ASSUME NEW j \in Jobs, EnsureCreate(j) PROVE TriggersInv'
    BY <1>1, <1>5, CreateStep DEF EnsureCreate
  <1>6. ASSUME NEW j \in Jobs, RunFails(j) PROVE FALSE
    BY <1>6 DEF RunFails
  <1>7. ASSUME NEW j \in Jobs,
               \/ StartAtPosition(j) \/ TakeMaxSeq(j) \/ EnsureFresh(j) \/ ReadPage(j) \/ UpsertPage(j)
               \/ SaveBaseline(j) \/ ReadChanges(j) \/ ApplyChange(j) \/ SavePosition(j) \/ Prune(j)
        PROVE  TriggersInv'
    <2>1. /\ run[j].pc \notin {"off", "dropNext", "create"} /\ UNCHANGED <<armed, faults>>
      BY <1>7 DEF At, StartAtPosition, TakeMaxSeq, EnsureFresh, ReadPage, UpsertPage, SaveBaseline,
                  ReadChanges, ApplyChange, SavePosition, Prune
    <2>2. \A x \in Jobs : x # j => run'[x] = run[x] /\ pos'[x] = pos[x]
      BY <1>7 DEF TypeOK, Step, Stop, StartAtPosition, TakeMaxSeq, EnsureFresh, ReadPage, UpsertPage,
                  SaveBaseline, ReadChanges, ApplyChange, SavePosition, Prune
    <2> QED
      BY <1>1, <2>1, <2>2, LaterSteps
  <1>8. \/ UNCHANGED <<armed, run, pos, faults>>
        \/ \E j \in Jobs : cdcRun(j) \/ RunFails(j)
    BY DEF Next, vars, Write, WriteKey, Commit, Rollback
  <1> QED
    BY <1>2, <1>3, <1>4, <1>5, <1>6, <1>7, <1>8 DEF cdcRun

\* However many jobs race through DROP and CREATE of the same triggers, and one
\* failing on the other's, a missing trigger of a job's table is one that a run
\* is about to create; only a run that dies in between leaves it missing.
THEOREM RacesRestoreTriggers == ASSUME MaxFaults = 0 PROVE Spec => []TriggersRestored
  <1>1. Init => TriggersInv
    <2>1. Init => TypeOK
      BY TypeInit
    <2>2. Init => CreatedStays
      BY DEF Init, Off, CreatedStays, Created
    <2> QED
      BY <2>1, <2>2 DEF TriggersInv, Init
  <1>2. TriggersInv /\ [Next]_vars => TriggersInv'
    BY TriggersStep
  <1>3. TriggersInv => TriggersRestored
    BY DEF TriggersInv, CreatedStays, Created, Restoring, TriggersRestored
  <1> QED
    BY <1>1, <1>2, <1>3, PTL DEF Spec
=============================================================================
