-------------------------- MODULE TriggerJobsProofs --------------------------
(* Proofs about the trigger engine, for any number of triggers, jobs and       *)
(* ticks.                                                                      *)
EXTENDS TriggerJobs, FiniteSetTheorems, FunctionTheorems, TLAPS

-----------------------------------------------------------------------------
(* Jobs and batches are sequences.                                           *)

\* A function on 1..n is a sequence, and a sequence is such a function.
LEMMA SeqOf ==
  ASSUME NEW S, NEW n \in Nat, NEW f \in [1..n -> S]
  PROVE  f \in Seq(S) /\ Len(f) = n
  OBVIOUS

\* The shape of a sequence.
LEMMA SeqIs ==
  ASSUME NEW S, NEW f \in Seq(S)
  PROVE  Len(f) \in Nat /\ DOMAIN f = 1..Len(f) /\ f \in [1..Len(f) -> S]
  OBVIOUS

\* A table keeps its length when its rows are rewritten.
LEMMA SameLength ==
  ASSUME NEW S, NEW s \in Seq(S), NEW f \in [DOMAIN s -> S]
  PROVE  f \in Seq(S) /\ DOMAIN f = DOMAIN s
  BY SeqOf, SeqIs

\* A table with one row more.
LEMMA Appended ==
  ASSUME NEW S, NEW s \in Seq(S), NEW x \in S
  PROVE  /\ Append(s, x) \in Seq(S) /\ DOMAIN s \subseteq DOMAIN Append(s, x)
         /\ \A i \in DOMAIN s : Append(s, x)[i] = s[i]
         /\ \A i \in DOMAIN Append(s, x) \ DOMAIN s : Append(s, x)[i] = x
  OBVIOUS

\* The head of a batch, and what is left behind it.
LEMMA TailOf ==
  ASSUME NEW S, NEW s \in Seq(S), s # <<>>
  PROVE  /\ Head(s) = s[1] /\ 1 \in DOMAIN s /\ s[1] \in S
         /\ Tail(s) \in Seq(S) /\ \A i \in DOMAIN Tail(s) : i + 1 \in DOMAIN s /\ Tail(s)[i] = s[i + 1]
         /\ Len(s) # 1 => Tail(s) # <<>>
  <1>1. Len(s) \in Nat \ {0} /\ DOMAIN s = 1..Len(s)
    OBVIOUS
  <1>2. Head(s) = s[1] /\ 1 \in DOMAIN s /\ s[1] \in S
    BY <1>1
  <1>3. Tail(s) \in Seq(S) /\ Len(Tail(s)) = Len(s) - 1 /\ DOMAIN Tail(s) = 1..(Len(s) - 1)
    BY <1>1
  <1>4. \A i \in DOMAIN Tail(s) : i + 1 \in DOMAIN s /\ Tail(s)[i] = s[i + 1]
    BY <1>1, <1>3
  <1>5. Len(s) # 1 => Tail(s) # <<>>
    <2>1. Len(<<>>) = 0
      OBVIOUS
    <2>2. Tail(s) = <<>> => Len(s) - 1 = 0
      BY <1>3, <2>1
    <2> QED BY <1>1, <2>2
  <1> QED BY <1>2, <1>3, <1>4, <1>5

-----------------------------------------------------------------------------
(* What the steps do to the jobs.                                            *)

\* A row is what it was, and a delivery stays delivered.
SameJob(r, q) == r.type = q.type /\ r.key = q.key /\ (q.done => r.done)

JobsKept == /\ jobs' \in Seq(JobRow) /\ Indices \subseteq Indices'
            /\ \A j \in Indices : SameJob(jobs'[j], jobs[j])

\* One UPDATE of one row.
LEMMA JobUpdated ==
  ASSUME TypeOK, NEW j \in Indices, NEW r \in JobRow, SameJob(r, jobs[j]), jobs' = [jobs EXCEPT ![j] = r]
  PROVE  JobsKept /\ Indices' = Indices /\ jobs'[j] = r /\ \A i \in Indices : i # j => jobs'[i] = jobs[i]
  <1>1. jobs \in Seq(JobRow) /\ jobs \in [Indices -> JobRow]
    BY SeqIs DEF TypeOK, Indices
  <1>2. jobs' \in [Indices -> JobRow] /\ jobs'[j] = r /\ \A i \in Indices : i # j => jobs'[i] = jobs[i]
    BY <1>1
  <1>3. jobs' \in Seq(JobRow) /\ Indices' = Indices
    BY <1>1, <1>2, SameLength DEF Indices
  <1> QED BY <1>2, <1>3 DEF JobsKept, SameJob

\* A new row.
LEMMA JobAppended ==
  ASSUME TypeOK, NEW r \in JobRow, jobs' = Append(jobs, r)
  PROVE  /\ JobsKept /\ \A i \in Indices : jobs'[i] = jobs[i]
         /\ \A i \in Indices' \ Indices : jobs'[i] = r
  <1>1. jobs \in Seq(JobRow)
    BY DEF TypeOK
  <1> QED BY <1>1, Appended DEF JobsKept, SameJob, Indices

\* UPDATE ... SET status = 'CANCELLED'.
LEMMA JobsCancelled ==
  ASSUME TypeOK, NEW id, NEW key, NEW kept, jobs' = Cancelled(id, key, kept)
  PROVE  /\ JobsKept /\ Indices' = Indices
         /\ \A i \in Indices : jobs'[i].tid = jobs[i].tid /\ jobs'[i].status \in {jobs[i].status, "CANCELLED"}
  <1>1. jobs \in Seq(JobRow) /\ jobs \in [Indices -> JobRow]
    BY SeqIs DEF TypeOK, Indices
  <1>2. \A r \in JobRow : LET q == [r EXCEPT !.status = "CANCELLED"] IN
          /\ q \in JobRow /\ SameJob(q, r) /\ q.tid = r.tid /\ q.status = "CANCELLED"
          /\ SameJob(r, r)
    BY DEF JobRow, Statuses, SameJob
  <1>3. \A i \in Indices : jobs'[i] = jobs[i] \/ jobs'[i] = [jobs[i] EXCEPT !.status = "CANCELLED"]
    BY DEF Cancelled
  <1>4. jobs' \in [Indices -> JobRow]
    BY <1>1, <1>2 DEF Cancelled
  <1>5. jobs' \in Seq(JobRow) /\ Indices' = Indices
    BY <1>1, <1>4, SameLength DEF Indices
  <1>6. \A i \in Indices : /\ SameJob(jobs'[i], jobs[i])
                           /\ jobs'[i].tid = jobs[i].tid /\ jobs'[i].status \in {jobs[i].status, "CANCELLED"}
    <2> SUFFICES ASSUME NEW i \in Indices
                 PROVE  /\ SameJob(jobs'[i], jobs[i]) /\ jobs'[i].tid = jobs[i].tid
                        /\ jobs'[i].status \in {jobs[i].status, "CANCELLED"}
      OBVIOUS
    <2>1. jobs[i] \in JobRow
      BY <1>1
    <2>2. CASE jobs'[i] = jobs[i]
      BY <1>2, <2>1, <2>2
    <2>3. CASE jobs'[i] = [jobs[i] EXCEPT !.status = "CANCELLED"]
      BY <1>2, <2>1, <2>3
    <2> QED BY <1>3, <2>2, <2>3
  <1> QED BY <1>5, <1>6 DEF JobsKept

\* ON DELETE SET NULL.
LEMMA JobsUnlinked ==
  ASSUME TypeOK, NEW id,
         jobs' = [j \in Indices |-> IF jobs[j].tid = id THEN [jobs[j] EXCEPT !.tid = 0] ELSE jobs[j]]
  PROVE  /\ JobsKept /\ Indices' = Indices
         /\ \A i \in Indices : jobs'[i].status = jobs[i].status /\ jobs'[i].tid \in {jobs[i].tid, 0}
  <1>1. jobs \in Seq(JobRow) /\ jobs \in [Indices -> JobRow]
    BY SeqIs DEF TypeOK, Indices
  <1>2. \A r \in JobRow : LET q == [r EXCEPT !.tid = 0] IN
          /\ q \in JobRow /\ SameJob(q, r) /\ q.tid = 0 /\ q.status = r.status
          /\ SameJob(r, r)
    BY DEF JobRow, SameJob
  <1>3. \A i \in Indices : jobs'[i] = jobs[i] \/ jobs'[i] = [jobs[i] EXCEPT !.tid = 0]
    OBVIOUS
  <1>4. jobs' \in [Indices -> JobRow]
    BY <1>1, <1>2
  <1>5. jobs' \in Seq(JobRow) /\ Indices' = Indices
    BY <1>1, <1>4, SameLength DEF Indices
  <1>6. \A i \in Indices : /\ SameJob(jobs'[i], jobs[i])
                           /\ jobs'[i].status = jobs[i].status /\ jobs'[i].tid \in {jobs[i].tid, 0}
    BY <1>1, <1>2, <1>3
  <1> QED BY <1>5, <1>6 DEF JobsKept

-----------------------------------------------------------------------------
(* What the steps do to the ticks.                                           *)

Others(t) == \A u \in Ticks : u # t => tick'[u] = tick[u]

\* The batches of the ticks are of jobs that exist.
TicksOK ==
  /\ tick \in [Ticks -> TickType]
  /\ \A t \in Ticks : /\ (tick[t].pc = "idle") <=> (tick[t].batch = <<>>)
                      /\ \A n \in DOMAIN tick[t].batch : tick[t].batch[n].job \in Indices

\* A tick at work has a copy of a job in hand.
LEMMA CopyFacts ==
  ASSUME TypeOK, NEW t \in Ticks, tick[t].pc # "idle"
  PROVE  /\ Copy(t) = tick[t].batch[1] /\ 1 \in DOMAIN tick[t].batch /\ Copy(t) \in JobCopy
         /\ Copy(t).job \in Indices /\ jobs[Copy(t).job] \in JobRow /\ Copy(t).tid \in Nat
  <1>1. tick[t].batch \in Seq(JobCopy) /\ tick[t].batch # <<>>
    BY DEF TypeOK, TickType
  <1>2. Copy(t) = tick[t].batch[1] /\ 1 \in DOMAIN tick[t].batch /\ Copy(t) \in JobCopy
    BY <1>1, TailOf DEF Copy
  <1>3. Copy(t).job \in Indices /\ Copy(t).tid \in Nat
    BY <1>2 DEF TypeOK, JobCopy
  <1>4. jobs[Copy(t).job] \in JobRow
    BY <1>3, SeqIs DEF TypeOK, Indices
  <1> QED BY <1>2, <1>3, <1>4

\* The next step of the same job.
LEMMA TickGoes ==
  ASSUME TypeOK, JobsKept, NEW t \in Ticks, NEW l \in TickLabels \ {"idle"}, tick[t].pc # "idle", Goto(t, l)
  PROVE  TicksOK' /\ tick'[t].pc = l /\ tick'[t].batch = tick[t].batch /\ Copy(t)' = Copy(t) /\ Others(t)
  <1>1. tick[t] \in TickType /\ tick \in [Ticks -> TickType]
    BY DEF TypeOK
  <1>2. [tick[t] EXCEPT !.pc = l] \in TickType /\ tick' = [tick EXCEPT ![t] = [tick[t] EXCEPT !.pc = l]]
    BY <1>1 DEF Goto, TickType
  <1>3. tick' \in [Ticks -> TickType] /\ tick'[t].pc = l /\ tick'[t].batch = tick[t].batch /\ Others(t)
    BY <1>1, <1>2 DEF TickType, Others
  <1>4. \A u \in Ticks : /\ (tick'[u].pc = "idle") <=> (tick'[u].batch = <<>>)
                         /\ \A n \in DOMAIN tick'[u].batch : tick'[u].batch[n].job \in Indices'
    BY <1>3 DEF TypeOK, Others, JobsKept
  <1> QED BY <1>3, <1>4 DEF TicksOK, Copy

\* The next job of the batch, or the end of the tick.
LEMMA TickEnds ==
  ASSUME TypeOK, JobsKept, NEW t \in Ticks, tick[t].pc # "idle", NextJob(t)
  PROVE  /\ TicksOK' /\ tick'[t].pc \in {"idle", "start"} /\ Others(t)
         /\ \A n \in DOMAIN tick'[t].batch :
              n + 1 \in DOMAIN tick[t].batch /\ tick'[t].batch[n] = tick[t].batch[n + 1]
  <1>1. tick[t] \in TickType /\ tick \in [Ticks -> TickType] /\ tick[t].batch \in Seq(JobCopy) /\ tick[t].batch # <<>>
    BY DEF TypeOK, TickType
  <1>2. IdleTick \in TickType /\ IdleTick.pc = "idle" /\ IdleTick.batch = <<>> /\ DOMAIN IdleTick.batch = {}
    BY DEF IdleTick, TickType, TickLabels
  <1>3. CASE tick' = [tick EXCEPT ![t] = IdleTick]
    <2>1. tick' \in [Ticks -> TickType] /\ tick'[t] = IdleTick /\ Others(t)
      BY <1>1, <1>2, <1>3 DEF Others
    <2>2. \A u \in Ticks : /\ (tick'[u].pc = "idle") <=> (tick'[u].batch = <<>>)
                           /\ \A n \in DOMAIN tick'[u].batch : tick'[u].batch[n].job \in Indices'
      BY <1>2, <2>1 DEF TypeOK, Others, JobsKept
    <2> QED BY <1>2, <2>1, <2>2 DEF TicksOK
  <1>4. CASE Len(tick[t].batch) # 1 /\ tick' = [tick EXCEPT ![t] = [pc |-> "start", batch |-> Tail(tick[t].batch)]]
    <2>1. /\ Tail(tick[t].batch) \in Seq(JobCopy) /\ Tail(tick[t].batch) # <<>>
          /\ \A n \in DOMAIN Tail(tick[t].batch) :
               n + 1 \in DOMAIN tick[t].batch /\ Tail(tick[t].batch)[n] = tick[t].batch[n + 1]
      BY <1>1, <1>4, TailOf
    <2>2. [pc |-> "start", batch |-> Tail(tick[t].batch)] \in TickType
      BY <2>1 DEF TickType, TickLabels
    <2>3. /\ tick' \in [Ticks -> TickType] /\ Others(t)
          /\ tick'[t].pc = "start" /\ tick'[t].batch = Tail(tick[t].batch)
      BY <1>1, <1>4, <2>2 DEF Others
    <2>4. \A n \in DOMAIN tick'[t].batch : tick'[t].batch[n].job \in Indices'
      BY <2>1, <2>3 DEF TypeOK, JobsKept
    <2>5. \A u \in Ticks : /\ (tick'[u].pc = "idle") <=> (tick'[u].batch = <<>>)
                           /\ \A n \in DOMAIN tick'[u].batch : tick'[u].batch[n].job \in Indices'
      BY <2>1, <2>3, <2>4 DEF TypeOK, Others, JobsKept
    <2> QED BY <2>1, <2>3, <2>5 DEF TicksOK
  <1> QED BY <1>3, <1>4 DEF NextJob

\* Steps of others leave the ticks as they are.
LEMMA TicksRest ==
  ASSUME TypeOK, JobsKept, UNCHANGED tick
  PROVE  TicksOK'
  BY DEF TypeOK, TicksOK, JobsKept

\* A claim hands copies of the oldest due jobs to a tick.
LEMMA TickClaims ==
  ASSUME TypeOK, NEW t \in Ticks, Claim(t)
  PROVE  /\ TicksOK' /\ tick'[t].pc = "start" /\ Others(t) /\ tick[t].pc = "idle"
         /\ \A n \in DOMAIN tick'[t].batch : \E j \in Indices : tick'[t].batch[n] = CopyOf(j)
  <1> DEFINE S == Oldest(Claimable)
  <1>1. S \subseteq Indices /\ S # {}
    BY DEF Claim, Oldest, Claimable
  <1>2. IsFiniteSet(S) /\ Cardinality(S) \in Nat /\ Cardinality(S) # 0
    <2>1. IsFiniteSet(1..Len(jobs)) /\ Indices = 1..Len(jobs)
      BY FS_Interval, SeqIs DEF TypeOK, Indices
    <2> QED BY <1>1, <2>1, FS_Subset, FS_CardinalityType, FS_EmptySet
  <1>3. PICK rows \in [1..Cardinality(S) -> S] :
          tick' = [tick EXCEPT ![t] = [pc |-> "start", batch |-> [n \in DOMAIN rows |-> CopyOf(rows[n])]]]
    BY DEF Claim, Ordered
  <1> HIDE DEF S
  <1> DEFINE b == [n \in DOMAIN rows |-> CopyOf(rows[n])]
  <1>4. \A j \in Indices : CopyOf(j) \in JobCopy /\ CopyOf(j).job = j
    <2>1. \A j \in Indices : jobs[j] \in JobRow /\ j \in Nat
      BY SeqIs DEF TypeOK, Indices
    <2> QED BY <2>1 DEF CopyOf, JobCopy, JobRow
  <1>5. b \in [1..Cardinality(S) -> JobCopy] /\ \A n \in 1..Cardinality(S) : rows[n] \in Indices /\ b[n] = CopyOf(rows[n])
    BY <1>1, <1>4
  <1>6. b \in Seq(JobCopy) /\ Len(b) = Cardinality(S) /\ DOMAIN b = 1..Cardinality(S)
    BY <1>2, <1>5, SeqOf
  <1>7. b # <<>>
    <2>1. Len(<<>>) = 0
      OBVIOUS
    <2> QED BY <1>2, <1>6, <2>1
  <1>8. tick' = [tick EXCEPT ![t] = [pc |-> "start", batch |-> b]]
    BY <1>3
  <1> HIDE DEF b
  <1>9. [pc |-> "start", batch |-> b] \in TickType
    BY <1>6 DEF TickType, TickLabels
  <1>10. tick' \in [Ticks -> TickType] /\ tick'[t].pc = "start" /\ tick'[t].batch = b /\ Others(t)
    BY <1>8, <1>9 DEF TypeOK, Others
  <1>11. \A n \in DOMAIN b : \E j \in Indices : b[n] = CopyOf(j) /\ b[n].job = j
    BY <1>4, <1>5, <1>6
  <1>12. Indices' = Indices /\ tick[t].pc = "idle"
    BY DEF Claim, Indices
  <1>13. \A u \in Ticks : /\ (tick'[u].pc = "idle") <=> (tick'[u].batch = <<>>)
                          /\ \A n \in DOMAIN tick'[u].batch : tick'[u].batch[n].job \in Indices'
    BY <1>7, <1>10, <1>11, <1>12 DEF TypeOK, Others
  <1> QED BY <1>10, <1>11, <1>12, <1>13 DEF TicksOK

-----------------------------------------------------------------------------
(* The steps of a tick.                                                      *)

\* A tick moves on within its batch.
Stays(t) == tick'[t].batch = tick[t].batch /\ Copy(t)' = Copy(t) /\ Others(t)

\* Steps that leave the queue alone.
LEMMA QuietWork ==
  ASSUME TypeOK, NEW t \in Ticks,
         \/ ReadRegistry(t) \/ RedropTrigger(t) \/ CreateDbTrigger(t) \/ Activate(t)
         \/ DropTrigger(t) \/ ScheduledAction(t) \/ StepFails(t)
  PROVE  /\ tick[t].pc \notin {"idle", "start"} /\ UNCHANGED <<jobs, api, ids, overlap, crashed, deleted, recreated>>
         /\ JobsKept /\ TicksOK' /\ Stays(t) /\ Goto(t, tick'[t].pc)
         /\ tick'[t].pc \in {"redrop", "create", "activate", "sweep", "rearm", "complete", "fail"}
  <1>1. tick[t].pc \notin {"idle", "start"}
    BY DEF ReadRegistry, RedropTrigger, CreateDbTrigger, Activate, DropTrigger, ScheduledAction, StepFails, At
  <1>2. UNCHANGED <<jobs, api, ids, overlap, crashed, deleted, recreated>>
    BY DEF ReadRegistry, RedropTrigger, CreateDbTrigger, Activate, DropTrigger, ScheduledAction, StepFails, background
  <1>3. JobsKept
    BY <1>2 DEF JobsKept, SameJob, TypeOK, Indices
  <1>4. PICK l \in {"redrop", "create", "activate", "sweep", "rearm", "complete", "fail"} : Goto(t, l)
    BY DEF ReadRegistry, RedropTrigger, CreateDbTrigger, Activate, DropTrigger, ScheduledAction, StepFails
  <1>5. l \in TickLabels \ {"idle"}
    BY DEF TickLabels
  <1>6. TicksOK' /\ Stays(t) /\ tick'[t].pc = l
    BY <1>1, <1>3, <1>4, <1>5, TickGoes DEF Stays
  <1> QED BY <1>1, <1>2, <1>3, <1>4, <1>6

\* A row gets a status.
LEMMA StatusEdit ==
  ASSUME NEW r \in JobRow, NEW s \in Statuses, NEW q, q = [r EXCEPT !.status = s]
  PROVE  q \in JobRow /\ SameJob(q, r) /\ q.tid = r.tid /\ q.status = s /\ q.done = r.done
  BY DEF JobRow, SameJob

\* The action is delivered.
LEMMA DoneEdit ==
  ASSUME NEW r \in JobRow, NEW q, q = [r EXCEPT !.done = TRUE]
  PROVE  q \in JobRow /\ SameJob(q, r) /\ q.tid = r.tid /\ q.status = r.status /\ q.done
  BY DEF JobRow, SameJob

\* What a step of tick t does to the row of its job and to no other row.
Edits(t) ==
  LET c == Copy(t).job IN
  /\ JobsKept /\ Indices' = Indices /\ \A i \in Indices : i # c => jobs'[i] = jobs[i]
  /\ jobs'[c].tid = jobs[c].tid

\* Start and the delivery of an action go on with the job ...
LEMMA RunWork ==
  ASSUME TypeOK, NEW t \in Ticks, Start(t) \/ PerformAction(t)
  PROVE  /\ tick[t].pc # "idle" /\ UNCHANGED <<registry, installed, api, ids, overlap, crashed, deleted, recreated>>
         /\ Edits(t) /\ TicksOK' /\ Stays(t)
         /\ Start(t) => /\ tick'[t].pc \in {"registry", "drop", "fire", "perform"}
                        /\ jobs'[Copy(t).job].status = "RUNNING" /\ jobs'[Copy(t).job].done = jobs[Copy(t).job].done
         /\ PerformAction(t) => /\ tick'[t].pc = "complete" /\ jobs'[Copy(t).job].done
                                /\ jobs'[Copy(t).job].status = jobs[Copy(t).job].status
  <1>1. tick[t].pc # "idle"
    BY DEF Start, PerformAction, At
  <1>2. PICK c \in Indices : c = Copy(t).job /\ jobs[c] \in JobRow
    BY <1>1, CopyFacts
  <1>3. CASE Start(t)
    <2>1. jobs' = [jobs EXCEPT ![c] = [jobs[c] EXCEPT !.status = "RUNNING"]]
      BY <1>2, <1>3 DEF Start, SetStatus
    <2>2. "RUNNING" \in Statuses
      BY DEF Statuses
    <2>r. PICK r : r = [jobs[c] EXCEPT !.status = "RUNNING"]
      OBVIOUS
    <2>3. /\ r \in JobRow /\ SameJob(r, jobs[c])
          /\ r.status = "RUNNING" /\ r.tid = jobs[c].tid /\ r.done = jobs[c].done
      BY <1>2, <2>2, <2>r, StatusEdit
    <2>4. JobsKept /\ Indices' = Indices /\ jobs'[c] = r /\ \A i \in Indices : i # c => jobs'[i] = jobs[i]
      BY <2>1, <2>r, <2>3, JobUpdated
    <2>5. PICK l \in {"registry", "drop", "fire", "perform"} : Goto(t, l)
      <3>1. FirstStep(jobs[c].type) \in {"registry", "drop", "fire", "perform"}
        BY <1>2 DEF FirstStep, JobRow, Types, Removals
      <3> QED BY <1>2, <1>3, <3>1 DEF Start
    <2>6. TicksOK' /\ Stays(t) /\ tick'[t].pc = l
      BY <1>1, <2>4, <2>5, TickGoes DEF Stays, TickLabels
    <2>7. ~PerformAction(t)
      BY <1>3 DEF Start, PerformAction, At
    <2> QED BY <1>1, <1>2, <1>3, <2>3, <2>4, <2>6, <2>7 DEF Edits, Start, background
  <1>4. CASE PerformAction(t)
    <2>1. jobs' = [jobs EXCEPT ![c] = [jobs[c] EXCEPT !.done = TRUE]]
      BY <1>2, <1>4 DEF PerformAction
    <2>r. PICK r : r = [jobs[c] EXCEPT !.done = TRUE]
      OBVIOUS
    <2>3. /\ r \in JobRow /\ SameJob(r, jobs[c])
          /\ r.status = jobs[c].status /\ r.tid = jobs[c].tid /\ r.done
      BY <1>2, <2>r, DoneEdit
    <2>4. JobsKept /\ Indices' = Indices /\ jobs'[c] = r /\ \A i \in Indices : i # c => jobs'[i] = jobs[i]
      BY <2>1, <2>r, <2>3, JobUpdated
    <2>5. Goto(t, "complete")
      BY <1>4 DEF PerformAction
    <2>6. TicksOK' /\ Stays(t) /\ tick'[t].pc = "complete"
      BY <1>1, <2>4, <2>5, TickGoes DEF Stays, TickLabels
    <2>7. ~Start(t)
      BY <1>4 DEF Start, PerformAction, At
    <2> QED BY <1>1, <1>2, <1>4, <2>3, <2>4, <2>6, <2>7 DEF Edits, PerformAction, background
  <1> QED BY <1>3, <1>4

\* ... and the three ends of a job give it a status that is not RUNNING, and
\* COMPLETED only behind the last step.
LEMMA EndWork ==
  ASSUME TypeOK, NEW t \in Ticks, Complete(t) \/ Rearm(t) \/ Fail(t)
  PROVE  /\ tick[t].pc # "idle" /\ UNCHANGED <<registry, installed, api, ids, overlap, crashed, deleted, recreated>>
         /\ Edits(t) /\ TicksOK' /\ NextJob(t) /\ jobs'[Copy(t).job].done = jobs[Copy(t).job].done
         /\ jobs'[Copy(t).job].status # "RUNNING"
         /\ jobs'[Copy(t).job].status = "COMPLETED" => tick[t].pc = "complete"
  <1>1. tick[t].pc # "idle" /\ NextJob(t)
    BY DEF Complete, Rearm, Fail, At
  <1>2. PICK c \in Indices : c = Copy(t).job /\ jobs[c] \in JobRow /\ Copy(t).attempts \in Nat
    BY <1>1, CopyFacts DEF JobCopy
  <1>3. PICK r \in JobRow : /\ jobs' = [jobs EXCEPT ![c] = r] /\ SameJob(r, jobs[c])
                            /\ r.tid = jobs[c].tid /\ r.done = jobs[c].done
                            /\ r.status # "RUNNING" /\ (r.status = "COMPLETED" => tick[t].pc = "complete")
    <2>1. {"COMPLETED", "PENDING", "FAILED"} \subseteq Statuses /\ {TRUE, FALSE} = BOOLEAN /\ jobs[c].due \in BOOLEAN
      BY <1>2 DEF Statuses, JobRow
    <2>2. CASE Complete(t)
      <3>1. jobs' = [jobs EXCEPT ![c] = [jobs[c] EXCEPT !.status = "COMPLETED"]] /\ tick[t].pc = "complete"
        BY <1>2, <2>2 DEF Complete, SetStatus
      <3>q. PICK q : q = [jobs[c] EXCEPT !.status = "COMPLETED"]
        OBVIOUS
      <3>r. /\ q \in JobRow /\ SameJob(q, jobs[c]) /\ q.tid = jobs[c].tid /\ q.done = jobs[c].done
            /\ q.status = "COMPLETED"
        BY <1>2, <2>1, <3>q, StatusEdit
      <3> QED BY <3>1, <3>q, <3>r
    <2>3. CASE Rearm(t)
      <3>1. jobs' = [jobs EXCEPT ![c] = [jobs[c] EXCEPT !.status = "PENDING", !.due = FALSE]]
        BY <1>2, <2>3 DEF Rearm
      <3>q. PICK q : q = [jobs[c] EXCEPT !.status = "PENDING", !.due = FALSE]
        OBVIOUS
      <3>r. /\ q \in JobRow /\ SameJob(q, jobs[c]) /\ q.tid = jobs[c].tid /\ q.done = jobs[c].done
            /\ q.status = "PENDING"
        <4>1. "PENDING" \in Statuses /\ FALSE \in BOOLEAN
          BY <2>1
        <4> QED BY <1>2, <3>q, <4>1 DEF JobRow, SameJob
      <3> QED BY <3>1, <3>q, <3>r
    <2>4. CASE Fail(t)
      <3>1. PICK n \in Nat : n = AttemptsAfter(t)
        BY <1>2 DEF AttemptsAfter
      <3>2. PICK d \in BOOLEAN, st \in {"FAILED", "PENDING"} :
              jobs' = [jobs EXCEPT ![c] = [jobs[c] EXCEPT !.status = st, !.attempts = n, !.due = d]]
        <4>1. CASE n >= MaxAttempts
          BY <1>2, <2>1, <2>4, <3>1, <4>1 DEF Fail
        <4>2. CASE ~(n >= MaxAttempts)
          BY <1>2, <2>1, <2>4, <3>1, <4>2 DEF Fail
        <4> QED BY <4>1, <4>2
      <3>q. PICK q : q = [jobs[c] EXCEPT !.status = st, !.attempts = n, !.due = d]
        OBVIOUS
      <3>r. /\ q \in JobRow /\ SameJob(q, jobs[c]) /\ q.tid = jobs[c].tid /\ q.done = jobs[c].done
            /\ q.status = st
        <4>1. st \in Statuses
          BY <2>1
        <4> QED BY <1>2, <3>q, <4>1 DEF JobRow, SameJob
      <3> QED BY <3>1, <3>2, <3>q, <3>r
    <2> QED BY <2>2, <2>3, <2>4
  <1>4. JobsKept /\ Indices' = Indices /\ jobs'[c] = r /\ \A i \in Indices : i # c => jobs'[i] = jobs[i]
    BY <1>3, JobUpdated
  <1>5. TicksOK'
    BY <1>1, <1>4, TickEnds
  <1> QED BY <1>1, <1>2, <1>3, <1>4, <1>5 DEF Edits, Complete, Rearm, Fail, background

\* A job whose row cannot be written is left behind as it is.
LEMMA LeftWork ==
  ASSUME TypeOK, NEW t \in Ticks, Leaves(t)
  PROVE  /\ tick[t].pc # "idle" /\ UNCHANGED <<registry, installed, jobs, api, ids, overlap, crashed, deleted, recreated>>
         /\ JobsKept /\ Edits(t) /\ TicksOK' /\ NextJob(t)
         /\ poisoned' \in Nat /\ unrecorded' \subseteq Nat /\ unrecorded \subseteq unrecorded'
         /\ tick[t].pc # "start" => Copy(t).job \in unrecorded'
  <1>1. tick[t].pc # "idle" /\ NextJob(t)
    BY DEF Leaves, DdlFails, SessionLost, StartRefused, LeaveRow
  <1>2. UNCHANGED <<registry, installed, jobs, api, ids, overlap, crashed, deleted, recreated>>
    BY DEF Leaves, DdlFails, SessionLost, StartRefused, LeaveRow, background
  <1>3. JobsKept /\ Indices' = Indices
    BY <1>2 DEF TypeOK, JobsKept, SameJob, Indices
  <1>4. Edits(t)
    BY <1>2, <1>3 DEF Edits
  <1>5. TicksOK'
    BY <1>1, <1>3, TickEnds
  <1>6. Copy(t).job \in Nat /\ poisoned \in Nat /\ unrecorded \subseteq Nat
    BY <1>1, CopyFacts DEF JobCopy, TypeOK
  <1>7. CASE LeaveRow(t) /\ poisoned' \in Nat
    BY <1>1, <1>2, <1>4, <1>5, <1>6, <1>7 DEF Edits, LeaveRow
  <1>8. CASE StartRefused(t)
    BY <1>1, <1>2, <1>4, <1>5, <1>6, <1>8 DEF Edits, StartRefused, background
  <1> QED BY <1>6, <1>7, <1>8 DEF Leaves, DdlFails, SessionLost

\* The sweep and the removal of the registry row.
LEMMA RemovalWork ==
  ASSUME TypeOK, NEW t \in Ticks, Sweep(t) \/ RemoveRow(t)
  PROVE  /\ tick[t].pc \in {"sweep", "remove"} /\ UNCHANGED <<installed, api, ids, overlap, crashed, deleted, recreated>>
         /\ JobsKept /\ Indices' = Indices /\ TicksOK' /\ Stays(t) /\ tick'[t].pc \in {"complete", "remove"}
         /\ jobs[Copy(t).job].type \in Removals
         /\ \A i \in Indices : /\ jobs'[i].status \in {jobs[i].status, "CANCELLED"}
                               /\ jobs'[i].tid \in {jobs[i].tid, 0}
  <1>1. /\ tick[t].pc \in {"sweep", "remove"} /\ jobs[Copy(t).job].type \in Removals
        /\ UNCHANGED <<installed, api, ids, overlap, crashed, deleted, recreated>>
    BY DEF Sweep, RemoveRow, At, background
  <1>2. PICK l \in {"complete", "remove"} : Goto(t, l)
    BY DEF Sweep, RemoveRow
  <1>3. /\ JobsKept /\ Indices' = Indices
        /\ \A i \in Indices : /\ jobs'[i].status \in {jobs[i].status, "CANCELLED"}
                              /\ jobs'[i].tid \in {jobs[i].tid, 0}
    <2>1. CASE Sweep(t)
      BY <2>1, JobsCancelled DEF Sweep
    <2>2. CASE RemoveRow(t)
      BY <2>2, JobsUnlinked DEF RemoveRow
    <2> QED BY <2>1, <2>2
  <1>4. TicksOK' /\ Stays(t) /\ tick'[t].pc = l
    BY <1>1, <1>2, <1>3, TickGoes DEF Stays, TickLabels
  <1> QED BY <1>1, <1>3, <1>4

-----------------------------------------------------------------------------
(* The steps of everybody else.                                              *)

\* A row is enqueued: by a call, or by the trigger when it fires.
Enqueues(r) == /\ r \in JobRow /\ r.status = "PENDING" /\ ~r.done
               /\ jobs' = Append(jobs, r)

\* A trigger fires.
LEMMA FiringEnqueues ==
  ASSUME TypeOK, NEW k \in Triggers, FireTrigger(k) \/ AutoDrop(k)
  PROVE  \E r \in JobRow : Enqueues(r) /\ r.tid = 0 /\ r.key = k /\ (r.type \in Removals => AutoDrop(k))
  <1>1. 0 \in Nat /\ TRUE \in BOOLEAN /\ {"EXECUTE_TRIGGER_ACTION", "CLEANUP_TRIGGER"} \subseteq Types
    BY DEF Types
  <1>2. CASE FireTrigger(k)
    <2>1. PICK due \in BOOLEAN : jobs' = Append(jobs, Job("EXECUTE_TRIGGER_ACTION", 0, k, due, FALSE))
      BY <1>2 DEF FireTrigger
    <2>2. PICK r : r = Job("EXECUTE_TRIGGER_ACTION", 0, k, due, FALSE)
      OBVIOUS
    <2>3. /\ r \in JobRow /\ r.status = "PENDING" /\ ~r.done /\ r.type = "EXECUTE_TRIGGER_ACTION"
          /\ r.key = k /\ r.tid = 0
      BY <1>1, <2>2 DEF Job, JobRow, Statuses
    <2> QED BY <2>1, <2>2, <2>3 DEF Enqueues, Removals
  <1>3. CASE AutoDrop(k)
    <2>1. jobs' = Append(jobs, Job("CLEANUP_TRIGGER", 0, k, TRUE, FALSE))
      BY <1>3 DEF AutoDrop
    <2>2. PICK r : r = Job("CLEANUP_TRIGGER", 0, k, TRUE, FALSE)
      OBVIOUS
    <2>3. /\ r \in JobRow /\ r.status = "PENDING" /\ ~r.done /\ r.key = k /\ r.tid = 0
      BY <1>1, <2>2 DEF Job, JobRow, Statuses
    <2> QED BY <1>3, <2>1, <2>2, <2>3 DEF Enqueues
  <1> QED BY <1>2, <1>3

\* A call enqueues the job of its trigger, unless the row is gone.
LEMMA CallEnqueues ==
  ASSUME TypeOK, EnqueueApiJob
  PROVE  \/ UNCHANGED jobs
         \/ \E r \in JobRow : /\ Enqueues(r) /\ r.tid = api.id /\ r.key = api.key
                              /\ r.type \in Removals => api.op = "delete"
  <1>1. api.key \in Triggers /\ api.id \in Nat
    BY DEF TypeOK, EnqueueApiJob, ApiType
  <1>2. SUFFICES ASSUME RowExists(api.id)
                 PROVE  \E r \in JobRow : /\ Enqueues(r) /\ r.tid = api.id /\ r.key = api.key
                                          /\ r.type \in Removals => api.op = "delete"
    BY DEF EnqueueApiJob
  <1>3. PICK type \in Types : /\ EnqueueJob(type, api.id, api.key)
                              /\ type \in Removals => api.op = "delete"
    BY <1>2 DEF EnqueueApiJob, Types, Removals
  <1>4. PICK due \in BOOLEAN : jobs' = Append(jobs, Job(type, api.id, api.key, due, FALSE))
    BY <1>3 DEF EnqueueJob
  <1>5. PICK r : r = Job(type, api.id, api.key, due, FALSE)
    OBVIOUS
  <1>6. /\ r \in JobRow /\ r.status = "PENDING" /\ ~r.done /\ r.type = type /\ r.key = api.key /\ r.tid = api.id
    BY <1>1, <1>5 DEF Job, JobRow, Statuses
  <1> QED BY <1>3, <1>4, <1>5, <1>6 DEF Enqueues

\* A retry, and run_at passing.
LEMMA TimeEdits ==
  ASSUME TypeOK, NEW j \in Indices, RetryJob(j) \/ BecomesDue(j)
  PROVE  /\ JobsKept /\ Indices' = Indices
         /\ \A i \in Indices : /\ jobs'[i].status \in {jobs[i].status, "PENDING"} /\ jobs'[i].tid = jobs[i].tid
                               /\ jobs'[i].done = jobs[i].done
         /\ UNCHANGED <<registry, installed, tick, api, ids, overlap, crashed, deleted, recreated>>
  <1>1. jobs[j] \in JobRow /\ "PENDING" \in Statuses
    BY SeqIs DEF TypeOK, Indices, Statuses
  <1>2. PICK r : /\ jobs' = [jobs EXCEPT ![j] = r]
                 /\ r = [jobs[j] EXCEPT !.status = "PENDING", !.due = TRUE] \/ r = [jobs[j] EXCEPT !.due = TRUE]
    BY DEF RetryJob, BecomesDue
  <1>3. /\ r \in JobRow /\ SameJob(r, jobs[j]) /\ r.tid = jobs[j].tid /\ r.done = jobs[j].done
        /\ r.status \in {jobs[j].status, "PENDING"}
    <2>1. CASE r = [jobs[j] EXCEPT !.status = "PENDING", !.due = TRUE]
      BY <1>1, <2>1 DEF JobRow, SameJob
    <2>2. CASE r = [jobs[j] EXCEPT !.due = TRUE]
      BY <1>1, <2>2 DEF JobRow, SameJob
    <2> QED BY <1>2, <2>1, <2>2
  <1>4. JobsKept /\ Indices' = Indices /\ jobs'[j] = r /\ \A i \in Indices : i # j => jobs'[i] = jobs[i]
    BY <1>2, <1>3, JobUpdated
  <1>5. UNCHANGED <<registry, installed, tick, api, ids, overlap, crashed, deleted, recreated>>
    BY DEF RetryJob, BecomesDue, background
  <1> QED BY <1>3, <1>4, <1>5

-----------------------------------------------------------------------------
(* What the steps do to the registry.                                        *)

RegistryStatuses == {"NONE", "ACTIVE", "PENDING_DEPLOY", "PENDING_DELETE"}

\* UPDATE trigger_registry SET status = s WHERE id = x.
LEMMA RowsMarked ==
  ASSUME TypeOK, NEW x, NEW s \in RegistryStatuses,
         registry' = [k \in Triggers |-> IF registry[k].id = x THEN [registry[k] EXCEPT !.status = s]
                                         ELSE registry[k]]
  PROVE  registry' \in [Triggers -> RegistryRow] /\ \A k \in Triggers : registry'[k].id = registry[k].id
  <1>1. \A r \in RegistryRow : [r EXCEPT !.status = s] \in RegistryRow /\ [r EXCEPT !.status = s].id = r.id
    BY DEF RegistryRow, RegistryStatuses
  <1>2. \A k \in Triggers : registry[k] \in RegistryRow
    BY DEF TypeOK
  <1> QED BY <1>1, <1>2

\* DELETE FROM trigger_registry WHERE id = x.
LEMMA RowsRemoved ==
  ASSUME TypeOK, NEW x,
         registry' = [k \in Triggers |-> IF registry[k].id = x THEN NoRow ELSE registry[k]]
  PROVE  /\ registry' \in [Triggers -> RegistryRow]
         /\ \A k \in Triggers : registry'[k] = IF registry[k].id = x THEN NoRow ELSE registry[k]
  <1>1. NoRow \in RegistryRow
    BY DEF NoRow, RegistryRow
  <1> QED BY <1>1 DEF TypeOK

\* The upsert writes one row, which is ACTIVE.
LEMMA RowUpserted ==
  ASSUME TypeOK, NEW k \in Triggers, Upsert(k)
  PROVE  /\ registry' \in [Triggers -> RegistryRow] /\ ids' \in Nat /\ recreated' \subseteq Triggers
         /\ \A l \in Triggers : l # k => registry'[l] = registry[l]
         /\ registry[k] = NoRow => ids' = ids + 1 /\ registry'[k].id = ids + 1
         /\ registry[k] # NoRow => ids' = ids /\ registry'[k].id = registry[k].id
         /\ registry'[k].status = "ACTIVE"
         /\ recreated' = recreated \cup ({k} \cap deleted)
  <1>1. registry[k] \in RegistryRow /\ registry[k].id \in Nat /\ ids \in Nat
    BY DEF TypeOK, RegistryRow
  <1>2. PICK n \in Nat : n = IF registry[k] = NoRow THEN ids + 1 ELSE registry[k].id
    BY <1>1
  <1>3. [id |-> n, status |-> "ACTIVE"] \in RegistryRow
    BY DEF RegistryRow
  <1>4. registry' = [registry EXCEPT ![k] = [id |-> n, status |-> "ACTIVE"]]
    BY <1>2 DEF Upsert
  <1>5. /\ registry' \in [Triggers -> RegistryRow] /\ registry'[k].id = n /\ registry'[k].status = "ACTIVE"
        /\ \A l \in Triggers : l # k => registry'[l] = registry[l]
    BY <1>3, <1>4 DEF TypeOK
  <1>6. ids' = (IF registry[k] = NoRow THEN ids + 1 ELSE ids) /\ recreated' = recreated \cup ({k} \cap deleted)
    BY DEF Upsert
  <1>7. ids' \in Nat /\ recreated' \subseteq Triggers
    BY <1>1, <1>6 DEF TypeOK
  <1> QED BY <1>2, <1>5, <1>6, <1>7

-----------------------------------------------------------------------------
(* Type correctness                                                          *)

\* What the type invariant says of the registry, the call and the background.
RestOK ==
  /\ registry \in [Triggers -> RegistryRow] /\ installed \subseteq Triggers
  /\ api \in ApiType /\ (api.pc # "none" => api.key \in Triggers)
  /\ ids \in Nat /\ overlap \in BOOLEAN /\ crashed \in BOOLEAN
  /\ deleted \subseteq Triggers /\ recreated \subseteq Triggers
  /\ poisoned \in Nat /\ unrecorded \subseteq Nat

\* The parts of the type invariant.
LEMMA TypeParts == TypeOK <=> RestOK /\ jobs \in Seq(JobRow) /\ TicksOK
  BY DEF TypeOK, RestOK, TicksOK

\* The queue has no part in steps that leave it alone.
LEMMA JobsRest ==
  ASSUME TypeOK, UNCHANGED jobs
  PROVE  JobsKept /\ Indices' = Indices
  BY DEF TypeOK, JobsKept, SameJob, Indices

\* Calls of the API, up to the job they enqueue.
LEMMA CallsRest ==
  ASSUME TypeOK, \/ \E k \in Triggers : \/ CreateTrigger(k) \/ ApplyManifest(k)
                                        \/ SelectTrigger(k, "delete") \/ SelectTrigger(k, "deploy")
                 \/ MarkTrigger
  PROVE  RestOK' /\ UNCHANGED <<jobs, tick, overlap, crashed, poisoned, unrecorded>>
  <1>1. UNCHANGED <<jobs, tick, overlap, crashed, poisoned, unrecorded>>
    BY DEF CreateTrigger, ApplyManifest, SelectTrigger, MarkTrigger, background
  <1>2. RestOK
    BY TypeParts
  <1>3. ASSUME NEW k \in Triggers, CreateTrigger(k) \/ ApplyManifest(k) PROVE RestOK'
    <2>1. Upsert(k) /\ UNCHANGED <<api, overlap, crashed, deleted, poisoned, unrecorded>> /\ installed' \subseteq Triggers
      BY <1>2, <1>3 DEF CreateTrigger, ApplyManifest, RestOK
    <2>2. registry' \in [Triggers -> RegistryRow] /\ ids' \in Nat /\ recreated' \subseteq Triggers
      BY <2>1, RowUpserted
    <2> QED BY <1>2, <2>1, <2>2 DEF RestOK
  <1>4. ASSUME NEW k \in Triggers, NEW op \in {"delete", "deploy"}, SelectTrigger(k, op) PROVE RestOK'
    <2>1. registry[k].id \in Nat
      BY <1>2 DEF RestOK, RegistryRow
    <2>2. api' = [op |-> op, pc |-> "mark", key |-> k, id |-> registry[k].id]
      BY <1>4 DEF SelectTrigger
    <2>3. api' \in ApiType /\ api'.key \in Triggers
      BY <2>1, <2>2 DEF ApiType
    <2>4. deleted' \subseteq Triggers /\ UNCHANGED <<registry, installed, ids, overlap, crashed, recreated, poisoned, unrecorded>>
      BY <1>2, <1>4 DEF SelectTrigger, RestOK
    <2> QED BY <1>2, <2>3, <2>4 DEF RestOK
  <1>5. CASE MarkTrigger
    <2>1. PICK s \in RegistryStatuses :
            registry' = [k \in Triggers |-> IF registry[k].id = api.id THEN [registry[k] EXCEPT !.status = s]
                                            ELSE registry[k]]
      BY <1>5 DEF MarkTrigger, RegistryStatuses
    <2>2. registry' \in [Triggers -> RegistryRow]
      BY <2>1, RowsMarked
    <2>3. PICK pc \in {"cancel", "enqueue"} : api' = [api EXCEPT !.pc = pc]
      BY <1>5 DEF MarkTrigger
    <2>4. api' \in ApiType /\ api'.key \in Triggers
      BY <1>2, <1>5, <2>3 DEF RestOK, ApiType, MarkTrigger
    <2> QED BY <1>2, <1>5, <2>2, <2>4 DEF RestOK, MarkTrigger, background
  <1> QED BY <1>1, <1>3, <1>4, <1>5

\* Steps of the queue leave the rest of the state in shape.
LEMMA QueueRest ==
  ASSUME TypeOK, \/ CancelJobs \/ EnqueueApiJob \/ SessionMended \/ Crash
                 \/ \E k \in Triggers : FireTrigger(k) \/ AutoDrop(k)
                 \/ \E j \in Indices : RetryJob(j) \/ BecomesDue(j)
                 \/ \E t \in Ticks : \/ Claim(t) \/ Start(t) \/ PerformAction(t) \/ Complete(t) \/ Rearm(t)
                                     \/ Fail(t) \/ Sweep(t) \/ ReadRegistry(t) \/ ScheduledAction(t) \/ StepFails(t)
                                     \/ Leaves(t)
  PROVE  RestOK' /\ UNCHANGED <<registry, installed, ids, overlap, recreated>>
  <1>1. RestOK
    BY TypeParts
  <1>2. UNCHANGED <<registry, installed, ids, overlap, recreated>>
    BY LeftWork DEF CancelJobs, EnqueueApiJob, SessionMended, Crash, FireTrigger, AutoDrop, RetryJob, BecomesDue, Claim, Start, PerformAction,
           Complete, Rearm, Fail, Sweep, ReadRegistry, ScheduledAction, StepFails, background
  <1>3. crashed' \in BOOLEAN
    BY <1>1, LeftWork DEF CancelJobs, EnqueueApiJob, SessionMended, Crash, FireTrigger, AutoDrop, RetryJob, BecomesDue, Claim, Start, PerformAction,
           Complete, Rearm, Fail, Sweep, ReadRegistry, ScheduledAction, StepFails, background, RestOK
  <1>4. deleted' \subseteq Triggers
    BY <1>1, LeftWork DEF CancelJobs, EnqueueApiJob, SessionMended, Crash, FireTrigger, AutoDrop, RetryJob, BecomesDue, Claim, Start, PerformAction,
           Complete, Rearm, Fail, Sweep, ReadRegistry, ScheduledAction, StepFails, background, RestOK
  <1>5. api' \in ApiType /\ (api'.pc # "none" => api'.key \in Triggers)
    <2>1. CASE UNCHANGED api
      BY <1>1, <2>1 DEF RestOK
    <2>2. CASE CancelJobs
      BY <1>1, <2>2 DEF CancelJobs, RestOK, ApiType
    <2>3. CASE EnqueueApiJob
      BY <2>3 DEF EnqueueApiJob, ApiType, IdleApi
    <2> QED BY <2>1, <2>2, <2>3, LeftWork DEF SessionMended, Crash, FireTrigger, AutoDrop, RetryJob, BecomesDue, Claim, Start, PerformAction,
           Complete, Rearm, Fail, Sweep, ReadRegistry, ScheduledAction, StepFails
  <1>6. poisoned' \in Nat /\ unrecorded' \subseteq Nat
    <2>1. CASE UNCHANGED <<poisoned, unrecorded>>
      BY <1>1, <2>1 DEF RestOK
    <2>2. ASSUME NEW t \in Ticks, Start(t) PROVE poisoned' \in Nat /\ unrecorded' \subseteq Nat
      BY <1>1, <2>2 DEF Start, RestOK
    <2>3. CASE SessionMended
      BY <1>1, <2>3 DEF SessionMended, RestOK
    <2> QED BY <2>1, <2>2, <2>3, LeftWork DEF CancelJobs, EnqueueApiJob, Crash, FireTrigger, AutoDrop, RetryJob, BecomesDue,
           Claim, PerformAction, Complete, Rearm, Fail, Sweep, ReadRegistry, ScheduledAction, StepFails, background
  <1> QED BY <1>1, <1>2, <1>3, <1>4, <1>5, <1>6 DEF RestOK

\* The steps of a tick on the database trigger and its registry row.
LEMMA DdlRest ==
  ASSUME TypeOK, NEW t \in Ticks, \/ RedropTrigger(t) \/ CreateDbTrigger(t) \/ DropTrigger(t)
                                  \/ Activate(t) \/ RemoveRow(t)
  PROVE  RestOK'
  <1>1. RestOK
    BY TypeParts
  <1>2. tick[t].pc # "idle"
    BY DEF RedropTrigger, CreateDbTrigger, DropTrigger, Activate, RemoveRow, At
  <1>3. jobs[Copy(t).job].key \in Triggers
    BY <1>2, CopyFacts DEF JobRow
  <1>4. UNCHANGED <<api, ids, overlap, crashed, deleted, recreated, poisoned, unrecorded>>
    BY DEF RedropTrigger, CreateDbTrigger, DropTrigger, Activate, RemoveRow, background
  <1>5. installed' \subseteq Triggers
    BY <1>1, <1>3 DEF RedropTrigger, CreateDbTrigger, DropTrigger, Activate, RemoveRow, RestOK
  <1>6. registry' \in [Triggers -> RegistryRow]
    <2>1. CASE Activate(t)
      BY <2>1, RowsMarked DEF Activate, RegistryStatuses
    <2>2. CASE RemoveRow(t)
      BY <2>2, RowsRemoved DEF RemoveRow
    <2> QED BY <1>1, <2>1, <2>2 DEF RedropTrigger, CreateDbTrigger, DropTrigger, RestOK
  <1> QED BY <1>1, <1>4, <1>5, <1>6 DEF RestOK

\* What every step does to the queue and the ticks.
LEMMA QueueStep ==
  ASSUME TypeOK, Next
  PROVE  JobsKept /\ TicksOK'
  <1>1. ASSUME UNCHANGED <<jobs, tick>> PROVE JobsKept /\ TicksOK'
    BY <1>1, JobsRest, TicksRest
  <1>2. ASSUME NEW k \in Triggers, FireTrigger(k) \/ AutoDrop(k) PROVE JobsKept /\ TicksOK'
    <2>1. JobsKept
      BY <1>2, FiringEnqueues, JobAppended DEF Enqueues
    <2> QED BY <1>2, <2>1, TicksRest DEF FireTrigger, AutoDrop
  <1>3. ASSUME CancelJobs PROVE JobsKept /\ TicksOK'
    <2>1. JobsKept
      BY <1>3, JobsCancelled DEF CancelJobs
    <2> QED BY <1>3, <2>1, TicksRest DEF CancelJobs
  <1>4. ASSUME EnqueueApiJob PROVE JobsKept /\ TicksOK'
    <2>1. JobsKept
      BY <1>4, CallEnqueues, JobAppended, JobsRest DEF Enqueues
    <2> QED BY <1>4, <2>1, TicksRest DEF EnqueueApiJob
  <1>5. ASSUME NEW j \in Indices, RetryJob(j) \/ BecomesDue(j) PROVE JobsKept /\ TicksOK'
    BY <1>5, TimeEdits, TicksRest
  <1>6. ASSUME NEW t \in Ticks, Claim(t) PROVE JobsKept /\ TicksOK'
    BY <1>6, TickClaims, JobsRest DEF Claim
  <1>7. ASSUME NEW t \in Ticks, Work(t) \/ StepFails(t) \/ Leaves(t) PROVE JobsKept /\ TicksOK'
    BY <1>7, QuietWork, RunWork, EndWork, RemovalWork, LeftWork DEF Work, Edits
  <1>8. ASSUME Crash PROVE JobsKept /\ TicksOK'
    <2>1. JobsKept
      BY <1>8, JobsRest DEF Crash
    <2>2. IdleTick \in TickType /\ IdleTick.pc = "idle" /\ IdleTick.batch = <<>> /\ DOMAIN IdleTick.batch = {}
      BY DEF IdleTick, TickType, TickLabels
    <2>3. tick' = [t \in Ticks |-> IdleTick]
      BY <1>8 DEF Crash
    <2> QED BY <2>1, <2>2, <2>3 DEF TicksOK
  <1>9. CASE \/ MarkTrigger
             \/ \E k \in Triggers : \/ CreateTrigger(k) \/ ApplyManifest(k)
                                    \/ SelectTrigger(k, "delete") \/ SelectTrigger(k, "deploy")
    BY <1>1, <1>9, CallsRest
  <1>10. CASE SessionMended
    BY <1>1, <1>10 DEF SessionMended
  <1> QED BY <1>2, <1>3, <1>4, <1>5, <1>6, <1>7, <1>8, <1>9, <1>10 DEF Next, ApiStep

\* Every step keeps the types.
LEMMA TypeStep ==
  ASSUME TypeOK, [Next]_vars
  PROVE  TypeOK'
  <1>1. CASE UNCHANGED vars
    BY <1>1 DEF vars, TypeOK, Indices
  <1>2. CASE Next
    <2>1. jobs' \in Seq(JobRow) /\ TicksOK'
      BY <1>2, QueueStep DEF JobsKept
    <2>2. RestOK'
      BY <1>2, CallsRest, QueueRest, DdlRest DEF Next, ApiStep, Work
    <2> QED BY <2>1, <2>2 DEF TypeOK, RestOK, TicksOK
  <1> QED BY <1>1, <1>2

\* The first rows of the registry have different ids.
LEMMA FirstRows ==
  ASSUME Init
  PROVE  /\ registry \in [Triggers -> RegistryRow] /\ ids \in Nat
         /\ \A k \in Triggers : registry[k].id \in 1..ids
         /\ \A k, l \in Triggers : registry[k].id = registry[l].id => k = l
  <1>1. Cardinality(Triggers) \in Nat /\ ExistsBijection(1..Cardinality(Triggers), Triggers)
    BY FS_CardinalityType, TriggerJobsAssumption
  <1>2. ExistsBijection(Triggers, 1..Cardinality(Triggers))
    BY <1>1, Fun_ExistsBijSymmetric
  <1>3. PICK number \in Bijection(Triggers, 1..Cardinality(Triggers)) :
          registry = [k \in Triggers |-> [id |-> number[k], status |-> "ACTIVE"]]
    BY <1>2 DEF Init, ExistsBijection
  <1>4. /\ \A k \in Triggers : number[k] \in 1..Cardinality(Triggers)
        /\ \A k, l \in Triggers : number[k] = number[l] => k = l
    BY <1>3 DEF Bijection, Injection, Surjection, IsInjective
  <1>5. \A n \in Nat : [id |-> n, status |-> "ACTIVE"] \in RegistryRow /\ [id |-> n, status |-> "ACTIVE"].id = n
    BY DEF RegistryRow
  <1>6. \A k \in Triggers : number[k] \in Nat
    BY <1>1, <1>4
  <1>7. registry \in [Triggers -> RegistryRow] /\ \A k \in Triggers : registry[k].id = number[k]
    BY <1>3, <1>5, <1>6
  <1> QED BY <1>1, <1>4, <1>7 DEF Init

\* The first state has its shape.
LEMMA TypeInit ==
  ASSUME Init
  PROVE  TypeOK
  <1>1. registry \in [Triggers -> RegistryRow] /\ ids \in Nat
    BY FirstRows
  <1>2. api \in ApiType /\ api.pc = "none"
    BY DEF Init, IdleApi, ApiType
  <1>3. IdleTick \in TickType /\ IdleTick.pc = "idle" /\ IdleTick.batch = <<>> /\ DOMAIN IdleTick.batch = {}
    BY DEF IdleTick, TickType, TickLabels
  <1>4. TicksOK
    BY <1>3 DEF Init, TicksOK
  <1>5. RestOK
    BY <1>1, <1>2 DEF Init, RestOK
  <1>6. jobs \in Seq(JobRow)
    BY DEF Init
  <1> QED BY <1>4, <1>5, <1>6, TypeParts

\* Rows, jobs, ticks and calls always have their shape, and a tick at work has
\* a job in hand that exists: whatever calls, firings, ticks and failures do.
THEOREM TypesOK == Spec => []TypeOK
  <1>1. Init => TypeOK
    BY TypeInit
  <1>2. TypeOK /\ [Next]_vars => TypeOK'
    BY TypeStep
  <1> QED BY <1>1, <1>2, PTL DEF Spec

-----------------------------------------------------------------------------
(* No job is left RUNNING                                                    *)

\* Tick u works on job j.
Holds(u, j) == tick[u].pc \notin {"idle", "start"} /\ Head(tick[u].batch).job = j

\* Job j is accounted for.
Accounted(j) == InHand(j) \/ crashed \/ j \in unrecorded

\* A job that a tick works on stays so while that tick is untouched.
LEMMA StillHeld ==
  ASSUME NEW u \in Ticks, NEW j, Holds(u, j), tick'[u].batch = tick[u].batch,
         tick'[u].pc \notin {"idle", "start"}
  PROVE  Accounted(j)'
  BY DEF Holds, Accounted, InHand, Copy

\* Only the death of the engine, or a failure that could not be recorded,
\* leaves a job RUNNING.
LEMMA StrandStep ==
  ASSUME TypeOK, OnlyUnrecordedStrands, Next
  PROVE  OnlyUnrecordedStrands'
  <1> SUFFICES ASSUME NEW j \in Indices', jobs'[j].status = "RUNNING"
               PROVE  Accounted(j)'
    BY DEF OnlyUnrecordedStrands, Accounted
  <1>1. ASSUME j \in Indices, jobs[j].status = "RUNNING"
        PROVE  crashed \/ j \in unrecorded \/ \E u \in Ticks : Holds(u, j)
    BY <1>1 DEF OnlyUnrecordedStrands, InHand, Holds, Copy
  <1>2. ASSUME j \in Indices, jobs[j].status = "RUNNING", crashed => crashed', unrecorded \subseteq unrecorded',
               \A u \in Ticks : tick[u].pc \notin {"idle", "start"} =>
                   tick'[u].batch = tick[u].batch /\ tick'[u].pc \notin {"idle", "start"}
        PROVE  Accounted(j)'
    <2>1. CASE crashed \/ j \in unrecorded
      BY <1>2, <2>1 DEF Accounted
    <2>2. ASSUME NEW u \in Ticks, Holds(u, j) PROVE Accounted(j)'
      BY <1>2, <2>2, StillHeld DEF Holds
    <2> QED BY <1>1, <1>2, <2>1, <2>2
  <1>3. ASSUME UNCHANGED <<jobs, tick, crashed, unrecorded>> PROVE Accounted(j)'
    BY <1>2, <1>3 DEF Indices
  <1>4. ASSUME UNCHANGED <<tick, crashed, unrecorded>>, NEW r \in JobRow, Enqueues(r) PROVE Accounted(j)'
    <2>1. \A i \in Indices : jobs'[i] = jobs[i]
      BY <1>4, JobAppended DEF Enqueues
    <2>2. \A i \in Indices' \ Indices : jobs'[i] = r
      BY <1>4, JobAppended DEF Enqueues
    <2>3. j \in Indices
      BY <1>4, <2>2 DEF Enqueues
    <2> QED BY <1>2, <1>4, <2>1, <2>3
  <1>5. ASSUME NEW k \in Triggers, FireTrigger(k) \/ AutoDrop(k) PROVE Accounted(j)'
    BY <1>4, <1>5, FiringEnqueues DEF FireTrigger, AutoDrop
  <1>6. ASSUME CancelJobs PROVE Accounted(j)'
    <2>1. /\ Indices' = Indices
          /\ \A i \in Indices : jobs'[i].status \in {jobs[i].status, "CANCELLED"}
      BY <1>6, JobsCancelled DEF CancelJobs
    <2> QED BY <1>2, <1>6, <2>1 DEF CancelJobs, background
  <1>7. ASSUME EnqueueApiJob PROVE Accounted(j)'
    BY <1>3, <1>4, <1>7, CallEnqueues DEF EnqueueApiJob, background
  <1>8. ASSUME NEW i \in Indices, RetryJob(i) \/ BecomesDue(i) PROVE Accounted(j)'
    <2>1. /\ Indices' = Indices /\ UNCHANGED <<tick, crashed>>
          /\ \A n \in Indices : jobs'[n].status \in {jobs[n].status, "PENDING"}
      BY <1>8, TimeEdits
    <2>2. UNCHANGED unrecorded
      BY <1>8 DEF RetryJob, BecomesDue, background
    <2> QED BY <1>2, <2>1, <2>2
  <1>9. ASSUME NEW t \in Ticks, Claim(t) PROVE Accounted(j)'
    <2>1. Others(t) /\ tick[t].pc = "idle"
      BY <1>9, TickClaims
    <2>2. UNCHANGED <<jobs, crashed, unrecorded>>
      BY <1>9 DEF Claim, background
    <2> QED BY <1>2, <2>1, <2>2 DEF Others, Indices
  <1>10. ASSUME NEW t \in Ticks, \/ ReadRegistry(t) \/ RedropTrigger(t) \/ CreateDbTrigger(t) \/ Activate(t)
                                 \/ DropTrigger(t) \/ ScheduledAction(t) \/ StepFails(t)
         PROVE  Accounted(j)'
    <2>1. UNCHANGED <<jobs, crashed>> /\ Stays(t) /\ tick'[t].pc \notin {"idle", "start"}
      BY <1>10, QuietWork
    <2>2. UNCHANGED unrecorded
      BY <1>10 DEF ReadRegistry, RedropTrigger, CreateDbTrigger, Activate, DropTrigger, ScheduledAction, StepFails, background
    <2> QED BY <1>2, <2>1, <2>2 DEF Stays, Others, Indices
  <1>11. ASSUME NEW t \in Ticks, Sweep(t) \/ RemoveRow(t) PROVE Accounted(j)'
    <2>1. /\ UNCHANGED crashed /\ Stays(t) /\ Indices' = Indices /\ tick'[t].pc \notin {"idle", "start"}
          /\ \A i \in Indices : jobs'[i].status \in {jobs[i].status, "CANCELLED"}
      BY <1>11, RemovalWork
    <2>2. UNCHANGED unrecorded
      BY <1>11 DEF Sweep, RemoveRow, background
    <2> QED BY <1>2, <2>1, <2>2 DEF Stays, Others
  <1>12. ASSUME NEW t \in Ticks, Start(t) \/ PerformAction(t) PROVE Accounted(j)'
    <2>1. /\ UNCHANGED crashed /\ Stays(t) /\ Edits(t) /\ tick[t].pc # "idle"
          /\ tick'[t].pc \notin {"idle", "start"}
      BY <1>12, RunWork
    <2>2. CASE j = Copy(t).job
      BY <2>1, <2>2 DEF Stays, Accounted, InHand
    <2>3. CASE j # Copy(t).job
      <3>1. j \in Indices /\ jobs[j].status = "RUNNING"
        BY <2>1, <2>3 DEF Edits
      <3>2. CASE crashed \/ j \in unrecorded
        BY <1>12, <2>1, <2>3, <3>2 DEF Accounted, Start, PerformAction, background
      <3>3. ASSUME NEW u \in Ticks, Holds(u, j) PROVE Accounted(j)'
        BY <2>1, <3>3, StillHeld DEF Holds, Stays, Others
      <3> QED BY <1>1, <3>1, <3>2, <3>3
    <2> QED BY <2>2, <2>3
  <1>13. ASSUME NEW t \in Ticks, Complete(t) \/ Rearm(t) \/ Fail(t) \/ Leaves(t) PROVE Accounted(j)'
    <2>1. /\ UNCHANGED crashed /\ Edits(t) /\ NextJob(t) /\ tick[t].pc # "idle" /\ unrecorded \subseteq unrecorded'
          /\ jobs'[Copy(t).job].status # "RUNNING" \/ tick[t].pc = "start" \/ Copy(t).job \in unrecorded'
      BY <1>13, EndWork, LeftWork DEF Complete, Rearm, Fail, background
    <2>2. Others(t)
      BY <2>1, TickEnds DEF Edits
    <2>3. CASE j = Copy(t).job /\ j \in unrecorded'
      BY <2>3 DEF Accounted
    <2>4. CASE j # Copy(t).job \/ tick[t].pc = "start"
      <3>1. j \in Indices /\ (j # Copy(t).job => jobs[j].status = "RUNNING")
        BY <2>1 DEF Edits
      <3>2. jobs[j].status = "RUNNING"
        <4>1. CASE tick[t].pc = "start"
          <5>1. UNCHANGED jobs
            BY <1>13, <4>1, LeftWork DEF Complete, Rearm, Fail, At
          <5> QED BY <5>1
        <4> QED BY <2>4, <3>1, <4>1
      <3>3. CASE crashed \/ j \in unrecorded
        BY <2>1, <3>3 DEF Accounted
      <3>4. ASSUME NEW u \in Ticks, Holds(u, j) PROVE Accounted(j)'
        <4>1. u # t
          BY <2>4, <3>4 DEF Holds, Copy
        <4> QED BY <2>2, <3>4, <4>1, StillHeld DEF Holds, Others
      <3> QED BY <1>1, <3>1, <3>2, <3>3, <3>4
    <2> QED BY <2>1, <2>3, <2>4
  <1>14. ASSUME Crash PROVE Accounted(j)'
    BY <1>14 DEF Crash, Accounted
  <1>15. CASE \/ MarkTrigger
              \/ \E k \in Triggers : \/ CreateTrigger(k) \/ ApplyManifest(k)
                                     \/ SelectTrigger(k, "delete") \/ SelectTrigger(k, "deploy")
    BY <1>3, <1>15, CallsRest
  <1>16. CASE SessionMended
    BY <1>3, <1>16 DEF SessionMended
  <1> QED BY <1>5, <1>6, <1>7, <1>8, <1>9, <1>10, <1>11, <1>12, <1>13, <1>14, <1>15, <1>16 DEF Next, ApiStep, Work

\* A job is RUNNING only while a tick works on it, for any number of
\* overlapping ticks and of failures, in the catch block too: a RUNNING job that
\* the claim will never look at is left behind only by the death of the engine,
\* or by a failure whose record failed with it.
THEOREM RunningIsInHand == Spec => []OnlyUnrecordedStrands
  <1>1. Init => OnlyUnrecordedStrands
    BY DEF Init, OnlyUnrecordedStrands, Indices
  <1>2. TypeOK /\ OnlyUnrecordedStrands /\ [Next]_vars => OnlyUnrecordedStrands'
    <2>1. ASSUME OnlyUnrecordedStrands, UNCHANGED vars PROVE OnlyUnrecordedStrands'
      BY <2>1 DEF vars, OnlyUnrecordedStrands, InHand, Copy, Indices
    <2> QED BY <2>1, StrandStep
  <1> QED BY <1>1, <1>2, TypesOK, PTL DEF Spec

-----------------------------------------------------------------------------
(* What is COMPLETED was delivered                                           *)

\* A tick at the end of an action has delivered it.
Delivered ==
  \A t \in Ticks : (tick[t].pc = "complete" /\ jobs[Copy(t).job].type = "EXECUTE_TRIGGER_ACTION")
                   => jobs[Copy(t).job].done

\* A tick that is not touched keeps what it has delivered.
LEMMA StillDelivered ==
  ASSUME TypeOK, Delivered, JobsKept, NEW u \in Ticks, tick'[u] = tick[u], tick'[u].pc = "complete",
         jobs'[Copy(u)'.job].type = "EXECUTE_TRIGGER_ACTION"
  PROVE  jobs'[Copy(u)'.job].done
  <1>1. Copy(u)' = Copy(u)
    BY DEF Copy
  <1>2. tick[u].pc # "idle"
    OBVIOUS
  <1>3. Copy(u).job \in Indices
    BY <1>2, CopyFacts
  <1>4. SameJob(jobs'[Copy(u).job], jobs[Copy(u).job])
    BY <1>3 DEF JobsKept
  <1> QED BY <1>1, <1>4 DEF Delivered, SameJob

\* The steps behind which a job is COMPLETED are the delivery, for an action.
LEMMA DeliveredStep ==
  ASSUME TypeOK, Delivered, Next
  PROVE  Delivered'
  <1>1. JobsKept
    BY QueueStep
  <1> SUFFICES ASSUME NEW u \in Ticks, tick'[u].pc = "complete",
                      jobs'[Copy(u)'.job].type = "EXECUTE_TRIGGER_ACTION"
               PROVE  jobs'[Copy(u)'.job].done
    BY DEF Delivered
  <1> DEFINE Goal == jobs'[Copy(u)'.job].done
  <1>2. ASSUME tick'[u] = tick[u] PROVE Goal
    BY <1>1, <1>2, StillDelivered
  <1>3. ASSUME UNCHANGED tick PROVE Goal
    BY <1>2, <1>3
  <1>4. ASSUME NEW t \in Ticks, Claim(t) PROVE Goal
    BY <1>2, <1>4, TickClaims DEF Others
  <1>5. ASSUME NEW t \in Ticks, \/ ReadRegistry(t) \/ RedropTrigger(t) \/ CreateDbTrigger(t) \/ Activate(t)
                                \/ DropTrigger(t) \/ ScheduledAction(t) \/ StepFails(t)
        PROVE  Goal
    <2>1. Stays(t) /\ Goto(t, tick'[t].pc) /\ UNCHANGED jobs /\ tick[t].pc # "idle"
      BY <1>5, QuietWork
    <2>2. CASE u = t
      <3>1. Activate(t)
        <4>1. ASSUME NEW l, Goto(t, l) PROVE tick'[t].pc = l
          <5>1. tick[t] \in TickType /\ tick \in [Ticks -> TickType]
            BY DEF TypeOK
          <5> QED BY <4>1, <5>1 DEF Goto, TickType
        <4> QED BY <1>5, <2>2, <4>1 DEF ReadRegistry, RedropTrigger, CreateDbTrigger, DropTrigger, ScheduledAction, StepFails
      <3> QED BY <2>1, <2>2, <3>1 DEF Activate, At, Stays
    <2> QED BY <1>2, <2>1, <2>2 DEF Stays, Others
  <1>6. ASSUME NEW t \in Ticks, Sweep(t) \/ RemoveRow(t) PROVE Goal
    <2>1. Stays(t) /\ jobs[Copy(t).job].type \in Removals /\ tick[t].pc # "idle"
      BY <1>6, RemovalWork
    <2>2. CASE u = t
      <3>1. SameJob(jobs'[Copy(t).job], jobs[Copy(t).job])
        BY <1>1, <2>1, CopyFacts DEF JobsKept
      <3> QED BY <2>1, <2>2, <3>1 DEF Stays, SameJob, Removals
    <2> QED BY <1>2, <2>1, <2>2 DEF Stays, Others
  <1>7. ASSUME NEW t \in Ticks, Start(t) \/ PerformAction(t) PROVE Goal
    BY <1>2, <1>7, RunWork DEF Stays, Others
  <1>8. ASSUME NEW t \in Ticks, Complete(t) \/ Rearm(t) \/ Fail(t) \/ Leaves(t) PROVE Goal
    <2>1. NextJob(t) /\ tick[t].pc # "idle"
      BY <1>8, EndWork, LeftWork
    <2>2. tick'[t].pc \in {"idle", "start"} /\ Others(t)
      BY <1>1, <2>1, TickEnds
    <2> QED BY <1>2, <2>2 DEF Others
  <1>9. ASSUME Crash PROVE Goal
    BY <1>9 DEF Crash, IdleTick
  <1> QED BY <1>3, <1>4, <1>5, <1>6, <1>7, <1>8, <1>9
          DEF Next, ApiStep, Work, CreateTrigger, ApplyManifest, SelectTrigger, FireTrigger, AutoDrop, MarkTrigger,
              CancelJobs, EnqueueApiJob, RetryJob, BecomesDue, SessionMended

\* A row becomes COMPLETED behind the delivery, and no row loses it.
LEMMA PerformedStep ==
  ASSUME TypeOK, Delivered, CompletedWasPerformed, Next
  PROVE  CompletedWasPerformed'
  <1> SUFFICES ASSUME NEW j \in Indices', jobs'[j].type = "EXECUTE_TRIGGER_ACTION", jobs'[j].status = "COMPLETED"
               PROVE  jobs'[j].done
    BY DEF CompletedWasPerformed
  <1>1. JobsKept
    BY QueueStep
  <1>2. ASSUME j \in Indices, jobs[j].status = "COMPLETED" PROVE jobs'[j].done
    BY <1>1, <1>2 DEF JobsKept, SameJob, CompletedWasPerformed
  <1>3. ASSUME UNCHANGED jobs PROVE jobs'[j].done
    BY <1>2, <1>3 DEF Indices
  <1>4. ASSUME NEW r \in JobRow, Enqueues(r) PROVE jobs'[j].done
    <2>1. /\ \A i \in Indices : jobs'[i] = jobs[i]
          /\ \A i \in Indices' \ Indices : jobs'[i] = r
      BY <1>4, JobAppended DEF Enqueues
    <2> QED BY <1>2, <1>4, <2>1 DEF Enqueues
  <1>5. ASSUME NEW k \in Triggers, FireTrigger(k) \/ AutoDrop(k) PROVE jobs'[j].done
    BY <1>4, <1>5, FiringEnqueues
  <1>6. ASSUME CancelJobs PROVE jobs'[j].done
    <2>1. /\ Indices' = Indices
          /\ \A i \in Indices : jobs'[i].status \in {jobs[i].status, "CANCELLED"}
      BY <1>6, JobsCancelled DEF CancelJobs
    <2> QED BY <1>2, <2>1
  <1>7. ASSUME EnqueueApiJob PROVE jobs'[j].done
    BY <1>3, <1>4, <1>7, CallEnqueues
  <1>8. ASSUME NEW i \in Indices, RetryJob(i) \/ BecomesDue(i) PROVE jobs'[j].done
    <2>1. /\ Indices' = Indices
          /\ \A n \in Indices : jobs'[n].status \in {jobs[n].status, "PENDING"}
      BY <1>8, TimeEdits
    <2> QED BY <1>2, <2>1
  <1>9. ASSUME NEW t \in Ticks, Sweep(t) \/ RemoveRow(t) PROVE jobs'[j].done
    <2>1. /\ Indices' = Indices
          /\ \A i \in Indices : jobs'[i].status \in {jobs[i].status, "CANCELLED"}
      BY <1>9, RemovalWork
    <2> QED BY <1>2, <2>1
  <1>10. ASSUME NEW t \in Ticks, Start(t) \/ PerformAction(t) PROVE jobs'[j].done
    <2>1. /\ Edits(t)
          /\ Start(t) => jobs'[Copy(t).job].status = "RUNNING"
          /\ PerformAction(t) => jobs'[Copy(t).job].done
      BY <1>10, RunWork
    <2> QED BY <1>2, <1>10, <2>1 DEF Edits
  <1>11. ASSUME NEW t \in Ticks, Complete(t) \/ Rearm(t) \/ Fail(t) PROVE jobs'[j].done
    <2>1. /\ Edits(t) /\ jobs'[Copy(t).job].done = jobs[Copy(t).job].done /\ tick[t].pc # "idle"
          /\ jobs'[Copy(t).job].status = "COMPLETED" => tick[t].pc = "complete"
      BY <1>11, EndWork
    <2>2. CASE j = Copy(t).job
      <3>1. SameJob(jobs'[j], jobs[j])
        BY <1>1, <2>1, <2>2, CopyFacts DEF JobsKept
      <3> QED BY <2>1, <2>2, <3>1 DEF Delivered, SameJob
    <2> QED BY <1>2, <2>1, <2>2 DEF Edits
  <1> QED BY <1>3, <1>5, <1>6, <1>7, <1>8, <1>9, <1>10, <1>11, QuietWork, LeftWork
          DEF Next, ApiStep, Work, CreateTrigger, ApplyManifest, SelectTrigger, MarkTrigger, Claim, SessionMended, Crash

\* What the delivery needs.
ActionInv == TypeOK /\ Delivered /\ CompletedWasPerformed

\* An action recorded as COMPLETED was delivered, for any number of ticks that
\* overlap, of retries and of failures: the status is only written behind the
\* delivery, and the row's key and type never change.
THEOREM CompletedActionsHappened == Spec => []CompletedWasPerformed
  <1>1. Init => Delivered /\ CompletedWasPerformed
    BY DEF Init, Delivered, CompletedWasPerformed, Indices, IdleTick
  <1>2. ActionInv /\ [Next]_vars => ActionInv'
    <2>1. ASSUME ActionInv, UNCHANGED vars PROVE ActionInv'
      BY <2>1, TypeStep DEF vars, ActionInv, Delivered, CompletedWasPerformed, Copy, Indices
    <2>2. ASSUME ActionInv, Next PROVE ActionInv'
      BY <2>2, TypeStep, DeliveredStep, PerformedStep DEF ActionInv
    <2> QED BY <2>1, <2>2
  <1>3. Init => ActionInv
    BY <1>1, TypeInit DEF ActionInv
  <1>4. ActionInv => CompletedWasPerformed
    BY DEF ActionInv
  <1> QED BY <1>2, <1>3, <1>4, PTL DEF Spec

-----------------------------------------------------------------------------
(* No trigger the registry does not know                                     *)

\* One tick at a time, unless ticks outlast the poll interval.
Alone == overlap \/ \A t, u \in Ticks : (tick[t].pc # "idle" /\ tick[u].pc # "idle") => t = u

\* Registry ids are handed out once; 0 stands for no row.
Ids == /\ \A k \in Triggers : registry[k].id <= ids /\ (registry[k].id = 0 <=> registry[k] = NoRow)
       /\ \A k, l \in Triggers : (registry[k].id = registry[l].id /\ registry[k].id # 0) => k = l

\* A reference to a registry row is to the row of this trigger, if to any.
Names(id, key) == id <= ids /\ (id # 0 => \A k \in Triggers : registry[k].id = id => k = key)

\* Rows, copies and calls name the trigger they are about.
Named == /\ \A j \in Indices : Names(jobs[j].tid, jobs[j].key)
         /\ \A t \in Ticks : \A n \in DOMAIN tick[t].batch :
               Names(tick[t].batch[n].tid, jobs[tick[t].batch[n].job].key)
         /\ Names(api.id, api.key)

\* Only triggers whose deletion was requested are removed.
Deleting == /\ \A j \in Indices : jobs[j].type \in Removals => jobs[j].key \in deleted
            /\ api.op = "delete" => api.key \in deleted

\* A call refers to a row; a deployment has read one; a removal is one.
Phases == /\ api.pc # "none" => api.id # 0
          /\ \A t \in Ticks : /\ tick[t].pc \in {"redrop", "create", "activate"} => Copy(t).tid # 0
                              /\ tick[t].pc \in {"sweep", "remove"} => jobs[Copy(t).job].type \in Removals

Known(k) == registry[k] # NoRow \/ k \in recreated

\* What is installed, and what a tick is about to install, is known; what a
\* tick is about to forget is no longer installed.
Orphans ==
  overlap \/ /\ \A k \in installed : Known(k)
             /\ \A t \in Ticks : tick[t].pc \in {"redrop", "create"} => Known(jobs[Copy(t).job].key)
             /\ \A t \in Ticks : tick[t].pc \in {"sweep", "remove"} =>
                   jobs[Copy(t).job].key \notin installed \/ jobs[Copy(t).job].key \in recreated

\* References survive a change of the registry.
NamesNext(id, key) == id <= ids' /\ (id # 0 => \A k \in Triggers : registry'[k].id = id => k = key)
Renames == \A id \in Nat : \A key : Names(id, key) => NamesNext(id, key)

\* The upsert hands out a new id or keeps the old one.
LEMMA IdsUpserted ==
  ASSUME TypeOK, Ids, NEW k \in Triggers, Upsert(k)
  PROVE  /\ Ids' /\ Renames /\ registry'[k] # NoRow
         /\ \A l \in Triggers : Known(l) => Known(l)'
  <1>1. /\ ids \in Nat /\ \A l \in Triggers : registry[l].id \in Nat
        /\ ids' \in Nat /\ \A l \in Triggers : registry'[l].id \in Nat
    BY RowUpserted DEF TypeOK, RegistryRow
  <1>2. /\ \A l \in Triggers : l # k => registry'[l] = registry[l]
        /\ registry[k] = NoRow => ids' = ids + 1 /\ registry'[k].id = ids + 1
        /\ registry[k] # NoRow => ids' = ids /\ registry'[k].id = registry[k].id
        /\ registry'[k].status = "ACTIVE"
        /\ recreated' = recreated \cup ({k} \cap deleted)
    BY RowUpserted
  <1>3. registry'[k] # NoRow
    BY <1>2 DEF NoRow
  <1>4. registry'[k].id # 0
    BY <1>1, <1>2 DEF Ids
  <1>5. CASE registry[k] = NoRow
    <2>1. ids' = ids + 1 /\ registry'[k].id = ids + 1 /\ \A l \in Triggers : registry[l].id <= ids
      BY <1>2, <1>5 DEF Ids
    <2>2. Ids'
      BY <1>1, <1>2, <1>3, <1>4, <2>1 DEF Ids
    <2>3. Renames
      <3> SUFFICES ASSUME NEW id \in Nat, NEW key, Names(id, key) PROVE NamesNext(id, key)
        BY DEF Renames
      <3>1. id <= ids
        BY DEF Names
      <3>2. id <= ids' /\ id # registry'[k].id
        BY <1>1, <2>1, <3>1
      <3> QED BY <1>2, <3>2 DEF Names, NamesNext
    <2> QED BY <1>2, <1>3, <2>2, <2>3 DEF Known
  <1>6. CASE registry[k] # NoRow
    <2>1. ids' = ids /\ \A l \in Triggers : registry'[l].id = registry[l].id
      BY <1>2, <1>6
    <2>2. \A l \in Triggers : registry'[l] = NoRow <=> registry[l] = NoRow
      BY <1>2, <1>3, <1>6
    <2>3. Ids'
      BY <2>1, <2>2 DEF Ids
    <2>4. Renames
      BY <2>1 DEF Renames, Names, NamesNext
    <2> QED BY <1>2, <1>3, <2>3, <2>4 DEF Known
  <1> QED BY <1>5, <1>6

\* A new status leaves the row a row.
LEMMA IdsMarked ==
  ASSUME TypeOK, Ids, UNCHANGED <<ids, recreated>>, NEW x, x # 0, NEW s \in RegistryStatuses,
         registry' = [k \in Triggers |-> IF registry[k].id = x THEN [registry[k] EXCEPT !.status = s]
                                         ELSE registry[k]]
  PROVE  Ids' /\ Renames /\ \A l \in Triggers : Known(l) => Known(l)'
  <1>1. \A k \in Triggers : registry'[k].id = registry[k].id
    BY RowsMarked
  <1>2. \A k \in Triggers : registry'[k] = NoRow <=> registry[k] = NoRow
    <2> SUFFICES ASSUME NEW k \in Triggers PROVE registry'[k] = NoRow <=> registry[k] = NoRow
      OBVIOUS
    <2>1. CASE registry[k].id = x
      <3>1. registry[k] # NoRow /\ NoRow.id = 0
        BY <2>1 DEF Ids, NoRow
      <3> QED BY <1>1, <2>1, <3>1
    <2> QED BY <2>1
  <1>3. Ids'
    BY <1>1, <1>2 DEF Ids
  <1>4. Renames
    BY <1>1 DEF Renames, Names, NamesNext
  <1> QED BY <1>2, <1>3, <1>4 DEF Known

\* A removed row leaves its id unused.
LEMMA IdsRemoved ==
  ASSUME TypeOK, Ids, UNCHANGED ids, NEW x,
         registry' = [k \in Triggers |-> IF registry[k].id = x THEN NoRow ELSE registry[k]]
  PROVE  Ids' /\ Renames
  <1>1. /\ ids \in Nat /\ \A l \in Triggers : registry[l].id \in Nat
        /\ \A k \in Triggers : registry'[k] = IF registry[k].id = x THEN NoRow ELSE registry[k]
    BY RowsRemoved DEF TypeOK, RegistryRow
  <1>2. NoRow.id = 0
    BY DEF NoRow
  <1>3. \A k \in Triggers : /\ registry'[k].id \in {registry[k].id, 0}
                            /\ registry'[k].id # 0 => registry'[k] = registry[k]
    BY <1>1, <1>2
  <1>4. Ids'
    <2>1. \A k \in Triggers : registry'[k].id <= ids' /\ (registry'[k].id = 0 <=> registry'[k] = NoRow)
      <3> SUFFICES ASSUME NEW k \in Triggers
                   PROVE  registry'[k].id <= ids' /\ (registry'[k].id = 0 <=> registry'[k] = NoRow)
        OBVIOUS
      <3>1. CASE registry[k].id = x
        BY <1>1, <1>2, <3>1
      <3>2. CASE registry[k].id # x
        BY <1>1, <3>2 DEF Ids
      <3> QED BY <3>1, <3>2
    <2> QED BY <1>3, <2>1 DEF Ids
  <1>5. Renames
    <2> SUFFICES ASSUME NEW id \in Nat, NEW key, Names(id, key) PROVE NamesNext(id, key)
      BY DEF Renames
    <2> QED BY <1>3 DEF Names, NamesNext
  <1> QED BY <1>4, <1>5

\* The registry under every step.
LEMMA IdsStep ==
  ASSUME TypeOK, Ids, Phases, Next
  PROVE  Ids' /\ Renames
  <1>1. ASSUME UNCHANGED <<registry, ids>> PROVE Ids' /\ Renames
    BY <1>1 DEF Ids, Renames, Names, NamesNext
  <1>2. ASSUME NEW k \in Triggers, CreateTrigger(k) \/ ApplyManifest(k) PROVE Ids' /\ Renames
    BY <1>2, IdsUpserted DEF CreateTrigger, ApplyManifest
  <1>3. ASSUME MarkTrigger PROVE Ids' /\ Renames
    <2>1. PICK s \in RegistryStatuses :
            registry' = [k \in Triggers |-> IF registry[k].id = api.id THEN [registry[k] EXCEPT !.status = s]
                                            ELSE registry[k]]
      BY <1>3 DEF MarkTrigger, RegistryStatuses
    <2>2. api.id # 0 /\ UNCHANGED <<ids, recreated>>
      BY <1>3 DEF MarkTrigger, Phases, background
    <2> QED BY <2>1, <2>2, IdsMarked
  <1>4. ASSUME NEW t \in Ticks, Activate(t) PROVE Ids' /\ Renames
    <2>1. Copy(t).tid # 0 /\ UNCHANGED <<ids, recreated>> /\ "ACTIVE" \in RegistryStatuses
      BY <1>4 DEF Activate, At, Phases, background, RegistryStatuses
    <2> QED BY <1>4, <2>1, IdsMarked DEF Activate
  <1>5. ASSUME NEW t \in Ticks, RemoveRow(t) PROVE Ids' /\ Renames
    BY <1>5, IdsRemoved DEF RemoveRow
  <1>6. ASSUME NEW t \in Ticks, RedropTrigger(t) \/ CreateDbTrigger(t) \/ DropTrigger(t) PROVE Ids' /\ Renames
    BY <1>1, <1>6 DEF RedropTrigger, CreateDbTrigger, DropTrigger
  <1>7. ASSUME NEW k \in Triggers, SelectTrigger(k, "delete") \/ SelectTrigger(k, "deploy") PROVE Ids' /\ Renames
    BY <1>1, <1>7 DEF SelectTrigger
  <1>8. ASSUME UNCHANGED <<registry, installed, ids, overlap, recreated>> PROVE Ids' /\ Renames
    BY <1>1, <1>8
  <1> QED BY <1>2, <1>3, <1>4, <1>5, <1>6, <1>7, <1>8, QueueRest DEF Next, ApiStep, Work

\* Every row of the queue was there before and kept its reference or lost it,
\* or is new and refers to the row of its trigger; a removal is of a trigger
\* whose deletion was requested.
RowsRefer ==
  \A j \in Indices' :
    \/ j \in Indices /\ jobs'[j].tid \in {jobs[j].tid, 0}
    \/ /\ jobs'[j] \in JobRow /\ Names(jobs'[j].tid, jobs'[j].key)
       /\ jobs'[j].type \in Removals => jobs'[j].key \in deleted'

\* The queue under every step.
LEMMA RowsStep ==
  ASSUME TypeOK, Named, Deleting, Next
  PROVE  RowsRefer
  <1>1. ASSUME UNCHANGED jobs PROVE RowsRefer
    BY <1>1 DEF RowsRefer, Indices
  <1>2. ASSUME Indices' = Indices, \A i \in Indices : jobs'[i].tid \in {jobs[i].tid, 0} PROVE RowsRefer
    BY <1>2 DEF RowsRefer
  <1>3. ASSUME NEW r \in JobRow, Enqueues(r), Names(r.tid, r.key), r.type \in Removals => r.key \in deleted'
        PROVE  RowsRefer
    <2>1. /\ \A i \in Indices : jobs'[i] = jobs[i]
          /\ \A i \in Indices' \ Indices : jobs'[i] = r
      BY <1>3, JobAppended DEF Enqueues
    <2> QED BY <1>3, <2>1 DEF RowsRefer
  <1>4. ASSUME NEW k \in Triggers, FireTrigger(k) \/ AutoDrop(k) PROVE RowsRefer
    <2>1. PICK r \in JobRow : Enqueues(r) /\ r.tid = 0 /\ r.key = k /\ (r.type \in Removals => AutoDrop(k))
      BY <1>4, FiringEnqueues
    <2>2. Names(r.tid, r.key)
      BY <2>1 DEF Names, TypeOK
    <2>3. r.type \in Removals => r.key \in deleted'
      BY <2>1 DEF AutoDrop
    <2> QED BY <1>3, <2>1, <2>2, <2>3
  <1>5. ASSUME EnqueueApiJob PROVE RowsRefer
    <2>1. ASSUME NEW r \in JobRow, Enqueues(r), r.tid = api.id, r.key = api.key, r.type \in Removals => api.op = "delete"
          PROVE  RowsRefer
      BY <1>3, <1>5, <2>1 DEF Named, Deleting, EnqueueApiJob, background
    <2> QED BY <1>1, <1>5, <2>1, CallEnqueues
  <1>6. ASSUME CancelJobs PROVE RowsRefer
    BY <1>2, <1>6, JobsCancelled DEF CancelJobs
  <1>7. ASSUME NEW i \in Indices, RetryJob(i) \/ BecomesDue(i) PROVE RowsRefer
    BY <1>2, <1>7, TimeEdits
  <1>8. ASSUME NEW t \in Ticks, Sweep(t) \/ RemoveRow(t) PROVE RowsRefer
    BY <1>2, <1>8, RemovalWork
  <1>9. ASSUME NEW t \in Ticks, Edits(t) PROVE RowsRefer
    BY <1>2, <1>9 DEF Edits
  <1>10. ASSUME NEW t \in Ticks, Work(t) \/ StepFails(t) \/ Leaves(t) PROVE RowsRefer
    BY <1>1, <1>8, <1>9, <1>10, RunWork, EndWork, QuietWork, LeftWork DEF Work
  <1> QED BY <1>1, <1>4, <1>5, <1>6, <1>7, <1>10
          DEF Next, ApiStep, CreateTrigger, ApplyManifest, SelectTrigger, MarkTrigger, Claim, SessionMended, Crash

\* Every copy of a batch was there before or was made of a row.
CopiesRefer ==
  \A t \in Ticks : \A n \in DOMAIN tick'[t].batch :
    \/ \E m \in DOMAIN tick[t].batch : tick'[t].batch[n] = tick[t].batch[m]
    \/ \E j \in Indices : tick'[t].batch[n] = CopyOf(j)

\* The batches under every step, and who can begin one.
LEMMA CopiesStep ==
  ASSUME TypeOK, Next
  PROVE  /\ CopiesRefer
         /\ \A u \in Ticks : (tick[u].pc = "idle" /\ tick'[u].pc # "idle") => Claim(u)
  <1> DEFINE Begins == \A u \in Ticks : (tick[u].pc = "idle" /\ tick'[u].pc # "idle") => Claim(u)
  <1>1. ASSUME UNCHANGED tick PROVE CopiesRefer /\ Begins
    BY <1>1 DEF CopiesRefer
  <1>2. ASSUME NEW t \in Ticks, Claim(t) PROVE CopiesRefer /\ Begins
    BY <1>2, TickClaims DEF CopiesRefer, Others
  <1>3. ASSUME NEW t \in Ticks, Stays(t), tick[t].pc # "idle" PROVE CopiesRefer /\ Begins
    BY <1>3 DEF CopiesRefer, Stays, Others
  <1>4. ASSUME NEW t \in Ticks, Complete(t) \/ Rearm(t) \/ Fail(t) \/ Leaves(t) PROVE CopiesRefer /\ Begins
    <2>1. NextJob(t) /\ tick[t].pc # "idle" /\ JobsKept
      BY <1>4, EndWork, LeftWork DEF Edits
    <2>2. /\ Others(t)
          /\ \A n \in DOMAIN tick'[t].batch :
               n + 1 \in DOMAIN tick[t].batch /\ tick'[t].batch[n] = tick[t].batch[n + 1]
      BY <2>1, TickEnds
    <2> QED BY <2>1, <2>2 DEF CopiesRefer, Others
  <1>5. ASSUME Crash PROVE CopiesRefer /\ Begins
    <2>1. \A u \in Ticks : tick'[u].pc = "idle" /\ DOMAIN tick'[u].batch = {}
      BY <1>5 DEF Crash, IdleTick
    <2> QED BY <2>1 DEF CopiesRefer
  <1>6. ASSUME NEW t \in Ticks, Work(t) \/ StepFails(t) \/ Leaves(t) PROVE CopiesRefer /\ Begins
    BY <1>3, <1>4, <1>6, RunWork, QuietWork, RemovalWork DEF Work
  <1> QED BY <1>1, <1>2, <1>5, <1>6
          DEF Next, ApiStep, CreateTrigger, ApplyManifest, SelectTrigger, MarkTrigger, FireTrigger, AutoDrop,
              CancelJobs, EnqueueApiJob, RetryJob, BecomesDue, SessionMended

\* The call in progress under every step.
LEMMA CallStep ==
  ASSUME TypeOK, Ids, Named, Deleting, Phases, Next
  PROVE  /\ api'.id \in Nat /\ Names(api'.id, api'.key)
         /\ api'.op = "delete" => api'.key \in deleted'
         /\ api'.pc # "none" => api'.id # 0
         /\ deleted \subseteq deleted'
  <1>1. deleted \subseteq deleted'
    BY DEF Next, ApiStep, CreateTrigger, ApplyManifest, SelectTrigger, MarkTrigger, FireTrigger, AutoDrop,
           CancelJobs, EnqueueApiJob, RetryJob, BecomesDue, Claim, Work, Start, ReadRegistry, RedropTrigger,
           CreateDbTrigger, Activate, DropTrigger, Sweep, RemoveRow, PerformAction, ScheduledAction, Rearm,
           Complete, Fail, StepFails, Leaves, DdlFails, SessionLost, StartRefused, LeaveRow,
           SessionMended, Crash, background
  <1>2. ASSUME UNCHANGED api
        PROVE  /\ api'.id \in Nat /\ Names(api'.id, api'.key)
               /\ api'.op = "delete" => api'.key \in deleted'
               /\ api'.pc # "none" => api'.id # 0
    BY <1>1, <1>2 DEF TypeOK, ApiType, Named, Deleting, Phases
  <1>3. ASSUME NEW k \in Triggers, NEW op \in {"delete", "deploy"}, SelectTrigger(k, op)
        PROVE  /\ api'.id \in Nat /\ Names(api'.id, api'.key)
               /\ api'.op = "delete" => api'.key \in deleted'
               /\ api'.pc # "none" => api'.id # 0
    <2>1. /\ api'.op = op /\ api'.key = k /\ api'.id = registry[k].id /\ registry[k] # NoRow
          /\ op = "delete" => k \in deleted'
      BY <1>3 DEF SelectTrigger
    <2>2. registry[k].id # 0 /\ registry[k].id \in Nat
      BY <2>1 DEF Ids, TypeOK, RegistryRow
    <2>3. Names(registry[k].id, k)
      BY <2>2 DEF Ids, Names
    <2> QED BY <2>1, <2>2, <2>3
  <1>4. ASSUME MarkTrigger \/ CancelJobs
        PROVE  /\ api'.id \in Nat /\ Names(api'.id, api'.key)
               /\ api'.op = "delete" => api'.key \in deleted'
               /\ api'.pc # "none" => api'.id # 0
    <2>1. api'.id = api.id /\ api'.key = api.key /\ api'.op = api.op /\ api.pc # "none"
      BY <1>4 DEF MarkTrigger, CancelJobs, TypeOK, ApiType
    <2> QED BY <1>1, <2>1 DEF TypeOK, ApiType, Named, Deleting, Phases
  <1>5. ASSUME EnqueueApiJob
        PROVE  /\ api'.id \in Nat /\ Names(api'.id, api'.key)
               /\ api'.op = "delete" => api'.key \in deleted'
               /\ api'.pc # "none" => api'.id # 0
    <2>1. api'.id = 0 /\ api'.op = "none" /\ api'.pc = "none"
      BY <1>5 DEF EnqueueApiJob, IdleApi
    <2>2. Names(0, api'.key)
      BY DEF Names, TypeOK
    <2> QED BY <2>1, <2>2
  <1> QED BY <1>1, <1>2, <1>3, <1>4, <1>5
          DEF Next, ApiStep, CreateTrigger, ApplyManifest, FireTrigger, AutoDrop,
           RetryJob, BecomesDue, Claim, Work, Start, ReadRegistry, RedropTrigger,
           CreateDbTrigger, Activate, DropTrigger, Sweep, RemoveRow, PerformAction, ScheduledAction, Rearm,
           Complete, Fail, StepFails, Leaves, DdlFails, SessionLost, StartRefused, LeaveRow,
           SessionMended, Crash

\* References and requests under every step.
LEMMA NamedStep ==
  ASSUME TypeOK, Ids, Named, Deleting, Phases, Next
  PROVE  Named' /\ Deleting'
  <1>1. JobsKept /\ RowsRefer /\ CopiesRefer /\ Renames
    BY QueueStep, RowsStep, CopiesStep, IdsStep
  <1>2. \A j \in Indices : jobs[j] \in JobRow /\ jobs[j].tid \in Nat
    <2>1. \A j \in Indices : jobs[j] \in JobRow
      BY SeqIs DEF TypeOK, Indices
    <2> QED BY <2>1 DEF JobRow
  <1>3. \A j \in Indices' : jobs'[j] \in JobRow
    <2>1. jobs' \in Seq(JobRow)
      BY <1>1 DEF JobsKept
    <2> QED BY <2>1, SeqIs DEF Indices
  <1>4. \A key : Names(0, key)
    BY DEF Names, TypeOK
  <1>5. \A j \in Indices' : /\ Names(jobs'[j].tid, jobs'[j].key) /\ jobs'[j].tid \in Nat
                            /\ jobs'[j].type \in Removals => jobs'[j].key \in deleted'
    <2> SUFFICES ASSUME NEW j \in Indices'
                 PROVE  /\ Names(jobs'[j].tid, jobs'[j].key) /\ jobs'[j].tid \in Nat
                        /\ jobs'[j].type \in Removals => jobs'[j].key \in deleted'
      OBVIOUS
    <2>1. CASE j \in Indices /\ jobs'[j].tid \in {jobs[j].tid, 0}
      <3>1. jobs'[j].key = jobs[j].key /\ jobs'[j].type = jobs[j].type
        BY <1>1, <2>1 DEF JobsKept, SameJob
      <3> QED BY <1>2, <1>4, <2>1, <3>1, CallStep DEF Named, Deleting
    <2>2. CASE /\ jobs'[j] \in JobRow /\ Names(jobs'[j].tid, jobs'[j].key)
               /\ jobs'[j].type \in Removals => jobs'[j].key \in deleted'
      BY <2>2 DEF JobRow
    <2> QED BY <1>1, <2>1, <2>2 DEF RowsRefer
  <1>6. \A j \in Indices' : NamesNext(jobs'[j].tid, jobs'[j].key)
    BY <1>1, <1>5 DEF Renames
  <1>7. \A t \in Ticks : \A n \in DOMAIN tick'[t].batch :
          NamesNext(tick'[t].batch[n].tid, jobs'[tick'[t].batch[n].job].key)
    <2> SUFFICES ASSUME NEW t \in Ticks, NEW n \in DOMAIN tick'[t].batch
                 PROVE  NamesNext(tick'[t].batch[n].tid, jobs'[tick'[t].batch[n].job].key)
      OBVIOUS
    <2>1. PICK c : c = tick'[t].batch[n]
      OBVIOUS
    <2>2. CASE \E m \in DOMAIN tick[t].batch : c = tick[t].batch[m]
      <3>1. PICK m \in DOMAIN tick[t].batch : c = tick[t].batch[m]
        BY <2>2
      <3>2. c \in JobCopy /\ c.job \in Indices /\ Names(c.tid, jobs[c.job].key)
        <4>1. tick[t].batch \in Seq(JobCopy)
          BY DEF TypeOK, TickType
        <4>2. c \in JobCopy
          BY <3>1, <4>1, SeqIs
        <4> QED BY <3>1, <4>2 DEF TypeOK, Named
      <3>3. c.tid \in Nat
        BY <3>2 DEF JobCopy
      <3>4. jobs'[c.job].key = jobs[c.job].key
        BY <1>1, <3>2 DEF JobsKept, SameJob
      <3> QED BY <1>1, <2>1, <3>2, <3>3, <3>4 DEF Renames
    <2>3. CASE \E j \in Indices : c = CopyOf(j)
      <3>1. PICK j \in Indices : c = CopyOf(j)
        BY <2>3
      <3>2. c.job = j /\ c.tid = jobs[j].tid
        BY <3>1 DEF CopyOf
      <3>3. jobs'[j].key = jobs[j].key
        BY <1>1 DEF JobsKept, SameJob
      <3>4. Names(jobs[j].tid, jobs[j].key) /\ jobs[j].tid \in Nat
        BY <1>2 DEF Named
      <3> QED BY <1>1, <2>1, <3>2, <3>3, <3>4 DEF Renames
    <2> QED BY <1>1, <2>1, <2>2, <2>3 DEF CopiesRefer
  <1>8. NamesNext(api'.id, api'.key) /\ (api'.op = "delete" => api'.key \in deleted')
    BY <1>1, CallStep DEF Renames
  <1>9. Named'
    BY <1>6, <1>7, <1>8 DEF Named, Names, NamesNext
  <1>10. Deleting'
    BY <1>5, <1>8 DEF Deleting
  <1> QED BY <1>9, <1>10

\* One tick at a time, under every step.
LEMMA AloneStep ==
  ASSUME TypeOK, Alone, Next
  PROVE  Alone' /\ overlap' = overlap
  <1>1. overlap' = overlap
    BY DEF Next, ApiStep, CreateTrigger, ApplyManifest, SelectTrigger, MarkTrigger, FireTrigger, AutoDrop,
           CancelJobs, EnqueueApiJob, RetryJob, BecomesDue, Claim, Work, Start, ReadRegistry, RedropTrigger,
           CreateDbTrigger, Activate, DropTrigger, Sweep, RemoveRow, PerformAction, ScheduledAction, Rearm,
           Complete, Fail, StepFails, Leaves, DdlFails, SessionLost, StartRefused, LeaveRow,
           SessionMended, Crash, background
  <1>2. SUFFICES ASSUME ~overlap, NEW t \in Ticks, NEW u \in Ticks, tick'[t].pc # "idle", tick'[u].pc # "idle"
                 PROVE  t = u
    BY <1>1 DEF Alone
  <1>3. \A v \in Ticks : (tick[v].pc = "idle" /\ tick'[v].pc # "idle") => Claim(v)
    BY CopiesStep
  <1>4. ASSUME NEW v \in Ticks, NEW w \in Ticks, Claim(v), tick'[w].pc # "idle" PROVE v = w
    <2>1. tick[w].pc = "idle" /\ Others(v)
      BY <1>2, <1>4, TickClaims DEF Claim
    <2> QED BY <1>4, <2>1 DEF Others
  <1> QED BY <1>2, <1>3, <1>4 DEF Alone

\* A step that leaves the job of tick u in hand.
Continues(u) == tick'[u].batch = tick[u].batch /\ tick[u].pc # "idle"

\* A tick that goes on with its job knows the same trigger.
LEMMA SameInHand ==
  ASSUME TypeOK, JobsKept, NEW u \in Ticks, Continues(u)
  PROVE  /\ Copy(u)' = Copy(u) /\ Copy(u).job \in Indices
         /\ jobs'[Copy(u)'.job].key = jobs[Copy(u).job].key /\ jobs'[Copy(u)'.job].type = jobs[Copy(u).job].type
  <1>1. Copy(u)' = Copy(u)
    BY DEF Copy, Continues
  <1>2. Copy(u).job \in Indices
    BY CopyFacts DEF Continues
  <1> QED BY <1>1, <1>2 DEF JobsKept, SameJob

\* How a tick comes to one of the steps the invariant speaks of.
LEMMA PhaseMoves ==
  ASSUME TypeOK, Next, NEW u \in Ticks,
         tick'[u].pc \in {"redrop", "create", "activate", "sweep", "remove"}
  PROVE  /\ Continues(u)
         /\ \/ tick'[u].pc = tick[u].pc
            \/ tick'[u].pc = "redrop" /\ ReadRegistry(u) /\ Copy(u).tid # 0 /\ RowExists(Copy(u).tid)
            \/ tick'[u].pc = "create" /\ RedropTrigger(u) /\ tick[u].pc = "redrop"
            \/ tick'[u].pc = "activate" /\ CreateDbTrigger(u) /\ tick[u].pc = "create"
            \/ tick'[u].pc = "sweep" /\ DropTrigger(u)
            \/ tick'[u].pc = "remove" /\ Sweep(u) /\ tick[u].pc = "sweep"
  <1>1. JobsKept
    BY QueueStep
  <1>2. tick[u] \in TickType /\ tick \in [Ticks -> TickType]
    BY DEF TypeOK
  <1>3. ASSUME tick'[u] = tick[u] PROVE Continues(u) /\ tick'[u].pc = tick[u].pc
    BY <1>3 DEF Continues
  <1>4. ASSUME NEW l, Goto(u, l) PROVE tick'[u].pc = l
    BY <1>2, <1>4 DEF Goto, TickType
  <1>5. ASSUME NEW t \in Ticks, Claim(t) PROVE tick'[u] = tick[u]
    BY <1>5, TickClaims DEF Others
  <1>6. ASSUME NEW t \in Ticks, Complete(t) \/ Rearm(t) \/ Fail(t) \/ Leaves(t) PROVE tick'[u] = tick[u]
    BY <1>1, <1>6, EndWork, LeftWork, TickEnds DEF Others
  <1>7. ASSUME Crash PROVE FALSE
    BY <1>7 DEF Crash, IdleTick
  <1>8. ASSUME NEW t \in Ticks, Start(t) \/ PerformAction(t) PROVE tick'[u] = tick[u]
    BY <1>8, RunWork DEF Stays, Others
  <1>9. ASSUME NEW t \in Ticks, t # u,
               \/ ReadRegistry(t) \/ RedropTrigger(t) \/ CreateDbTrigger(t) \/ Activate(t) \/ DropTrigger(t)
               \/ ScheduledAction(t) \/ StepFails(t) \/ Sweep(t) \/ RemoveRow(t)
        PROVE  tick'[u] = tick[u]
    BY <1>9, QuietWork, RemovalWork DEF Stays, Others
  <1>10. ASSUME \/ ReadRegistry(u) \/ RedropTrigger(u) \/ CreateDbTrigger(u) \/ Activate(u) \/ DropTrigger(u)
                \/ ScheduledAction(u) \/ StepFails(u) \/ Sweep(u) \/ RemoveRow(u)
         PROVE  Continues(u)
    BY <1>10, QuietWork, RemovalWork DEF Stays, Continues
  <1>11. ASSUME ReadRegistry(u)
         PROVE  tick'[u].pc = "redrop" /\ Copy(u).tid # 0 /\ RowExists(Copy(u).tid)
    BY <1>4, <1>11 DEF ReadRegistry
  <1>12. ASSUME RedropTrigger(u) PROVE tick'[u].pc = "create" /\ tick[u].pc = "redrop"
    BY <1>4, <1>12 DEF RedropTrigger, At
  <1>13. ASSUME CreateDbTrigger(u) PROVE tick'[u].pc = "activate" /\ tick[u].pc = "create"
    BY <1>4, <1>13 DEF CreateDbTrigger, At
  <1>14. ASSUME DropTrigger(u) PROVE tick'[u].pc = "sweep"
    BY <1>4, <1>14 DEF DropTrigger
  <1>15. ASSUME Sweep(u) PROVE tick'[u].pc = "remove" /\ tick[u].pc = "sweep"
    BY <1>4, <1>15 DEF Sweep, At
  <1>16. ~Activate(u) /\ ~ScheduledAction(u) /\ ~StepFails(u) /\ ~RemoveRow(u)
    BY <1>4 DEF Activate, ScheduledAction, StepFails, RemoveRow
  <1>17. CASE tick'[u] = tick[u]
    BY <1>3, <1>17
  <1>18. CASE ReadRegistry(u) \/ RedropTrigger(u) \/ CreateDbTrigger(u) \/ DropTrigger(u) \/ Sweep(u)
    BY <1>10, <1>11, <1>12, <1>13, <1>14, <1>15, <1>18
  <1>19. tick'[u] = tick[u] \/ ReadRegistry(u) \/ RedropTrigger(u) \/ CreateDbTrigger(u) \/ DropTrigger(u) \/ Sweep(u)
    BY <1>5, <1>6, <1>7, <1>8, <1>9, <1>16
       DEF Next, ApiStep, Work, CreateTrigger, ApplyManifest, SelectTrigger, MarkTrigger, FireTrigger, AutoDrop,
           CancelJobs, EnqueueApiJob, RetryJob, BecomesDue, SessionMended
  <1> QED BY <1>17, <1>18, <1>19

\* Deployments and removals under every step.
LEMMA PhasesStep ==
  ASSUME TypeOK, Ids, Named, Deleting, Phases, Next
  PROVE  Phases'
  <1>1. JobsKept /\ (api'.pc # "none" => api'.id # 0)
    BY QueueStep, CallStep
  <1>2. ASSUME NEW u \in Ticks, tick'[u].pc \in {"redrop", "create", "activate"} PROVE Copy(u)'.tid # 0
    <2>1. Continues(u) /\ (tick[u].pc \in {"redrop", "create", "activate"} \/ Copy(u).tid # 0)
      BY <1>2, PhaseMoves
    <2>2. Copy(u)' = Copy(u)
      BY <1>1, <2>1, SameInHand
    <2> QED BY <2>1, <2>2 DEF Phases
  <1>3. ASSUME NEW u \in Ticks, tick'[u].pc \in {"sweep", "remove"} PROVE jobs'[Copy(u)'.job].type \in Removals
    <2>1. Continues(u) /\ (tick[u].pc \in {"sweep", "remove"} \/ DropTrigger(u))
      BY <1>3, PhaseMoves
    <2>2. jobs'[Copy(u)'.job].type = jobs[Copy(u).job].type
      BY <1>1, <2>1, SameInHand
    <2> QED BY <2>1, <2>2 DEF Phases, DropTrigger, At
  <1> QED BY <1>1, <1>2, <1>3 DEF Phases

\* A tick at work refers to the row of its trigger, if to any.
LEMMA CopyNamed ==
  ASSUME TypeOK, Named, NEW t \in Ticks, tick[t].pc # "idle"
  PROVE  Names(Copy(t).tid, jobs[Copy(t).job].key) /\ jobs[Copy(t).job].key \in Triggers
  <1>1. Copy(t) = tick[t].batch[1] /\ 1 \in DOMAIN tick[t].batch /\ jobs[Copy(t).job] \in JobRow
    BY CopyFacts
  <1> QED BY <1>1 DEF Named, JobRow

\* A trigger becomes unknown only by the removal of its own row.
LEMMA KnownStep ==
  ASSUME TypeOK, Ids, Named, Phases, Next, NEW k \in Triggers, Known(k)
  PROVE  /\ recreated \subseteq recreated'
         /\ registry'[k] # NoRow \/ k \in recreated' \/ \E t \in Ticks : RemoveRow(t) /\ jobs[Copy(t).job].key = k
  <1> DEFINE Goal == /\ recreated \subseteq recreated'
                     /\ \/ registry'[k] # NoRow \/ k \in recreated'
                        \/ \E t \in Ticks : RemoveRow(t) /\ jobs[Copy(t).job].key = k
  <1>1. ASSUME UNCHANGED <<registry, recreated>> PROVE Goal
    BY <1>1 DEF Known
  <1>2. ASSUME NEW l \in Triggers, CreateTrigger(l) \/ ApplyManifest(l) PROVE Goal
    <2>1. Upsert(l)
      BY <1>2 DEF CreateTrigger, ApplyManifest
    <2>2. recreated \subseteq recreated'
      BY <2>1 DEF Upsert
    <2> QED BY <2>1, <2>2, IdsUpserted DEF Known
  <1>3. ASSUME MarkTrigger PROVE Goal
    <2>1. PICK s \in RegistryStatuses :
            registry' = [m \in Triggers |-> IF registry[m].id = api.id THEN [registry[m] EXCEPT !.status = s]
                                            ELSE registry[m]]
      BY <1>3 DEF MarkTrigger, RegistryStatuses
    <2>2. api.id # 0 /\ UNCHANGED <<ids, recreated>>
      BY <1>3 DEF MarkTrigger, Phases, background
    <2>3. \A l \in Triggers : Known(l) => Known(l)'
      BY <2>1, <2>2, IdsMarked
    <2> QED BY <2>2, <2>3 DEF Known
  <1>4. ASSUME NEW t \in Ticks, Activate(t) PROVE Goal
    <2>1. Copy(t).tid # 0 /\ UNCHANGED <<ids, recreated>> /\ "ACTIVE" \in RegistryStatuses
      BY <1>4 DEF Activate, At, Phases, background, RegistryStatuses
    <2>2. \A l \in Triggers : Known(l) => Known(l)'
      BY <1>4, <2>1, IdsMarked DEF Activate
    <2> QED BY <2>1, <2>2 DEF Known
  <1>5. ASSUME NEW t \in Ticks, RemoveRow(t) PROVE Goal
    <2>1. tick[t].pc # "idle" /\ UNCHANGED recreated
      BY <1>5 DEF RemoveRow, At, background
    <2>2. registry'[k] = IF registry[k].id = Copy(t).tid THEN NoRow ELSE registry[k]
      BY <1>5 DEF RemoveRow
    <2>3. Names(Copy(t).tid, jobs[Copy(t).job].key)
      BY <2>1, CopyNamed
    <2>4. CASE registry[k] # NoRow /\ registry[k].id = Copy(t).tid
      <3>1. Copy(t).tid # 0
        BY <2>4 DEF Ids
      <3>2. jobs[Copy(t).job].key = k
        BY <2>3, <2>4, <3>1 DEF Names
      <3> QED BY <1>5, <2>1, <3>2
    <2> QED BY <2>1, <2>2, <2>4 DEF Known
  <1>6. ASSUME NEW t \in Ticks, RedropTrigger(t) \/ CreateDbTrigger(t) \/ DropTrigger(t) PROVE Goal
    BY <1>1, <1>6 DEF RedropTrigger, CreateDbTrigger, DropTrigger, background
  <1>7. ASSUME NEW l \in Triggers, SelectTrigger(l, "delete") \/ SelectTrigger(l, "deploy") PROVE Goal
    BY <1>1, <1>7 DEF SelectTrigger
  <1>8. ASSUME UNCHANGED <<registry, installed, ids, overlap, recreated>> PROVE Goal
    BY <1>1, <1>8
  <1> QED BY <1>2, <1>3, <1>4, <1>5, <1>6, <1>7, <1>8, QueueRest DEF Next, ApiStep, Work

\* A trigger is installed by a manifest or by a deployment.
LEMMA InstalledStep ==
  ASSUME TypeOK, Next, NEW k \in Triggers, k \in installed', k \notin installed
  PROVE  ApplyManifest(k) \/ \E t \in Ticks : CreateDbTrigger(t) /\ jobs[Copy(t).job].key = k
  BY QueueRest DEF Next, ApiStep, Work, CreateTrigger, ApplyManifest, SelectTrigger, MarkTrigger, RedropTrigger,
     CreateDbTrigger, DropTrigger, Activate, RemoveRow

\* What is installed stays known, under every step of a lone tick.
LEMMA OrphansStep ==
  ASSUME TypeOK, Alone, Ids, Named, Deleting, Phases, Orphans, Next
  PROVE  Orphans'
  <1>1. overlap' = overlap /\ JobsKept /\ installed' \subseteq Triggers
    BY AloneStep, QueueStep, TypeStep DEF TypeOK
  <1>2. SUFFICES ASSUME ~overlap
                 PROVE  /\ \A k \in installed' : registry'[k] # NoRow \/ k \in recreated'
                        /\ \A u \in Ticks : tick'[u].pc \in {"redrop", "create"} =>
                              registry'[jobs'[Copy(u)'.job].key] # NoRow \/ jobs'[Copy(u)'.job].key \in recreated'
                        /\ \A u \in Ticks : tick'[u].pc \in {"sweep", "remove"} =>
                              jobs'[Copy(u)'.job].key \notin installed' \/ jobs'[Copy(u)'.job].key \in recreated'
    BY <1>1 DEF Orphans, Known
  <1>3. \A t, u \in Ticks : (tick[t].pc # "idle" /\ tick[u].pc # "idle") => t = u
    BY <1>2 DEF Alone
  <1>4. ASSUME NEW k \in installed' PROVE registry'[k] # NoRow \/ k \in recreated'
    <2>1. k \in Triggers
      BY <1>1, <1>4
    <2>2. CASE k \in installed
      <3>1. Known(k)
        BY <1>2, <2>2 DEF Orphans
      <3>2. ASSUME NEW t \in Ticks, RemoveRow(t), jobs[Copy(t).job].key = k PROVE k \in recreated
        BY <1>2, <2>2, <3>2 DEF Orphans, RemoveRow, At
      <3> QED BY <2>1, <3>1, <3>2, KnownStep
    <2>3. CASE ApplyManifest(k)
      BY <2>1, <2>3, IdsUpserted DEF ApplyManifest
    <2>4. ASSUME NEW t \in Ticks, CreateDbTrigger(t), jobs[Copy(t).job].key = k
          PROVE  registry'[k] # NoRow \/ k \in recreated'
      BY <1>2, <2>4 DEF CreateDbTrigger, At, Orphans, Known, background
    <2> QED BY <1>4, <2>1, <2>2, <2>3, <2>4, InstalledStep
  <1>5. ASSUME NEW u \in Ticks, tick'[u].pc \in {"redrop", "create"}
        PROVE  registry'[jobs'[Copy(u)'.job].key] # NoRow \/ jobs'[Copy(u)'.job].key \in recreated'
    <2>1. Continues(u) /\ \/ tick[u].pc \in {"redrop", "create"}
                          \/ ReadRegistry(u) /\ Copy(u).tid # 0 /\ RowExists(Copy(u).tid)
      BY <1>5, PhaseMoves
    <2>2. PICK k \in Triggers : k = jobs[Copy(u).job].key
      BY <2>1, CopyNamed DEF Continues
    <2>3. jobs'[Copy(u)'.job].key = k
      BY <1>1, <2>1, <2>2, SameInHand
    <2>4. tick[u].pc # "remove" /\ tick[u].pc # "idle"
      BY <2>1 DEF Continues, ReadRegistry, At
    <2>5. Known(k)
      <3>1. CASE tick[u].pc \in {"redrop", "create"}
        BY <1>2, <2>2, <3>1 DEF Orphans
      <3>2. CASE ReadRegistry(u) /\ Copy(u).tid # 0 /\ RowExists(Copy(u).tid)
        <4>1. PICK l \in Triggers : registry[l].id = Copy(u).tid
          BY <3>2 DEF RowExists
        <4>2. Names(Copy(u).tid, k)
          BY <2>2, <2>4, CopyNamed
        <4>3. l = k /\ registry[k].id # 0
          BY <3>2, <4>1, <4>2 DEF Names
        <4> QED BY <4>3 DEF Ids, Known
      <3> QED BY <2>1, <3>1, <3>2
    <2>6. ASSUME NEW t \in Ticks, RemoveRow(t) PROVE FALSE
      <3>1. tick[t].pc = "remove"
        BY <2>6 DEF RemoveRow, At
      <3> QED BY <1>3, <2>4, <3>1
    <2> QED BY <2>3, <2>5, <2>6, KnownStep
  <1>6. ASSUME NEW u \in Ticks, tick'[u].pc \in {"sweep", "remove"}
        PROVE  jobs'[Copy(u)'.job].key \notin installed' \/ jobs'[Copy(u)'.job].key \in recreated'
    <2>1. Continues(u) /\ (tick[u].pc \in {"sweep", "remove"} \/ DropTrigger(u))
      BY <1>6, PhaseMoves
    <2>2. PICK k \in Triggers : k = jobs[Copy(u).job].key
      BY <2>1, CopyNamed DEF Continues
    <2>3. jobs'[Copy(u)'.job].key = k /\ Copy(u).job \in Indices
      BY <1>1, <2>1, <2>2, SameInHand
    <2>4. CASE DropTrigger(u)
      BY <2>2, <2>3, <2>4 DEF DropTrigger
    <2>5. CASE tick[u].pc \in {"sweep", "remove"} /\ k \in recreated
      <3>1. recreated \subseteq recreated'
        BY KnownStep, <2>5 DEF Known
      <3> QED BY <2>3, <2>5, <3>1
    <2>6. CASE tick[u].pc \in {"sweep", "remove"} /\ k \notin installed /\ k \in installed'
      <3>1. ASSUME NEW t \in Ticks, CreateDbTrigger(t) PROVE FALSE
        <4>1. tick[t].pc = "create"
          BY <3>1 DEF CreateDbTrigger, At
        <4> QED BY <1>3, <2>6, <4>1
      <3>2. ApplyManifest(k)
        BY <2>6, <3>1, InstalledStep
      <3>3. k \in deleted
        BY <2>2, <2>3, <2>6 DEF Phases, Deleting
      <3> QED BY <2>3, <3>2, <3>3 DEF ApplyManifest, Upsert
    <2>7. tick[u].pc \in {"sweep", "remove"} => k \notin installed \/ k \in recreated
      BY <1>2, <2>2 DEF Orphans
    <2> QED BY <2>1, <2>3, <2>4, <2>5, <2>6, <2>7
  <1> QED BY <1>4, <1>5, <1>6

\* The inductive invariant.
OrphanInv == TypeOK /\ Alone /\ Ids /\ Named /\ Deleting /\ Phases /\ Orphans

\* It holds of the first state ...
LEMMA OrphanInit ==
  ASSUME Init
  PROVE  OrphanInv
  <1>1. \A t \in Ticks : tick[t].pc = "idle" /\ DOMAIN tick[t].batch = {}
    BY DEF Init, IdleTick
  <1>2. /\ ids \in Nat /\ \A k \in Triggers : registry[k].id \in 1..ids
        /\ \A k, l \in Triggers : registry[k].id = registry[l].id => k = l
    BY FirstRows
  <1>3. NoRow.id = 0 /\ \A k \in Triggers : registry[k].id # 0 /\ registry[k].id <= ids
    BY <1>2 DEF NoRow
  <1>4. Ids
    BY <1>2, <1>3 DEF Ids
  <1>5. Indices = {} /\ api.id = 0 /\ api.op = "none" /\ api.pc = "none"
    BY DEF Init, Indices, IdleApi
  <1>6. Named
    BY <1>1, <1>2, <1>5 DEF Named, Names
  <1>7. Alone /\ Deleting /\ Phases
    BY <1>1, <1>5 DEF Alone, Deleting, Phases
  <1>8. Orphans
    <2>1. \A k \in installed : registry[k] # NoRow
      BY <1>3 DEF Init
    <2> QED BY <1>1, <2>1 DEF Orphans, Known
  <1> QED BY <1>4, <1>6, <1>7, <1>8, TypeInit DEF OrphanInv

\* ... and every step keeps it.
LEMMA OrphanStep ==
  ASSUME OrphanInv, [Next]_vars
  PROVE  OrphanInv'
  <1>1. CASE UNCHANGED vars
    <2>1. TypeOK'
      BY <1>1, TypeStep DEF OrphanInv
    <2>2. Alone' /\ Ids' /\ Deleting'
      BY <1>1 DEF vars, OrphanInv, Alone, Ids, Deleting, Indices
    <2>3. Named'
      BY <1>1 DEF vars, OrphanInv, Named, Names, Indices
    <2>4. Phases' /\ Orphans'
      BY <1>1 DEF vars, OrphanInv, Phases, Orphans, Known, Copy
    <2> QED BY <2>1, <2>2, <2>3, <2>4 DEF OrphanInv
  <1>2. CASE Next
    <2>1. TypeOK'
      BY <1>2, TypeStep DEF OrphanInv
    <2>2. Alone' /\ Ids'
      BY <1>2, AloneStep, IdsStep DEF OrphanInv
    <2>3. Named' /\ Deleting'
      BY <1>2, NamedStep DEF OrphanInv
    <2>4. Phases' /\ Orphans'
      BY <1>2, PhasesStep, OrphansStep DEF OrphanInv
    <2> QED BY <2>1, <2>2, <2>3, <2>4 DEF OrphanInv
  <1> QED BY <1>1, <1>2

\* While ticks do not overlap, every installed trigger is one the registry
\* knows or one that was created again while its deletion was under way: for
\* any number of triggers, calls, firings, failures and crashes.
THEOREM InstalledIsKnown == Spec => []NoOrphanTrigger
  <1>1. Init => OrphanInv
    BY OrphanInit
  <1>2. OrphanInv /\ [Next]_vars => OrphanInv'
    BY OrphanStep
  <1>3. OrphanInv => NoOrphanTrigger
    BY DEF OrphanInv, Orphans, Known, NoOrphanTrigger
  <1> QED BY <1>1, <1>2, <1>3, PTL DEF Spec
=============================================================================
