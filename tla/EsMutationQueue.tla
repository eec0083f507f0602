--------------------------- MODULE EsMutationQueue ---------------------------
(* The search index of a hub table: every INSERT, UPDATE and DELETE of the    *)
(* hub queues a job, and polling ticks apply the jobs to the index.  Order    *)
(* matters per document, so one document is modelled: write n gives it its    *)
(* n-th state, which may be that it is deleted.                               *)
EXTENDS Integers, Sequences, FiniteSets

CONSTANTS Requests,        \* hub writes of the row
          EsTicks,         \* ticks that may be alive at once, in any process
          ClaimLimit,      \* jobs of one tick (20)
          EsMaxAttempts    \* es_mutation_jobs.max_attempts

VARIABLES hub,        \* writes committed so far
          request,    \* per request: [pc, n]
          jobs,       \* es_mutation_jobs by created_at
          tick,       \* per tick: copies of the claimed jobs, and the step of the first
          index,      \* the document: the write it shows
          unseen,     \* ghost: writes that the index was not given, without an error
          disturbed   \* ghost: a later write may have overtaken an earlier one

vars == <<hub, request, jobs, tick, index, unseen, disturbed>>

NoRequest == [pc |-> "new", n |-> 0]
IdleTick == [todo |-> << >>, pc |-> "mark"]

Init == /\ hub = 0 /\ request = [r \in Requests |-> NoRequest] /\ jobs = << >>
        /\ tick = [t \in EsTicks |-> IdleTick] /\ index = 0 /\ unseen = {} /\ disturbed = FALSE

----------------------------------------------------------------------------
(* Requests: the write commits, then the job is queued                       *)

HubWrite(r) ==
    /\ request[r] = NoRequest /\ hub' = hub + 1
    /\ request' = [request EXCEPT ![r] = [pc |-> "written", n |-> hub + 1]]
    /\ UNCHANGED <<jobs, tick, index, unseen, disturbed>>

Answered(r) == request' = [request EXCEPT ![r] = [pc |-> "done", n |-> request[r].n]]

BackedOff(i) == jobs[i].status = "PENDING" /\ ~jobs[i].due

EnqueueMutation(r) ==
    /\ request[r].pc = "written"
    /\ jobs' = Append(jobs, [n |-> request[r].n, status |-> "PENDING", attempts |-> 0, due |-> TRUE])
    /\ Answered(r)
    /\ disturbed' = (disturbed \/ \E i \in DOMAIN jobs : jobs[i].n > request[r].n \/ BackedOff(i))
    /\ UNCHANGED <<hub, tick, index, unseen>>

\* The process dies, or emitting the event fails, before the job is queued.
RequestDies(r) ==
    /\ request[r].pc = "written" /\ Answered(r)
    /\ unseen' = unseen \cup {request[r].n} /\ UNCHANGED <<hub, jobs, tick, index, disturbed>>

----------------------------------------------------------------------------
(* Ticks                                                                     *)

DueJobs == {i \in DOMAIN jobs : jobs[i].status = "PENDING" /\ jobs[i].due}

\* No ORDER BY: the newest job comes first.
ClaimOrderNewest(ids) == [p \in 1 .. Cardinality(ids) |-> CHOOSE i \in ids : Cardinality({j \in ids : j >= i}) = p]

\* ORDER BY created_at LIMIT 20: the p-th has p - 1 before it.
ClaimOrder(ids) == [p \in 1 .. Cardinality(ids) |-> CHOOSE i \in ids : Cardinality({j \in ids : j <= i}) = p]

\* The claim's transaction ends with the jobs still PENDING and unlocked.
Tick(t) ==
    /\ tick[t] = IdleTick /\ DueJobs # {}
    /\ LET ids == ClaimOrder(DueJobs)
           claimed == SubSeq(ids, 1, IF Len(ids) < ClaimLimit THEN Len(ids) ELSE ClaimLimit)
           todo == [i \in DOMAIN claimed |-> [id |-> claimed[i], attempts |-> jobs[claimed[i]].attempts]]
       IN  /\ tick' = [tick EXCEPT ![t] = [todo |-> todo, pc |-> "mark"]]
           /\ disturbed' = (disturbed \/ \E u \in EsTicks \ {t} : tick[u] # IdleTick)
    /\ UNCHANGED <<hub, request, jobs, index, unseen>>

Current(t) == Head(tick[t].todo)
At(t, pc) == tick' = [tick EXCEPT ![t] = [todo |-> tick[t].todo, pc |-> pc]]
NextJob(t) == tick' = [tick EXCEPT ![t] = [todo |-> Tail(tick[t].todo), pc |-> "mark"]]
Becomes(i, status) == jobs' = [jobs EXCEPT ![i] = [jobs[i] EXCEPT !.status = status]]

MarkRunning(t) ==
    /\ tick[t] # IdleTick /\ tick[t].pc = "mark"
    /\ Becomes(Current(t).id, "RUNNING") /\ At(t, "apply")
    /\ UNCHANGED <<hub, request, index, unseen, disturbed>>

ApplyMutation(t) ==
    /\ tick[t].pc = "apply"
    /\ index' = jobs[Current(t).id].n
    /\ unseen' = unseen \ {index'}
    /\ At(t, "finish")
    /\ UNCHANGED <<hub, request, jobs, disturbed>>

\* Errors of a DELETE are swallowed, and the errors of single items, which a
\* _bulk request answers with status 200, are not read.
ErrorUnread(t) ==
    /\ tick[t].pc = "apply"
    /\ At(t, "finish") /\ unseen' = unseen \cup {jobs[Current(t).id].n}
    /\ UNCHANGED <<hub, request, jobs, index, disturbed>>

Complete(t) ==
    /\ tick[t].pc = "finish"
    /\ Becomes(Current(t).id, "COMPLETED") /\ NextJob(t)
    /\ UNCHANGED <<hub, request, index, unseen, disturbed>>

Deferred(job, attempts) ==
    [job EXCEPT !.status = IF attempts >= EsMaxAttempts THEN "FAILED" ELSE "PENDING",
                !.attempts = attempts, !.due = FALSE]

\* No connector, whatever the action; or the bulk request or an UPDATE fails or
\* times out, applied or not: the job is put back for 20 seconds, counting from
\* the claimed copy, and another that is waiting goes first.
Defer(t) ==
    /\ tick[t].pc \in {"apply", "finish"}
    /\ jobs' = [jobs EXCEPT ![Current(t).id] = Deferred(@, Current(t).attempts + 1)]
    /\ NextJob(t)
    /\ disturbed' = \/ disturbed \/ Current(t).attempts + 1 >= EsMaxAttempts
                     \/ \E i \in DOMAIN jobs \ {Current(t).id} : jobs[i].status = "PENDING"
    /\ UNCHANGED <<hub, request, index, unseen>>

BackoffEnds(i) ==
    /\ BackedOff(i)
    /\ jobs' = [jobs EXCEPT ![i].due = TRUE]
    /\ UNCHANGED <<hub, request, tick, index, unseen, disturbed>>

\* The process dies: a job it was applying stays RUNNING for ever.
TickDies(t) ==
    /\ tick[t] # IdleTick /\ tick' = [tick EXCEPT ![t] = IdleTick]
    /\ disturbed' = (disturbed \/ tick[t].pc # "mark")
    /\ UNCHANGED <<hub, request, jobs, index, unseen>>

TickStep(t) ==
    \/ Tick(t) \/ MarkRunning(t) \/ ApplyMutation(t) \/ ErrorUnread(t) \/ Complete(t) \/ Defer(t) \/ TickDies(t)

Next == \/ \E r \in Requests : HubWrite(r) \/ EnqueueMutation(r) \/ RequestDies(r)
        \/ \E t \in EsTicks : TickStep(t)
        \/ \E i \in DOMAIN jobs : BackoffEnds(i)

Spec == Init /\ [][Next]_vars

----------------------------------------------------------------------------
(* Properties                                                                *)

\* When every job is COMPLETED the index shows the hub's last write: also after
\* a job was put back and tried again, a process died between jobs, or an earlier
\* write never reached the index.  It does not if the last write itself was lost
\* without an error (its job was never queued, or an error of the index was not
\* read), or if jobs could overtake each other: ticks overlapped, a job was put
\* back while another waited, or two requests queued theirs against the order of
\* their writes.  None of these is put right later.
IndexFollowsHub ==
    \/ disturbed \/ hub \in unseen
    \/ \E r \in Requests : request[r].pc = "written"
    \/ \E i \in DOMAIN jobs : jobs[i].status # "COMPLETED"
    \/ index = hub
=============================================================================
