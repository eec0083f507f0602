----------------------------- MODULE PlanLimits ------------------------------
(* What a plan admits.  A limit on a kind of resource (connections, jobs,     *)
(* API tokens, users, saved analytics, triggers, tables, records): every      *)
(* creator counts, compares and inserts in separate statements.  The request  *)
(* rate of a tenant: fixed windows of several lengths, counted in each        *)
(* process's memory (the Redis client that checkRateLimit asks for is not     *)
(* exported by the cache module, so the fallback always counts).              *)
EXTENDS Integers, FiniteSets, FiniteSetsExt

CONSTANTS Creators,     \* requests that may be in flight at once
          PlanLimit,    \* the limit, -1 for none
          MaxResources  \* bound: resources, however they came to be

CONSTANTS Pods,      \* processes
          Windows,   \* window length in ticks |-> limit, shortest first
          MaxTick,   \* bound: the clock
          MaxBurst   \* bound: requests per tick and process

VARIABLES used,      \* resources that exist and were created under the limit
          exempt,    \* resources created by platform administrators
          creator    \* per request: "idle" or "admitted"

VARIABLES clock,     \* the clock
          store,     \* per process: window |-> [slot, count], the live counters
          burst,     \* per process: requests of this tick
          granted    \* history: the allowed requests, each with the counters it got

----------------------------------------------------------------------------
(* Counting before inserting                                                 *)

LimitInit == used = 0 /\ exempt = 0 /\ creator = [c \in Creators |-> "idle"]

Count == used + exempt

\* checkLimit and assertWithin: current < limit.
Within(n) == PlanLimit = -1 \/ n < PlanLimit

Admit(c) ==
    /\ creator[c] = "idle" /\ Within(Count)
    /\ creator' = [creator EXCEPT ![c] = "admitted"] /\ UNCHANGED <<used, exempt>>

Insert(c) ==
    /\ creator[c] = "admitted" /\ Count < MaxResources
    /\ used' = used + 1 /\ creator' = [creator EXCEPT ![c] = "idle"] /\ UNCHANGED exempt

\* The request fails after its check (a duplicate name, a lost connection).
GiveUp(c) ==
    /\ creator[c] = "admitted"
    /\ creator' = [creator EXCEPT ![c] = "idle"] /\ UNCHANGED <<used, exempt>>

\* An administrator's request skips the check.
AdminInsert == Count < MaxResources /\ exempt' = exempt + 1 /\ UNCHANGED <<used, creator>>

Remove == /\ \/ used > 0 /\ used' = used - 1 /\ UNCHANGED exempt
             \/ exempt > 0 /\ exempt' = exempt - 1 /\ UNCHANGED used
          /\ UNCHANGED creator

LimitNext == AdminInsert \/ Remove \/ \E c \in Creators : Admit(c) \/ Insert(c) \/ GiveUp(c)

\* The check is not atomic with the insert, so a limit can be passed, but only
\* by the other requests in flight: never by more than their number.
OvershootBounded == PlanLimit = -1 \/ used <= PlanLimit + Cardinality(Creators) - 1

----------------------------------------------------------------------------
(* The request rate                                                          *)

Lengths == DOMAIN Windows
Slot(w) == clock \div w
NoCounter == [slot |-> -1, count |-> 0]

RateInit == /\ clock = 0 /\ store = [p \in Pods |-> [w \in Lengths |-> NoCounter]]
            /\ burst = [p \in Pods |-> 0] /\ granted = {}

\* incrementInMemory: a new slot starts a new counter.
Increment(c, w) == IF c.slot = Slot(w) THEN [c EXCEPT !.count = @ + 1] ELSE [slot |-> Slot(w), count |-> 1]

\* The request that reaches the limit is refused already one too late.
ExceedsLate(c, w) == c.count > Windows[w] + 1

Exceeds(c, w) == c.count > Windows[w]

\* Windows are counted in turn; the first that is exceeded ends the request,
\* and the longer ones are not counted.
Request(p) ==
    /\ burst[p] < MaxBurst /\ burst' = [burst EXCEPT ![p] = @ + 1]
    /\ LET new(w) == Increment(store[p][w], w)
           refused == {w \in Lengths : Exceeds(new(w), w)}
           reached == IF refused = {} THEN Lengths ELSE {w \in Lengths : w <= Min(refused)}
       IN  /\ store' = [store EXCEPT ![p] = [w \in Lengths |-> IF w \in reached THEN new(w) ELSE store[p][w]]]
           /\ granted' = IF refused # {} THEN granted
                         ELSE granted \cup {[pod |-> p, tick |-> clock, count |-> [w \in Lengths |-> new(w).count]]}
    /\ UNCHANGED clock

Pass == /\ clock < MaxTick /\ clock' = clock + 1
        /\ burst' = [p \in Pods |-> 0] /\ UNCHANGED <<store, granted>>

RateNext == Pass \/ \E p \in Pods : Request(p)

\* The requests allowed by all processes in the w ticks that begin with s.
Allowed(s, w) == {g \in granted : g.tick \in s .. s + w - 1}

\* A window that starts on a boundary passes at most the limit per process;
\* any other stretch of that length at most twice as much.
RateBounded ==
    \A w \in Lengths, s \in 0 .. MaxTick :
        /\ Cardinality(Allowed(s, w)) <= 2 * Windows[w] * Cardinality(Pods)
        /\ s % w = 0 => Cardinality(Allowed(s, w)) <= Windows[w] * Cardinality(Pods)
=============================================================================
