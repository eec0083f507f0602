--------------------------- MODULE WorkspacePlans ----------------------------
(* The plan catalogue, what a workspace picks from it, and the requests that  *)
(* change both at once (systemRoutes, workspaceRoutes, subscriptionRoutes and *)
(* the older planRoutes).  A workspace names its plan; a subscription refers  *)
(* to the plan's row.                                                         *)
EXTENDS Integers, FiniteSetsExt

CONSTANTS Handlers,          \* requests that may be in flight at once
          MaxPlans,          \* bound: rows the catalogue may hold
          PlanNames,
          MaxHandled         \* bound: requests in one behaviour

VARIABLES plans,       \* per row: NoPlan or its columns; offered: active and not custom
          space,       \* the workspace: the name of its plan, whether its trial was used
          subscriber,  \* the row its owner subscribed to, or 0
          handler,     \* per request in flight: what it read and waits for
          handled,     \* requests so far
          trials,      \* switches of the workspace into a trial plan by its own admin
          met          \* pairs of requests that were in flight at once, and irregular writes

vars == <<plans, space, subscriber, handler, handled, trials, met>>

Plans == 1 .. MaxPlans
NoPlan == [name |-> "none"]   \* a row that was never used
Gone == [name |-> "gone"]     \* a deleted one
Idle == [kind |-> "idle"]
Builtin == "trial"
Existing == {i \in Plans : plans[i] \notin {NoPlan, Gone}}
Unused == {i \in Plans : plans[i] = NoPlan}
Named(name) == {i \in Existing : plans[i].name = name}

\* The seeded trial plan and, in some installations, a second one.
Seeded == [name |-> Builtin, default |-> TRUE, offered |-> TRUE, trial |-> TRUE]
Second == [name |-> "pro", default |-> FALSE, offered |-> TRUE, trial |-> TRUE]
Init == /\ plans \in {[i \in Plans |-> IF i = 1 THEN Seeded ELSE IF i = 2 THEN second ELSE NoPlan] :
                           second \in {NoPlan, Second}}
        /\ space = [plan |-> "none", trialUsed |-> FALSE] /\ subscriber = 0
        /\ handler = [a \in Handlers |-> Idle] /\ handled = 0 /\ trials = 0 /\ met = {}

----------------------------------------------------------------------------
(* Requests in flight                                                        *)

\* Overlaps that can leave the catalogue or the workspace inconsistent.
CatalogueOverlaps == {{"create"}, {"create", "update"}, {"update"}, {"update", "delete"}}
DeleteOverlaps == {{"delete", "select"}, {"delete", "assign"}}
ChoiceOverlaps == {{"select"}, {"select", "assign"}}
Delicate == CatalogueOverlaps \cup DeleteOverlaps \cup ChoiceOverlaps

Others(a) == {b \in Handlers \ {a} : handler[b] # Idle}

Begin(a, request) ==
    /\ handler[a] = Idle /\ handled < MaxHandled /\ handled' = handled + 1
    /\ handler' = [handler EXCEPT ![a] = request]
    /\ met' = met \cup ({{request.kind, handler[b].kind} : b \in Others(a)} \cap Delicate)

Goto(a, pc) == handler' = [handler EXCEPT ![a].pc = pc]

\* A request that ends releases the rows others wait for.
Release(a) == handler' = [b \in Handlers |->
    IF b = a THEN Idle
    ELSE IF handler[b].kind \in {"create", "update"} THEN [handler[b] EXCEPT !.after = @ \ {a}]
    ELSE handler[b]]
End(a) == Release(a) /\ UNCHANGED <<handled, met>>

\* The rows a transaction writes: those its UPDATE saw when it started, after
\* the transactions that hold one of them.
HoldsRow(b, rows) == handler[b].kind \in {"create", "update"} /\ handler[b].rows \cap rows # {}
Blockers(a, rows) == {b \in Others(a) : HoldsRow(b, rows)}
Unblocked(a) == handler[a].after = {}

----------------------------------------------------------------------------
(* The catalogue: /api/system/plans                                          *)

\* A row with the columns that a request gives.
Patched(patch, row) ==
    LET column(c, old) == IF c \in DOMAIN patch THEN patch[c] ELSE old
    IN  [name |-> column("name", row.name), default |-> column("default", row.default),
         offered |-> column("offered", row.offered), trial |-> row.trial]

ValidDefault(row) == row.default => row.offered

BeginCreate(a, row) ==
    /\ ValidDefault(row)
    /\ LET rows == IF row.default THEN Existing ELSE {}
       IN  Begin(a, [kind |-> "create", pc |-> "locked", row |-> row, rows |-> rows, after |-> Blockers(a, rows)])
    /\ UNCHANGED <<plans, space, subscriber, trials>>

\* The new row, and the default taken from the rows the UPDATE saw.  A name that
\* is taken, like a deadlock, rolls the transaction back.
CommitCreate(a) ==
    /\ handler[a].kind = "create" /\ Unblocked(a)
    /\ Unused # {} /\ Named(handler[a].row.name) = {}
    /\ plans' = [i \in Plans |-> IF i = Min(Unused) THEN handler[a].row
                                 ELSE IF i \in handler[a].rows \cap Existing THEN [plans[i] EXCEPT !.default = FALSE]
                                 ELSE plans[i]]
    /\ End(a) /\ UNCHANGED <<space, subscriber, trials>>

\* The row is read and the request validated against it before the transaction.
BeginUpdate(a, i, patch) ==
    /\ i \in Existing /\ ValidDefault(Patched(patch, plans[i]))
    /\ Begin(a, [kind |-> "update", pc |-> "checked", id |-> i, patch |-> patch, rows |-> {}, after |-> {}])
    /\ UNCHANGED <<plans, space, subscriber, trials>>

StartUpdate(a) ==
    /\ handler[a].kind = "update" /\ handler[a].pc = "checked"
    /\ LET rows == {handler[a].id} \cup (IF "default" \in DOMAIN handler[a].patch THEN Existing ELSE {})
       IN  handler' = [handler EXCEPT ![a] = [kind |-> "update", pc |-> "locked", id |-> @.id, patch |-> @.patch,
                                              rows |-> rows, after |-> Blockers(a, rows)]]
    /\ UNCHANGED <<plans, space, subscriber, handled, trials, met>>

\* The row with its changes; a new default is taken from the rows that were seen.
UpdatedRow(h, i) == IF i \notin Existing THEN plans[i]
                    ELSE IF i = h.id THEN Patched(h.patch, plans[i])
                    ELSE IF i \in h.rows THEN [plans[i] EXCEPT !.default = FALSE]
                    ELSE plans[i]

\* Workspaces that name the plan are not followed when it is renamed.
CommitUpdate(a) ==
    /\ handler[a].kind = "update" /\ handler[a].pc = "locked" /\ Unblocked(a)
    /\ "name" \in DOMAIN handler[a].patch => Named(handler[a].patch.name) \subseteq {handler[a].id}
    /\ plans' = [i \in Plans |-> UpdatedRow(handler[a], i)]
    /\ met' = met \cup {{"rename"} : n \in DOMAIN handler[a].patch \cap {"name"}}
    /\ Release(a) /\ UNCHANGED <<space, subscriber, handled, trials>>

RollBack(a) == /\ handler[a].kind \in {"create", "update"} /\ End(a)
               /\ UNCHANGED <<plans, space, subscriber, trials>>

BeginDelete(a, i) ==
    /\ i \in Existing /\ ~plans[i].default /\ plans[i].name # Builtin
    /\ Begin(a, [kind |-> "delete", pc |-> "read", id |-> i, name |-> plans[i].name])
    /\ UNCHANGED <<plans, space, subscriber, trials>>

CountUses(a) ==
    /\ handler[a].kind = "delete" /\ handler[a].pc = "read"
    /\ IF space.plan = handler[a].name \/ subscriber = handler[a].id THEN End(a)
       ELSE Goto(a, "unused") /\ UNCHANGED <<handled, met>>
    /\ UNCHANGED <<plans, space, subscriber, trials>>

\* The subscriptions of the row go with it (ON DELETE CASCADE).
DeletePlan(a) ==
    /\ handler[a].kind = "delete" /\ handler[a].pc = "unused" /\ Blockers(a, {handler[a].id}) = {}
    /\ plans' = [plans EXCEPT ![handler[a].id] = Gone]
    /\ subscriber' = IF subscriber = handler[a].id THEN 0 ELSE subscriber
    /\ End(a) /\ UNCHANGED <<space, trials>>

----------------------------------------------------------------------------
(* The older /api/plans: one unchecked statement per request                 *)

Irregular == /\ handled < MaxHandled /\ handled' = handled + 1 /\ met' = met \cup {{"older"}}
             /\ UNCHANGED <<space, handler, trials>>
Unlocked(i) == \A a \in Handlers : ~HoldsRow(a, {i})

OlderCreate(i, row) == /\ i = Min(Unused) /\ Named(row.name) = {} /\ plans' = [plans EXCEPT ![i] = row]
                       /\ Irregular /\ UNCHANGED subscriber
OlderUpdate(i, patch) == /\ i \in Existing /\ Unlocked(i)
                         /\ "name" \in DOMAIN patch => Named(patch.name) \subseteq {i}
                         /\ plans' = [plans EXCEPT ![i] = Patched(patch, @)] /\ Irregular /\ UNCHANGED subscriber
OlderDelete(i) == /\ i \in Existing /\ Unlocked(i) /\ plans' = [plans EXCEPT ![i] = Gone]
                  /\ subscriber' = (IF subscriber = i THEN 0 ELSE subscriber) /\ Irregular

----------------------------------------------------------------------------
(* The workspace: its own choice, the administrator's, its owner's           *)

\* PUT /api/workspace/plan reads the plan by name; only an administrator may
\* take one that is not offered.
BeginSelect(a, i, admin) ==
    /\ i \in Existing /\ (admin \/ plans[i].offered)
    /\ Begin(a, [kind |-> "select", pc |-> "read", name |-> plans[i].name, trial |-> plans[i].trial, admin |-> admin])
    /\ UNCHANGED <<plans, space, subscriber, trials>>

\* The trial of a workspace is used up by entering it.
TrialRefusedNever(h) == FALSE
TrialRefused(h) == ~h.admin /\ h.trial /\ space.trialUsed /\ space.plan # h.name

\* The check of the trial and of the usage (which may refuse any plan).
CheckSelect(a, fits) ==
    /\ handler[a].kind = "select" /\ handler[a].pc = "read"
    /\ IF TrialRefused(handler[a]) \/ (~fits /\ ~handler[a].admin) THEN End(a)
       ELSE Goto(a, "fits") /\ UNCHANGED <<handled, met>>
    /\ UNCHANGED <<plans, space, subscriber, trials>>

StoreSelect(a) ==
    /\ handler[a].kind = "select" /\ handler[a].pc = "fits"
    /\ space' = [plan |-> handler[a].name, trialUsed |-> space.trialUsed \/ handler[a].trial]
    /\ trials' = IF handler[a].trial /\ ~handler[a].admin /\ space.plan # handler[a].name THEN trials + 1 ELSE trials
    /\ End(a) /\ UNCHANGED <<plans, subscriber>>

\* PUT /api/system/workspaces/:id/plan
BeginAssign(a, i) == /\ i \in Existing /\ Begin(a, [kind |-> "assign", name |-> plans[i].name])
                     /\ UNCHANGED <<plans, space, subscriber, trials>>
StoreAssign(a) == /\ handler[a].kind = "assign" /\ space' = [space EXCEPT !.plan = handler[a].name]
                  /\ End(a) /\ UNCHANGED <<plans, subscriber, trials>>

\* POST /api/subscriptions/me: the row must still be there when it is referred to.
BeginSubscribe(a, i) == /\ i \in Existing /\ plans[i].offered /\ Begin(a, [kind |-> "subscribe", id |-> i])
                        /\ UNCHANGED <<plans, space, subscriber, trials>>
StoreSubscribe(a) == /\ handler[a].kind = "subscribe"
                     /\ subscriber' = IF handler[a].id \in Existing THEN handler[a].id ELSE subscriber
                     /\ End(a) /\ UNCHANGED <<plans, space, trials>>

Bodies == {row \in [name : PlanNames, default : BOOLEAN, offered : BOOLEAN, trial : BOOLEAN] :
            IF row.default THEN row.offered /\ ~row.trial ELSE row.offered = row.trial}
Patches == {[default |-> TRUE], [offered |-> TRUE], [offered |-> FALSE]} \cup {[name |-> n] : n \in PlanNames}

BeginRequest(a) ==
    /\ handler[a] = Idle /\ handled < MaxHandled
    /\ \/ \E row \in Bodies : BeginCreate(a, row)
       \/ \E i \in Existing : \/ BeginDelete(a, i) \/ BeginAssign(a, i) \/ BeginSubscribe(a, i)
                              \/ \E p \in Patches : BeginUpdate(a, i, p)
                              \/ \E admin \in BOOLEAN : BeginSelect(a, i, admin)
OlderRequest ==
    /\ handled < MaxHandled
    /\ \E i \in Plans : \/ Unused # {} /\ \E row \in Bodies : OlderCreate(i, row)
                        \/ \E p \in Patches : OlderUpdate(i, p)
                        \/ OlderDelete(i)

Next ==
    \/ \E a \in Handlers :
        \/ BeginRequest(a)
        \/ CommitCreate(a) \/ StartUpdate(a) \/ CommitUpdate(a) \/ RollBack(a) \/ CountUses(a) \/ DeletePlan(a)
        \/ (\E fits \in BOOLEAN : CheckSelect(a, fits)) \/ StoreSelect(a) \/ StoreAssign(a)
        \/ StoreSubscribe(a)
    \/ OlderRequest

Spec == Init /\ [][Next]_vars

----------------------------------------------------------------------------
(* What a workspace is granted: LimitsResolver.planRow                       *)

\* The plan the workspace names, its owner's subscription, the default, the builtin.
PlanRow == IF Named(space.plan) # {} THEN Named(space.plan)
           ELSE IF subscriber # 0 THEN {subscriber}
           ELSE IF \E i \in Existing : plans[i].default THEN {i \in Existing : plans[i].default}
           ELSE Named(Builtin)

----------------------------------------------------------------------------
(* Properties                                                                *)

Met(pairs) == met \cap pairs # {}

\* There is one default plan and it is offered, unless requests on the catalogue
\* overlapped or the older API wrote it: two creations or updates that do not see
\* each other's rows, an update of a row that is being deleted.
DefaultIsClear ==
    Met(CatalogueOverlaps \cup {{"older"}})
    \/ \E i \in Existing : plans[i].offered /\ {j \in Existing : plans[j].default} = {i}

\* A workspace that was given a plan keeps it, unless the plan was renamed, the
\* older API wrote it or its deletion overlapped the assignment.
PlanIsKept == Met(DeleteOverlaps \cup {{"rename"}, {"older"}})
              \/ space.plan = "none" \/ \E i \in PlanRow : plans[i].name = space.plan

\* A workspace takes itself into a trial once, unless two changes of its plan overlap.
TrialOnce == trials <= 1 \/ Met(ChoiceOverlaps)

PlansHold == DefaultIsClear /\ PlanIsKept /\ TrialOnce
=============================================================================
