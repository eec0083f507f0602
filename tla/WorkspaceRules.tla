---------------------------- MODULE WorkspaceRules ---------------------------
(* What a workspace may use and what it may change: plans, overrides and the   *)
(* licence, settings, subscriptions, its page, and what startup makes sure of. *)
EXTENDS AccessRules

----------------------------------------------------------------------------
(* What a workspace may use: plans, overrides and the licence.               *)

CapLimit(value, ceiling) ==
    IF ceiling \in {Absent, Unlimited} THEN value ELSE IF value = Unlimited THEN ceiling ELSE Minimum({value, ceiling})

\* The plans by name, each with a limit, a feature ("no" refuses it), the days
\* of its trial and whether it is marked as the default; the built-in trial
\* stands in for a missing catalogue.  A subscription's snapshot may hold the
\* limits and the features the plan had when it was taken.
BuiltinLimit == 2
BuiltinTrial == [limit |-> BuiltinLimit, feature |-> "unset", days |-> 7, isDefault |-> FALSE]
Snapshot(row, snapshot) ==
    [limit |-> IF snapshot.limits = <<>> THEN row.limit ELSE snapshot.limits[1],
     feature |-> IF snapshot.features = <<>> THEN row.feature ELSE snapshot.features[1].feature,
     days |-> IF snapshot.features = <<>> THEN row.days ELSE snapshot.features[1].days, isDefault |-> row.isDefault]
DefaultPlan(plans, sys) ==
    LET marked == {n \in DOMAIN plans : plans[n].isDefault}
    IN  CASE sys.defaultPlan # "none" -> sys.defaultPlan [] marked # {} -> CHOOSE n \in marked : TRUE [] OTHER -> "trial"
PlanRow(tenant, plans, sys) ==
    CASE tenant.plan \in DOMAIN plans -> [row |-> plans[tenant.plan], source |-> "workspace", start |-> tenant.startedAt]
      [] tenant.sub \in DOMAIN plans ->
            [row |-> Snapshot(plans[tenant.sub], tenant.snapshot), source |-> "subscription", start |-> tenant.subStart]
      [] DefaultPlan(plans, sys) \in DOMAIN plans -> [row |-> plans[DefaultPlan(plans, sys)], source |-> "default", start |-> Absent]
      [] OTHER -> [row |-> BuiltinTrial, source |-> "builtin", start |-> Absent]

\* compute: the plan, or the licence of a self-hosted system; the workspace's
\* overrides; the licence's ceiling over all of it.
SelfHosted(lic) == lic.valid /\ lic.selfHosted
EffectiveLimit(plan, tenant, lic, sys) ==
    LET base == IF SelfHosted(lic) THEN Or(lic.limit, Unlimited)
                ELSE IF sys.planLimitsEnabled THEN Or(plan.row.limit, BuiltinLimit) ELSE Unlimited
        own == IF sys.planLimitsEnabled \/ SelfHosted(lic) THEN Or(tenant.override, base) ELSE base
    IN  IF lic.valid THEN CapLimit(own, lic.limit) ELSE own
EffectiveFeature(plan, lic) ==
    IF lic.valid /\ lic.feature # "unset" /\ plan.row.feature # "no" THEN lic.feature ELSE plan.row.feature
TrialDays(plan, lic) == Or(IF lic.valid /\ lic.days # Absent THEN lic.days ELSE plan.row.days, 7)
EndsAt(plan, tenant, lic, now) ==
    IF tenant.expiresAt # Absent THEN tenant.expiresAt
    ELSE IF TrialDays(plan, lic) = Unlimited THEN Absent
    ELSE Or(Or(Or(tenant.startedAt, plan.start), tenant.createdAt), now) + TrialDays(plan, lic)
NoExpiry(plan, tenant, lic, sys) ==
    \/ SelfHosted(lic) \/ ~ sys.planLimitsEnabled
    \/ plan.source \in {"workspace", "subscription"} /\ tenant.expiresAt = Absent /\ TrialDays(plan, lic) = Unlimited
Compute(tenant, plans, lic, sys, now) ==
    LET plan == PlanRow(tenant, plans, sys)
        endsAt == IF NoExpiry(plan, tenant, lic, sys) THEN Absent ELSE EndsAt(plan, tenant, lic, now)
    IN  [limit |-> EffectiveLimit(plan, tenant, lic, sys), feature |-> EffectiveFeature(plan, lic),
         source |-> IF SelfHosted(lic) THEN "licence" ELSE plan.source,
         endsAt |-> endsAt, expired |-> endsAt # Absent /\ now > endsAt]

AssertWithin(eff, current) == IF Within(eff.limit, current) THEN "ok" ELSE "PLAN_LIMIT_REACHED"
AssertLicenceWithin(lic, current) == IF lic.valid /\ ~ Within(lic.limit, current) THEN "LICENSE_LIMIT_REACHED" ELSE "ok"
CheckLimit(eff, current) == Within(eff.limit, current)
AssertFeature(eff) == IF eff.feature = "no" THEN "FEATURE_DISABLED" ELSE "ok"
AssertLicenceFeature(lic) == IF lic.valid /\ lic.feature = "no" THEN "FEATURE_DISABLED" ELSE "ok"

\* extend, of the workspace's row if there is one: a date, or a number of days
\* that count from the end there is, or from now.
MaxExtension == 3650
ExtendPlan(row, eff, request, now) ==
    LET base == Or(row[1].expiresAt, Or(eff.endsAt, now))
        until == CASE request.until # Absent -> request.until
                   [] request.days \in 1 .. MaxExtension -> (IF base > now THEN base ELSE now) + request.days
                   [] OTHER -> Absent
    IN  CASE row = <<>> -> [code |-> "WORKSPACE_NOT_FOUND", row |-> row]
          [] request.malformed \/ until = Absent \/ until <= now -> [code |-> "INVALID_EXTENSION", row |-> row]
          [] OTHER -> [code |-> "ok", row |-> <<[row[1] EXCEPT !.expiresAt = until]>>]

\* GET /subscriptions/me reckons the trial of the subscription by itself.
MyTrialExpired(plan, start, now) == plan.days \notin {Absent, Unlimited} /\ now - start > plan.days

\* What is in force is never above a valid licence, an override gives way to it
\* alone, a refused feature stays refused, and an extension extends.
LimitsHold(tenant, plans, lic, sys, now) ==
    LET eff == Compute(tenant, plans, lic, sys, now)
        extended(until, days) == ExtendPlan(<<tenant>>, eff, [malformed |-> FALSE, until |-> until, days |-> days], now)
    IN  /\ lic.valid /\ lic.limit \notin {Absent, Unlimited} => eff.limit # Unlimited /\ eff.limit <= lic.limit
        /\ \A n \in 0 .. 3 : AssertWithin(eff, n) = "ok" =>
              AssertLicenceWithin(lic, n) = "ok" /\ CheckLimit(eff, n) /\ (n > 0 => CheckLimit(eff, n - 1))
        /\ tenant.override # Absent /\ (sys.planLimitsEnabled \/ SelfHosted(lic)) =>
              eff.limit = CapLimit(tenant.override, IF lic.valid THEN lic.limit ELSE Absent)
        /\ AssertFeature(eff) # "ok" <=> AssertLicenceFeature(lic) # "ok" \/ PlanRow(tenant, plans, sys).row.feature = "no"
        /\ SelfHosted(lic) => /\ eff.limit = Compute(tenant, <<>>, lic, sys, now).limit
                              /\ ~ eff.expired
        /\ \A days \in {0, 1, 5}, until \in {Absent, now, now + 2} :
              LET later == extended(until, days)
                  at(t) == Compute(later.row[1], plans, lic, sys, t)
              IN  IF later.code # "ok" THEN later.row = <<tenant>> /\ (until = now \/ (until = Absent /\ days = 0))
                  ELSE /\ \A t \in now .. now + 5 : t <= (IF until = Absent THEN now + days ELSE until) => ~ at(t).expired
                       /\ until = Absent /\ eff.endsAt # Absent =>
                            \A t \in now .. now + 5 : at(t).expired => Compute(tenant, plans, lic, sys, t).expired
        /\ /\ eff.source = "subscription" /\ sys.planLimitsEnabled /\ tenant.startedAt = Absent /\ tenant.expiresAt = Absent
           /\ tenant.snapshot.features = <<>> /\ plans[tenant.sub].days # Absent /\ ~ (lic.valid /\ lic.days # Absent)
           => eff.expired = MyTrialExpired(plans[tenant.sub], tenant.subStart, now)

\* canCreateTenant.  sys.perUser and the limits of licence and plan may be -1.
CanCreateTenant(sys, lic, plan, owned, total) ==
    /\ sys.allowCreation
    /\ Within(sys.perUser, owned)
    /\ lic.valid => Within(lic.limit, total)
    /\ SelfHosted(lic) \/ Within(plan, owned)
\* A user creates workspaces up to the smallest of the limits in force.
CreationHolds(sys, lic, plan, others) ==
    LET inForce == ({sys.perUser} \cup (IF lic.valid /\ lic.limit >= 0 THEN {IF lic.limit > others THEN lic.limit - others ELSE 0} ELSE {})
                    \cup (IF SelfHosted(lic) THEN {} ELSE {plan})) \ {Absent, Unlimited}
        admitted == {n \in 0 .. 4 : CanCreateTenant(sys, lic, plan, n, n + others)}
    IN  admitted = IF ~ sys.allowCreation THEN {} ELSE {n \in 0 .. 4 : \A m \in inForce : n < m}

----------------------------------------------------------------------------
(* Settings, workspaces and subscriptions.                                   *)

\* A setting's type with its bounds: the values of an integer, the length of a
\* string and whether it may be null, the number of entries of a list.
Flag == [type |-> "boolean", min |-> 0, max |-> 1, nullable |-> FALSE]
Number(min, max) == [type |-> "int", min |-> min, max |-> max, nullable |-> FALSE]
String(max, nullable) == [type |-> "string", min |-> 0, max |-> max, nullable |-> nullable]
List(max) == [type |-> "list", min |-> 0, max |-> max, nullable |-> FALSE]
MaxIps == 50
WorkspaceSpecs ==
    [general |-> [displayName |-> String(100, FALSE), timezone |-> String(64, FALSE), defaultRegion |-> String(8, FALSE),
                  contactEmail |-> String(200, FALSE)],
     query |-> [maxRows |-> Number(1, 1000000), timeoutMs |-> Number(100, 300000), allowStreaming |-> Flag],
     security |-> [allowedIps |-> List(MaxIps)],
     api |-> [allowDeveloperTokens |-> Flag, maxTokenDays |-> Number(1, MaxDays), allowedScopes |-> List(Cardinality(Scopes))],
     notifications |-> [emailOnLimit |-> Flag, limitWarningPercent |-> Number(50, 100)]]
SystemSpec ==
    [defaultPlan |-> String(100, TRUE), planLimitsEnabled |-> Flag, allowSelfSignup |-> Flag, allowWorkspaceCreation |-> Flag,
     maxWorkspacesPerUser |-> Number(-1, 10000), defaultRegion |-> String(8, FALSE), maintenanceMode |-> Flag,
     maintenanceMessage |-> String(300, FALSE), maxTokenDays |-> Number(1, MaxDays)]

\* A value as a request gives it: its JSON type, its number, length or count,
\* how much of that is blanks at its ends or entries given twice, and whether
\* it, or every entry of it, fits the pattern, the set or the length required.
JsonValue(type, n, extra, fits) == [type |-> type, n |-> n, extra |-> extra, fits |-> fits]
Json(type, n) == JsonValue(type, n, 0, TRUE)
JsonNull == Json("null", 0)
ValidField(f, raw) ==
    \/ f.nullable /\ raw.type = "null"
    \/ raw.type = f.type /\ raw.fits /\ raw.n \in f.min .. f.max
\* Strings are stored trimmed and lists without their duplicates.
Clean(raw) == [raw EXCEPT !.n = @ - raw.extra, !.extra = 0]
ValidateSection(spec, body) ==
    CASE ~ body.object -> [code |-> "INVALID_SETTINGS", clean |-> <<>>]
      [] ~ (DOMAIN body.fields \subseteq DOMAIN spec) -> [code |-> "UNKNOWN_SETTINGS", clean |-> <<>>]
      [] \E k \in DOMAIN body.fields : ~ ValidField(spec[k], body.fields[k]) -> [code |-> "INVALID_SETTINGS", clean |-> <<>>]
      [] OTHER -> [code |-> "ok", clean |-> [k \in DOMAIN body.fields |-> Clean(body.fields[k])]]

On == Json("boolean", 1)
WorkspaceDefaults ==
    [general |-> [timezone |-> Json("string", 3)], query |-> [allowStreaming |-> On],
     security |-> [allowedIps |-> Json("list", 0)],
     api |-> [allowDeveloperTokens |-> On, allowedScopes |-> Json("list", Cardinality(Scopes))],
     notifications |-> [emailOnLimit |-> On, limitWarningPercent |-> Json("int", 80)]]
Section(stored, name) == IF name \in DOMAIN stored THEN stored[name] ELSE <<>>
\* rows holds the settings of the workspace, or nothing where there is none.
WorkspaceSettings(rows) ==
    [s \in DOMAIN WorkspaceSpecs |-> (IF rows = <<>> THEN <<>> ELSE Section(rows[1], s)) @@ WorkspaceDefaults[s]]
UpdateSection(rows, section, body, ceilings) ==
    LET valid == ValidateSection(WorkspaceSpecs[section], body)
        exceeds(s, k, max) == section = s /\ k \in DOMAIN valid.clean /\ max # Unlimited /\ valid.clean[k].n > max
        refuse(code) == [code |-> code, rows |-> rows]
    IN  CASE section \notin DOMAIN WorkspaceSpecs -> refuse("UNKNOWN_SECTION")
          [] valid.code # "ok" -> refuse(valid.code)
          [] exceeds("api", "maxTokenDays", ceilings.maxTokenDays) -> refuse("EXCEEDS_SYSTEM_LIMIT")
          [] exceeds("query", "maxRows", ceilings.maxQueryRows) -> refuse("EXCEEDS_LICENCE_LIMIT")
          [] rows = <<>> -> refuse("WORKSPACE_NOT_FOUND")
          [] OTHER -> [code |-> "ok", rows |-> << (section :> (valid.clean @@ Section(rows[1], section))) @@ rows[1] >>]

SystemDefaults ==
    [defaultPlan |-> JsonNull, planLimitsEnabled |-> On, allowSelfSignup |-> On, allowWorkspaceCreation |-> On,
     maxWorkspacesPerUser |-> Json("int", -1), defaultRegion |-> Json("string", 2), maintenanceMode |-> Json("boolean", 0),
     maintenanceMessage |-> Json("string", 0), maxTokenDays |-> Json("int", MaxDays)]
\* A stored null counts for the default plan only.
SystemSettings(stored) ==
    [k \in DOMAIN SystemSpec |-> IF k \in DOMAIN stored /\ (stored[k].type # "null" \/ k = "defaultPlan") THEN stored[k] ELSE SystemDefaults[k]]
UpdateSystem(stored, body, planActive) ==
    LET valid == ValidateSection(SystemSpec, body)
        names == "defaultPlan" \in DOMAIN valid.clean /\ valid.clean["defaultPlan"].type # "null"
    IN  CASE valid.code # "ok" -> [code |-> valid.code, stored |-> stored]
          [] DOMAIN valid.clean = {} -> [code |-> "ok", stored |-> stored]
          [] names /\ ~ planActive -> [code |-> "INVALID_SETTINGS", stored |-> stored]
          [] OTHER -> [code |-> "ok", stored |-> valid.clean @@ SystemSettings(stored)]

\* An accepted change is read back, leaves the rest as it was and keeps to the
\* ceilings; a refused one changes nothing.
SettingsHold(rows, section, body, ceilings) ==
    LET after == UpdateSection(rows, section, body, ceilings)
        before == WorkspaceSettings(rows)
        read == WorkspaceSettings(after.rows)
        given == [k \in DOMAIN body.fields |-> Clean(body.fields[k])]
        within(k, max) == section \in DOMAIN read /\ k \in DOMAIN given /\ max # Unlimited => read[section][k].n \in 1 .. max
    IN  IF after.code # "ok" THEN after.rows = rows
        ELSE /\ \A s \in DOMAIN read : read[s] = IF s = section THEN given @@ before[s] ELSE before[s]
             /\ within("maxTokenDays", ceilings.maxTokenDays) /\ within("maxRows", ceilings.maxQueryRows)
             /\ UpdateSection(after.rows, section, [object |-> TRUE, fields |-> given], ceilings) = after
SystemHolds(stored, body, planActive) ==
    LET after == UpdateSystem(stored, body, planActive)
        read == SystemSettings(after.stored)
    IN  /\ \A k \in DOMAIN SystemSpec :
              read[k] = IF after.code = "ok" /\ k \in DOMAIN body.fields THEN Clean(body.fields[k]) ELSE SystemSettings(stored)[k]
        /\ after.code # "ok" => after.stored = stored
        /\ read.maxTokenDays.n \in 1 .. MaxDays /\ read.maintenanceMode.type = "boolean"
        /\ read.defaultPlan # SystemSettings(stored).defaultPlan /\ read.defaultPlan.type # "null" => planActive

\* The workspaces a user lists, reads and changes; nobody is "none".
ListTenants(user, tenants) ==
    CASE user.id = "none" -> {} [] user.role = "ADMIN" -> tenants [] OTHER -> {t \in tenants : t.owner = user.id}
GetTenant(user, tenants, id) ==
    LET found == {t \in tenants : t.id = id}
    IN  CASE user.id = "none" -> 401 [] found = {} -> 404
          [] user.role # "ADMIN" /\ \A t \in found : t.owner # user.id -> 403 [] OTHER -> 200
\* A field of a body may be "undefined" or empty.
Upper(status) == CASE status = "active" -> "ACTIVE" [] status = "suspended" -> "SUSPENDED" [] OTHER -> status
OrOwn(given, own) == IF given \in {"undefined", ""} THEN own ELSE given
UpdateTenant(user, tenants, id, name, status) ==
    LET tenant == CHOOSE t \in tenants : t.id = id
    IN  CASE GetTenant(user, tenants, id) # 200 -> [code |-> GetTenant(user, tenants, id), tenants |-> tenants]
          [] status # "undefined" /\ user.role # "ADMIN" /\ Upper(status) # Upper(tenant.status) -> [code |-> 403, tenants |-> tenants]
          [] OTHER -> [code |-> 200, tenants |-> (tenants \ {tenant}) \cup {[tenant EXCEPT !.name = OrOwn(name, @), !.status = OrOwn(status, @)]}]
\* The operator's road names a status of its own list.  What the body leaves out
\* is written as NULL, which the name cannot be.
LifecycleStatuses == {"ACTIVE", "SUSPENDED", "ARCHIVED"}
AdminUpdateTenant(tenants, id, name, status) ==
    CASE status \notin LifecycleStatuses \cup {"undefined"} -> [code |-> 400, tenants |-> tenants]
      [] \A t \in tenants : t.id # id -> [code |-> 404, tenants |-> tenants]
      [] name = "undefined" -> [code |-> 500, tenants |-> tenants]
      [] OTHER -> [code |-> 200, tenants |-> {IF t.id = id THEN [t EXCEPT !.name = name, !.status = IF status = "undefined" THEN "NULL" ELSE status]
                                              ELSE t : t \in tenants}]
\* What one lists is what one reads and may rename; only an administrator
\* suspends or revives a workspace, and the operator's two roads agree on a
\* full body.
TenantsHold(user, tenants, id, name, status) ==
    LET after == UpdateTenant(user, tenants, id, name, status)
        other == AdminUpdateTenant(tenants, id, name, status)
        lifecycle(ts) == {<<t.id, t.owner, Upper(t.status)>> : t \in ts}
    IN  /\ GetTenant(user, tenants, id) = 200 <=> \E t \in ListTenants(user, tenants) : t.id = id
        /\ after.code # 200 => after.tenants = tenants
        /\ other.code # 200 => other.tenants = tenants
        /\ \A t \in tenants : t \notin after.tenants => t.id = id /\ t \in ListTenants(user, tenants)
        /\ user.role # "ADMIN" => lifecycle(after.tenants) = lifecycle(tenants)
        /\ user.role = "ADMIN" /\ user.id # "none" /\ name \notin {"undefined", ""} /\ status \in LifecycleStatuses => after = other

\* A user's own choice of a subscription, of which there is one or none.  The
\* start and the end of an existing one are kept.
SelectSubscription(user, sub, plan, body, now) ==
    CASE user.id = "none" -> [code |-> "UNAUTHENTICATED", sub |-> sub]
      [] body.unknown \/ ~ body.id -> [code |-> "INVALID_SUBSCRIPTION", sub |-> sub]
      [] ~ plan.exists -> [code |-> "PLAN_NOT_FOUND", sub |-> sub]
      [] user.role # "ADMIN" /\ (plan.status # "active" \/ plan.custom \/ plan.name = "selfhost") ->
            [code |-> "PLAN_NOT_SELECTABLE", sub |-> sub]
      [] sub = <<>> -> [code |-> "ok", sub |-> <<[plan |-> plan.name, snapshot |-> FALSE, active |-> TRUE, start |-> now, end |-> Absent]>>]
      [] OTHER -> [code |-> "ok", sub |-> <<[sub[1] EXCEPT !.plan = plan.name, !.snapshot = FALSE, !.active = TRUE]>>]
OnSelfHost(sub) == \E i \in DOMAIN sub : sub[i].active /\ sub[i].plan = "selfhost"
IsSelfHost(lic, sub, answers) == SelfHosted(lic) \/ (answers /\ OnSelfHost(sub))
\* The subscriptions of the platform's own accounts.
IsSystemSelfHost(subs, answers) == answers /\ OnSelfHost(subs)

\* The login page: who may change it, and what everybody reads of it.  A flag
\* that is not given is stored as FALSE.
StoreLogin(user, lic, sub, answers, body) ==
    CASE user.role # "ADMIN" \/ ~ IsSelfHost(lic, sub, answers) -> [code |-> 403]
      [] lic.valid /\ lic.branding = "no" -> [code |-> 403]
      [] lic.valid /\ lic.sso = "no" /\ (body.sso \/ body.issuer # "" \/ body.client # "" \/ body.secret # "") -> [code |-> 403]
      [] ~ answers -> [code |-> 500]
      [] OTHER -> [code |-> 200, value |-> body]
LoginDefaults == [title |-> "Data Fabric", passwords |-> TRUE, sso |-> TRUE, issuer |-> "shipped", client |-> "shipped"]
OrDefault(text, default) == IF text = "" THEN default ELSE text
ReadLogin(stored, lic, subs, env) ==
    LET shown == [selfhost |-> IsSystemSelfHost(subs, env.answers), removeBranding |-> lic.valid /\ lic.remove = "yes"]
    IN  CASE ~ env.answers -> [code |-> 500]
          [] stored = <<>> -> [code |-> 200] @@ shown @@ [issuer |-> OrDefault(env.issuer, "shipped"), client |-> OrDefault(env.client, "shipped")] @@ LoginDefaults
          [] OTHER -> [code |-> 200] @@ shown @@
                      [title |-> OrDefault(stored[1].title, LoginDefaults.title), passwords |-> stored[1].passwords, sso |-> stored[1].sso,
                       issuer |-> OrDefault(stored[1].issuer, "shipped"), client |-> OrDefault(stored[1].client, "shipped")]

\* Nobody becomes self-hosted by choosing a plan, a snapshot of the old plan is
\* gone and the period of the subscription goes on.
SubscriptionHolds(user, lic, sub, plan, body, now) ==
    LET after == SelectSubscription(user, sub, plan, body, now)
    IN  /\ user.role # "ADMIN" /\ ~ IsSelfHost(lic, sub, TRUE) => ~ IsSelfHost(lic, after.sub, TRUE)
        /\ after.code # "ok" => after.sub = sub
        /\ after.code = "ok" => /\ Len(after.sub) = 1 /\ ~ after.sub[1].snapshot /\ after.sub[1].active
                                /\ sub # <<>> => after.sub[1].start = sub[1].start /\ after.sub[1].end = sub[1].end
\* The page shows what was stored but for the secret.
LoginHolds(user, lic, sub, env, body) ==
    LET stored == StoreLogin(user, lic, sub, env.answers, body)
    IN  stored.code = 200 =>
          LET read == ReadLogin(<<stored.value>>, lic, sub, env)
              kept(f) == IF body[f] # "" THEN read[f] = body[f] ELSE read[f] = LoginDefaults[f]
          IN  /\ read.code = 200 /\ read.sso = body.sso /\ read.passwords = body.passwords
              /\ kept("title") /\ kept("issuer") /\ kept("client")
              /\ "secret" \notin DOMAIN read
              /\ lic.valid /\ lic.sso = "no" => ~ read.sso /\ read.issuer = "shipped"

\* The announced time of the next purge, in hours of the week's first day.
WeekHours == 7 * 24
NextDataResetTime(frequency, hour, now) ==
    LET day == now \div 24
        target == day * 24 + hour
    IN  CASE frequency = "none" -> Absent
          [] now >= target -> target + (IF frequency = "daily" THEN 24 ELSE IF frequency = "weekly" THEN WeekHours ELSE 0)
          [] frequency = "weekly" /\ day % 7 # 0 -> target + 24 * (7 - (day % 7))
          [] OTHER -> target
\* It is the next time the scheduler would purge, but for a weekly purge looked
\* up after the hour on another day than Sunday.
ResetHolds(frequency, hour, now) ==
    LET due(t) == t % 24 = hour /\ (frequency = "weekly" => (t \div 24) % 7 = 0)
        announced == NextDataResetTime(frequency, hour, now)
    IN  frequency = "daily" \/ (frequency = "weekly" /\ (now % 24 < hour \/ (now \div 24) % 7 = 0)) =>
          announced = Minimum({t \in now + 1 .. now + WeekHours + 24 : due(t)})

\* The page of downstream targets: rows of the registry by type, and sources.
Canonical == {"ELASTICSEARCH", "SNOWFLAKE"}
GetDownstreamStatus(rows, connected) ==
    {[type |-> t, connected |-> t \in connected,
      status |-> IF \E r \in rows : r.type = t THEN (CHOOSE r \in rows : r.type = t).status
                 ELSE IF t \in connected THEN "AVAILABLE" ELSE "NOT_CONFIGURED"] : t \in Canonical}
    \cup {[type |-> r.type, connected |-> FALSE, status |-> r.status] : r \in {q \in rows : q.type \notin Canonical}}
\* Each target is listed once, under the status the registry holds.
DownstreamHolds(rows, connected) ==
    LET out == GetDownstreamStatus(rows, connected)
    IN  /\ {o.type : o \in out} = Canonical \cup {r.type : r \in rows}
        /\ Cardinality(out) = Cardinality({o.type : o \in out})
        /\ \A o \in out : o.status \in {"AVAILABLE", "NOT_CONFIGURED"} \/ \E r \in rows : r.type = o.type /\ r.status = o.status

----------------------------------------------------------------------------
(* The workspace page (workspaceRoutes.ts).                                  *)

\* Only an administrator may look at another workspace, by header, then query.
PageTenant(user, header, query) ==
    CASE ~ IsPlatformAdmin(user) -> user.tenant
      [] header # "none" -> header
      [] query # "none" -> query
      [] OTHER -> user.tenant
RoleOf(user, env) ==
    IF IsPlatformAdmin(user) THEN "platform_admin" ELSE IF IsWorkspaceOwner(user, env) THEN "owner" ELSE "member"

\* The role of the user stored for the workspace counts before the session's.
AssignedRole(user, stored) ==
    CASE stored # "none" -> stored [] user.role # "none" -> user.role [] IsPlatformAdmin(user) -> "ADMIN" [] OTHER -> "VIEWER"
RolePermissions ==
    [canBuildAnalytics |-> {"ADMIN", "DEVELOPER", "ANALYST"}, canManageTriggers |-> {"ADMIN", "DEVELOPER"},
     canManageConnections |-> {"ADMIN"}, canManageUsers |-> {"ADMIN"}, canManagePolicies |-> {"ADMIN"},
     canManageReplication |-> {"ADMIN"}, canViewAuditLogs |-> {"ADMIN"}]
OwnerPermissions == {"isOwner", "canSwitchPlan"}
Permissions(user, env, stored) ==
    {p \in DOMAIN RolePermissions : IsPlatformAdmin(user) \/ AssignedRole(user, stored) \in RolePermissions[p]}
    \cup {p \in OwnerPermissions : RoleOf(user, env) \in {"owner", "platform_admin"}}
    \cup (IF IsPlatformAdmin(user) THEN {"isPlatformAdmin"} ELSE {}) \cup {"canExecuteQueries"}
\* GET /dashboard, of a workspace that exists or does not.
Dashboard(user, env, stored) ==
    CASE SessionOnly(user) # "ok" -> [code |-> SessionOnly(user), permissions |-> {}]
      [] ~ env.answers -> [code |-> "INTERNAL", permissions |-> {}]
      [] ~ env.exists -> [code |-> "WORKSPACE_NOT_FOUND", permissions |-> {}]
      [] OTHER -> [code |-> "ok", permissions |-> Permissions(user, env, stored)]

\* PUT /workspace: the length is that of the name as it was sent, the name
\* stored is trimmed; no letters stands for a name that is none.
RenameWorkspace(user, env, names, tenant, body) ==
    LET admitted == FirstFault(<<SessionOnly(user), RequireWorkspaceAdmin(user, env)>>)
    IN  CASE admitted # "ok" -> [code |-> admitted, names |-> names]
          [] body.unknown \/ body.letters = 0 \/ body.letters + body.blanks > 100 -> [code |-> "INVALID_WORKSPACE", names |-> names]
          [] ~ env.answers -> [code |-> "INTERNAL", names |-> names]
          [] OTHER -> [code |-> "ok", names |-> [t \in DOMAIN names |-> IF t = tenant THEN body.letters ELSE names[t]]]

\* What the page offers on the owner's account is what the routes admit, an
\* administrator is offered everything, a role everything a lesser one is, and
\* a changed role counts at once; renaming changes one workspace, the caller's.
WorkspacePageHolds(user, env, stored, header, query, names, body) ==
    LET shown == Dashboard(user, env, stored)
        offered == shown.permissions
        page == PageTenant(user, header, query)
        after == RenameWorkspace(user, env, names, page, body)
    IN  /\ shown.code = "ok" =>
              /\ (OwnerPermissions \subseteq offered) <=> (RequireWorkspaceAdmin(user, env) = "ok")
              /\ IsPlatformAdmin(user) => DOMAIN RolePermissions \subseteq offered
              /\ stored # "none" /\ ~ IsPlatformAdmin(user) =>
                    offered \cap DOMAIN RolePermissions = {p \in DOMAIN RolePermissions : stored \in RolePermissions[p]}
        /\ \A lesser \in 1 .. 3 :
              LET rank == <<"VIEWER", "ANALYST", "DEVELOPER", "ADMIN">>
              IN  Permissions(user, env, rank[lesser]) \subseteq Permissions(user, env, rank[lesser + 1])
        /\ user.role # "ADMIN" => page = user.tenant
        /\ after.names # names => after.code = "ok" /\ (IsPlatformAdmin(user) \/ env.owner)
        /\ \A t \in DOMAIN names : after.names[t] # names[t] => t = page /\ after.names[t] \in 1 .. 100

----------------------------------------------------------------------------
(* What a backend makes sure of before it listens (index.ts): a login page, a *)
(* licence key and the identity of the installation.                          *)

\* A page is changed only while it still holds the secret it was once shipped
\* with, and then keeps its client.
EnsureLogin(stored, issuer, client, secret) ==
    CASE stored = <<>> -> <<[title |-> "Data Fabric", passwords |-> TRUE, sso |-> TRUE, issuer |-> issuer, client |-> client, secret |-> secret]>>
      [] stored[1].secret = "shipped" -> <<[stored[1] EXCEPT !.issuer = issuer, !.secret = secret]>>
      [] OTHER -> stored
EnsureSetting(stored, value) == IF stored = "none" THEN value ELSE stored
Startup(settings, issuer, client, secret, fresh) ==
    [login |-> EnsureLogin(settings.login, issuer, client, secret),
     licence |-> EnsureSetting(settings.licence, "shipped"),
     instance |-> EnsureSetting(settings.instance, fresh)]

\* A second start with the same environment changes nothing and knows the
\* installation by the same identity; what was there before stays, the page
\* that was never configured apart.
StartupHolds(settings, issuer, secret) ==
    LET first == Startup(settings, issuer, "client", secret, "first")
        second == Startup(first, issuer, "client", secret, "second")
    IN  /\ first.instance # "none" /\ second = first
        /\ settings.instance # "none" => first.instance = settings.instance
        /\ settings.licence # "none" => first.licence = settings.licence
        /\ settings.login # <<>> =>
              /\ \A f \in {"title", "client", "sso", "passwords"} : first.login[1][f] = settings.login[1][f]
              /\ settings.login[1].secret # "shipped" => first.login = settings.login
        /\ first.login[1].secret = "shipped" => secret = "shipped"
=============================================================================
