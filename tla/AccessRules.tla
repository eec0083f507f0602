----------------------------- MODULE AccessRules -----------------------------
(* Who may call what, and which rows and values come back: the chain of       *)
(* middleware of index.ts, developer tokens, grants, row policies and masks.  *)
EXTENDS Integers, Sequences, FiniteSets, Functions, TLC

\* Roles are compared without regard to case: they are written in capitals here.
Roles == {"ADMIN", "VIEWER", "USER"}

----------------------------------------------------------------------------
(* Grants.                                                                   *)

Decide(grants, role, privilege) ==
    IF grants = {} THEN [allowed |-> TRUE, governed |-> FALSE]
    ELSE [allowed |-> role \in {"ADMIN", "SYSTEM"} \/ \E g \in grants : g.role = role /\ privilege \in g.privileges,
          governed |-> TRUE]
Enforce(grants, role, privilege) ==
    LET d == Decide(grants, role, privilege) IN IF d.governed /\ ~ d.allowed THEN "denied" ELSE "ok"

\* The session a handler builds: an administrator may act as another role, and a
\* region that is not named (0) is the default one.
DefaultRegion == 1
SessionOf(user, actAs, region) ==
    [role |-> IF user.role = "ADMIN" /\ actAs # "none" THEN actAs ELSE user.role,
     region |-> IF region = 0 THEN DefaultRegion ELSE region]

----------------------------------------------------------------------------
(* Row policies and column masks.                                            *)

\* A cell holds a number, or Null.
Null == -1
Cells == {Null, 0, 1}
Columns == {"x", "y"}
CANON_OP ==
    "EQ" :> "$eq" @@ "NEQ" :> "$ne" @@ "GT" :> "$gt" @@ "GTE" :> "$gte"
    @@ "LT" :> "$lt" @@ "LTE" :> "$lte" @@ "IN" :> "$in" @@ "LIKE" :> "$like"

\* What a clause compares with: a literal, or an attribute of the session.  The
\* region stands for the tenant, the role and the user's name, which are read
\* the same way; an attribute that is not set, or not known, is Null.
ResolveValue(value, session) ==
    CASE value.session = "none" -> value.lit [] value.session = "region" -> session.region [] OTHER -> Null

RoleMatches(roles, session) == roles = {} \/ session.role \in roles

\* The canonical operator and value a clause adds to the filter of its column.
\* A clause without an operator is an equality; one without a column, or with
\* an operator the compiler does not know, adds nothing.
CanonicalOps(clause, session) ==
    LET op == IF clause.op = "" THEN "EQ" ELSE clause.op
    IN  CASE clause.column = "" -> <<>>
          [] op = "IS_NULL" -> "$eq" :> Null
          [] op = "IS_NOT_NULL" -> "$ne" :> Null
          [] op \in DOMAIN CANON_OP -> CANON_OP[op] :> ResolveValue(clause.value, session)
          [] OTHER -> <<>>

\* One filter laid over another: per column the operators are merged, and the
\* later value of an operator replaces the earlier one.
Overlay(filter, over) ==
    [c \in DOMAIN filter \cup DOMAIN over |->
        CASE c \notin DOMAIN over -> filter[c]
          [] c \notin DOMAIN filter -> over[c]
          [] OTHER -> over[c] @@ filter[c]]

CompileFilter(clauses, session) ==
    LET fragment(c) == IF DOMAIN CanonicalOps(c, session) = {} THEN <<>> ELSE c.column :> CanonicalOps(c, session)
        compiled[n \in 0 .. Len(clauses)] ==
            IF n = 0 THEN <<>> ELSE Overlay(compiled[n - 1], fragment(clauses[n]))
    IN  compiled[Len(clauses)]

\* The store holds one policy per tenant, table (with its schema) and name: an
\* upsert replaces it and keeps its id, for which that key stands.
PolicyKey(p) == <<p.tenant, p.table, p.name>>
UpsertPolicy(store, policy) == {p \in store : PolicyKey(p) # PolicyKey(policy)} \cup {policy}
CreatePolicy(store, tenant, body) ==
    IF body.name = "" \/ body.table = "" \/ (body.rows = <<>> /\ body.masks = <<>>)
    THEN [code |-> 400, store |-> store]
    ELSE [code |-> 201, store |-> UpsertPolicy(store, "tenant" :> tenant @@ body)]
DeletePolicy(store, tenant, id) ==
    LET found == {p \in store : p.tenant = tenant /\ PolicyKey(p) = id}
    IN  [code |-> IF found = {} THEN 404 ELSE 200, store |-> store \ found]
PoliciesOf(store, tenant, table) == {p \in store : p.tenant = tenant /\ p.table = table}

Concat(seqs) == LET upto[n \in 0 .. Len(seqs)] == IF n = 0 THEN <<>> ELSE upto[n - 1] \o seqs[n] IN upto[Len(seqs)]

\* resolve: the policies of a table in the order the database returned them.
Resolve(policies, session) ==
    LET applied == SelectSeq(policies, LAMBDA p : RoleMatches(p.roles, session))
        filter[n \in 0 .. Len(applied)] ==
            IF n = 0 THEN <<>> ELSE Overlay(filter[n - 1], CompileFilter(applied[n].rows, session))
    IN  [filter |-> filter[Len(applied)],
         masks |-> SelectSeq(Concat([i \in DOMAIN applied |-> applied[i].masks]),
                             LAMBDA m : RoleMatches(m.roles, session))]

\* A defect: the caller's operators win.
MergeCallerOver(existing, policy) ==
    [c \in DOMAIN existing \cup DOMAIN policy |->
        CASE c \notin DOMAIN policy -> existing[c].ops
          [] c \notin DOMAIN existing \/ existing[c].bareNull -> policy[c]
          [] OTHER -> existing[c].ops @@ policy[c]]

\* The caller's conditions are objects of operators, bare values (`col: v`) or a
\* bare null, which the policy's condition on the same column replaces.
MergeIntoFilter(existing, policy) ==
    [c \in DOMAIN existing \cup DOMAIN policy |->
        CASE c \notin DOMAIN policy -> existing[c].ops
          [] c \notin DOMAIN existing \/ existing[c].bareNull -> policy[c]
          [] OTHER -> policy[c] @@ existing[c].ops]
\* What the document stores make of an operator.  A list is the set of its
\* values, and a pattern the set of the cells it fits.
CellMatches(cell, op, value) ==
    CASE op = "$eq" -> cell = value
      [] op = "$ne" -> cell # value
      [] op \in {"$in", "$like"} -> cell \in value
      [] cell = Null \/ value = Null -> FALSE
      [] op = "$gt" -> cell > value [] op = "$gte" -> cell >= value
      [] op = "$lt" -> cell < value [] op = "$lte" -> cell <= value
RowMatches(row, filter) == \A c \in DOMAIN filter : \A op \in DOMAIN filter[c] : CellMatches(row[c], op, filter[c][op])

AllRows == [Columns -> Cells]
CallerRows(existing) == {r \in AllRows : RowMatches(r, [c \in DOMAIN existing |-> existing[c].ops])}

\* The direct road to a connector, for a single source, for aggregates pushed down
\* and for the sides a join looks up.  A denied grant fails the query; policies
\* that cannot be read (`available` is FALSE) are left out, with a warning.
FetchLegDirect(policies, available, grants, session, existing) ==
    LET policy == IF available THEN Resolve(policies, session) ELSE [filter |-> <<>>, masks |-> <<>>]
    IN  IF Enforce(grants, session.role, "SELECT") = "denied"
        THEN [code |-> "denied", rows |-> {}, masks |-> <<>>, warned |-> FALSE]
        ELSE [code |-> "ok", rows |-> {r \in AllRows : RowMatches(r, MergeIntoFilter(existing, policy.filter))},
              masks |-> policy.masks, warned |-> ~ available]

\* The streamed road, for every leg of a set operation and for the driving side of
\* a join: the caller's filter is all that is pushed down; no grant is asked for,
\* no policy merged and no mask collected.
FetchLegStream(existing) == [code |-> "ok", rows |-> CallerRows(existing), masks |-> <<>>, warned |-> FALSE]

\* The reference: every clause of every policy that applies to the role holds.
ClauseHolds(row, clause, session) ==
    \A op \in DOMAIN CanonicalOps(clause, session) :
        CellMatches(row[clause.column], op, CanonicalOps(clause, session)[op])
Applies(policies, session) == {i \in DOMAIN policies : RoleMatches(policies[i].roles, session)}
EntitledRows(policies, session) ==
    {r \in AllRows : \A i \in Applies(policies, session) :
        \A j \in DOMAIN policies[i].rows : ClauseHolds(r, policies[i].rows[j], session)}
\* Two clauses of one operator on one column: the later one is all that counts.
Collide(p, q, session) == p.column = q.column /\ DOMAIN CanonicalOps(p, session) \cap DOMAIN CanonicalOps(q, session) # {}
NoCollision(policies, session) ==
    LET at == UNION {{<<i, j>> : j \in DOMAIN policies[i].rows} : i \in Applies(policies, session)}
    IN  \A a, b \in at : a # b => ~ Collide(policies[a[1]].rows[a[2]], policies[b[1]].rows[b[2]], session)

\* On the direct road a caller whose grants admit it and who is not warned never
\* sees a row the applicable policies withhold, sees all of those that remain, and
\* cannot widen its view with a filter of its own; a warning comes exactly with a
\* failure.  Grants and policies stop at that road: the streamed one answers every
\* leg as if none governed it, so both agree only where none does.
PolicyHolds(policies, grants, session, existing) ==
    LET leg(filter) == FetchLegDirect(policies, TRUE, grants, session, filter)
        rows(filter) == leg(filter).rows
        admitted == grants = {} \/ session.role = "ADMIN" \/ \E g \in grants : g.role = session.role /\ "SELECT" \in g.privileges
    IN  /\ ~ leg(existing).warned /\ (leg(existing).code = "ok") = admitted
        /\ ~ admitted => rows(existing) = {}
        /\ rows(existing) \subseteq rows(<<>>)
        /\ admitted /\ NoCollision(policies, session) => rows(<<>>) = EntitledRows(policies, session)
        /\ (\A c \in DOMAIN existing : c \notin DOMAIN Resolve(policies, session).filter) =>
              rows(existing) = rows(<<>>) \cap CallerRows(existing)
        /\ \A available \in BOOLEAN :
              LET other == FetchLegDirect(policies, available, grants, session, existing)
              IN  other.code = "ok" /\ other.rows # rows(existing) => other.warned
        /\ grants = {} /\ Applies(policies, session) = {} => FetchLegStream(existing) = leg(existing)

\* A policy is stored only complete, once per key; storing or deleting one
\* leaves those of other tables and tenants alone, and only its own tenant
\* deletes it, once.
StoreHolds(store, tenant, body) ==
    LET after == CreatePolicy(store, tenant, body).store
        id == <<tenant, body.table, body.name>>
        gone == DeletePolicy(after, tenant, id)
        others(s) == {p \in s : p.tenant # tenant \/ p.table # body.table}
    IN  /\ Cardinality({PolicyKey(p) : p \in after}) = Cardinality(after)
        /\ CreatePolicy(store, tenant, body).code # 201 => after = store
        /\ CreatePolicy(store, tenant, body).code = 201 =>
              /\ \E p \in PoliciesOf(after, tenant, body.table) : p.name = body.name /\ p.rows = body.rows /\ p.roles = body.roles
              /\ gone.code = 200
        /\ others(after) = others(store) /\ others(gone.store) = others(store)
        /\ DeletePolicy(gone.store, tenant, id).code = 404
        /\ DeletePolicy(after, "somebody else", id) = [code |-> 404, store |-> after]

\* A text is told apart by its length and by how many of its characters are
\* still those of the stored value.
MaskStrategies == {"NULL", "REDACT", "HASH", "PARTIAL"}
NullText == [null |-> TRUE, len |-> 0, shown |-> 0]
Text(len, shown) == [null |-> FALSE, len |-> len, shown |-> shown]
ShortPartial == 4
MaskValue(v, strategy) ==
    CASE v.null -> v
      [] strategy = "NULL" -> NullText
      [] strategy = "REDACT" -> Text(14, 0)
      [] strategy = "HASH" -> Text(15, 0)
      [] strategy = "PARTIAL" -> IF v.len <= ShortPartial THEN Text(4, 0)
                                 ELSE Text(v.len, IF v.shown > 4 THEN 4 ELSE v.shown)
      [] OTHER -> v
\* Masks go by the name a value has in the answer.
ApplyMasks(v, name, masks) ==
    LET own == SelectSeq(masks, LAMBDA m : m.column = name)
        masked[n \in 0 .. Len(own)] == IF n = 0 THEN v ELSE MaskValue(masked[n - 1], own[n].strategy)
    IN  masked[Len(own)]

\* A column is fetched under its own name; a pushed-down aggregate comes back under
\* its alias, or a name made of its function's.
OutputName(item) == CASE item.func = "" -> item.column [] item.alias # "" -> item.alias [] OTHER -> item.func
Items == [func : {""}, column : Columns, alias : {""}] \cup [func : {"max"}, column : {"x"}, alias : {"", "m", "y"}]

\* On the direct road, whatever comes back under the name of a column with a mask
\* of a known strategy for the caller's role never comes out whole, whichever other
\* masks are applied before or after it; everything else is untouched.  So a column
\* asked for as such is masked, and an aggregate of it under another name is not;
\* nor is anything on the streamed road.
MaskHolds(len, policies, session) ==
    LET masks == FetchLegDirect(policies, TRUE, {}, session, <<>>).masks
        out(item) == ApplyMasks(Text(len, len), OutputName(item), masks)
        masked(c) == \E i \in Applies(policies, session) : \E m \in Range(policies[i].masks) :
                        RoleMatches(m.roles, session) /\ m.column = c /\ m.strategy \in MaskStrategies
    IN  \A item \in Items : IF masked(OutputName(item)) THEN out(item).shown <= 4 /\ (len > 0 => out(item).shown < len)
                                                        ELSE out(item) = Text(len, len)

\* A manifest's masking expression becomes a strategy by the words it contains.
ManifestStrategy(words) ==
    CASE "null" \in words -> "NULL" [] "hash" \in words -> "HASH"
      [] words \cap {"partial", "last4"} # {} -> "PARTIAL" [] OTHER -> "REDACT"

----------------------------------------------------------------------------
(* The way from a request to its handler.                                    *)

\* The route groups of index.ts; "policies" stands for grants and constraints
\* too, "system" for the worker nodes.  Every route of "settings" is one of the
\* login page.
QueryAreas == {"queries", "analytics", "saved-analytics", "query-logs"}
AstOnlyAreas == {"queries", "analytics", "saved-analytics", "data"}
LicensedAreas == AstOnlyAreas \cup {"metadata", "triggers", "replication"}
OpenAreas == {"auth", "developer-docs", "settings"}
UnguardedAreas == OpenAreas \cup {"plans", "subscriptions"}
Areas == LicensedAreas \cup UnguardedAreas \cup {"query-logs", "policies", "system", "admin", "workspace", "tokens"}
Scopes == {"query:read", "data:read", "data:write", "metadata:read", "metadata:write", "triggers:read", "triggers:write"}

\* The statement a body carries at its root, in `config` or in `queryConfig`.
RequiredScope(r) ==
    LET read == r.method = "GET"
    IN  CASE r.area \in QueryAreas -> IF r.tail = "refresh-view" THEN "data:write"
                                      ELSE IF r.statement = "SELECT" \/ r.tail = "transpile" THEN "query:read"
                                      ELSE "data:write"
          [] r.area = "data" -> IF read \/ r.tail = "fetch" THEN "data:read" ELSE "data:write"
          [] r.area = "metadata" -> IF read \/ r.tail = "diff" THEN "metadata:read" ELSE "metadata:write"
          [] r.area = "triggers" -> IF read THEN "triggers:read" ELSE "triggers:write"
          [] OTHER -> "none"
Minimum(S) == CHOOSE n \in S : \A m \in S : n <= m
FirstFault(codes) ==
    LET failing == {i \in DOMAIN codes : codes[i] # "ok"} IN IF failing = {} THEN "ok" ELSE codes[Minimum(failing)]
DefaultDays == 90
MaxDays == 365
MaxActivePerUser == 25

\* A limit that is not set, or set to -1, limits nothing.
Absent == -2
Unlimited == -1
Or(n, m) == IF n = Absent THEN m ELSE n
Within(limit, current) == limit \in {Absent, Unlimited} \/ current < limit

\* create: the checks in their order; the code of the first that fails.
CreateToken(user, input, env) ==
    LET maxDays == Minimum({MaxDays, env.systemDays} \cup (IF env.workspaceDays = 0 THEN {} ELSE {env.workspaceDays}))
        days == IF input.days = "default" THEN Minimum({DefaultDays, maxDays}) ELSE input.n
    IN  CASE user.kind = "token" -> [code |-> "TOKEN_FROM_TOKEN"]
          [] user.tenant = "none" -> [code |-> "TENANT_REQUIRED"]
          [] ~ env.feature -> [code |-> "FEATURE_DISABLED"]
          [] ~ env.allowTokens -> [code |-> "TOKENS_DISABLED"]
          [] input.name \notin 1 .. 100 -> [code |-> "INVALID_TOKEN"]
          [] input.scopes = {} \/ ~ (input.scopes \subseteq Scopes) -> [code |-> "INVALID_SCOPE"]
          [] days < 1 \/ days > maxDays -> [code |-> "INVALID_TOKEN"]
          [] ~ (input.scopes \subseteq env.allowedScopes) -> [code |-> "SCOPE_NOT_ALLOWED"]
          [] env.active >= MaxActivePerUser -> [code |-> "TOKEN_LIMIT"]
          [] ~ Within(env.planTokens, env.active) -> [code |-> "PLAN_LIMIT_REACHED"]
          [] OTHER -> [code |-> "ok", known |-> "yes", scopes |-> input.scopes, days |-> days, tenant |-> user.tenant, revoked |-> FALSE]

\* authenticate, `age` days later.  env.answers says that the database does.
Authenticate(token, age, env) ==
    CASE token.known = "malformed" -> "INVALID_TOKEN"
      [] ~ env.answers -> "INTERNAL"
      [] token.known = "no" -> "INVALID_TOKEN"
      [] token.revoked -> "TOKEN_REVOKED"
      [] token.days <= age -> "TOKEN_EXPIRED"
      [] env.status = "SUSPENDED" -> "TENANT_SUSPENDED"
      [] ~ env.feature -> "FEATURE_DISABLED"
      [] ~ env.allowTokens -> "TOKENS_DISABLED"
      [] OTHER -> "ok"
TokenUser(token) == [kind |-> "token", role |-> "USER", tenant |-> token.tenant]
NoUser == [kind |-> "none", role |-> "USER", tenant |-> "none"]

\* The first middleware: who calls.  A session that does not verify leaves the
\* request without a user; an administrator may name another workspace.
Identify(r, env) ==
    CASE r.credential = "token" ->
            IF Authenticate(r.token, r.age, env) # "ok" THEN [code |-> Authenticate(r.token, r.age, env), user |-> NoUser, actAs |-> "none"]
            ELSE IF RequiredScope(r) = "none" THEN [code |-> "TOKEN_NOT_ALLOWED", user |-> NoUser, actAs |-> "none"]
            ELSE IF RequiredScope(r) \notin r.token.scopes THEN [code |-> "SCOPE_REQUIRED", user |-> NoUser, actAs |-> "none"]
            ELSE [code |-> "ok", user |-> TokenUser(r.token), actAs |-> "none"]
      [] r.credential = "session" ->
            [code |-> "ok", actAs |-> r.actAs,
             user |-> IF r.user.role = "ADMIN" /\ r.override # "none" THEN [r.user EXCEPT !.tenant = r.override] ELSE r.user]
      [] OTHER -> [code |-> "ok", user |-> NoUser, actAs |-> "none"]

IsPlatformAdmin(user) == user.role = "ADMIN" /\ user.kind = "session"
RequirePlatformAdmin(user) ==
    IF user.kind = "none" THEN "UNAUTHENTICATED" ELSE IF IsPlatformAdmin(user) THEN "ok" ELSE "FORBIDDEN"
\* Only a session with a workspace makes the database be asked.
MayOwn(user) == user.kind = "session" /\ user.tenant # "none"
IsWorkspaceOwner(user, env) == MayOwn(user) /\ env.owner
RequireWorkspaceAdmin(user, env) ==
    CASE user.kind = "none" -> "UNAUTHENTICATED"
      [] IsPlatformAdmin(user) -> "ok"
      [] MayOwn(user) /\ ~ env.answers -> "INTERNAL"
      [] IsWorkspaceOwner(user, env) -> "ok"
      [] OTHER -> "WORKSPACE_ADMIN_REQUIRED"

\* The status is at most five seconds old.  Settings that cannot be read count
\* as the defaults, without maintenance; a status that cannot be read refuses.
WorkspaceGuard(user, area, env) ==
    CASE user.kind = "none" \/ IsPlatformAdmin(user) \/ area \in OpenAreas -> "ok"
      [] env.answers /\ env.maintenance -> "MAINTENANCE"
      [] user.tenant = "none" -> "ok"
      [] ~ env.answers -> "GUARD_UNAVAILABLE"
      [] env.status = "SUSPENDED" -> "TENANT_SUSPENDED"
      [] env.status \in {"missing", "DELETED"} -> "TENANT_NOT_AVAILABLE"
      [] ~ env.ipAllowed -> "IP_NOT_ALLOWED"
      [] OTHER -> "ok"

\* The first bits of two addresses agree.
InBlock(o, base, bits) ==
    \A i \in 1 .. 4 : LET k == IF bits >= 8 * i THEN 0 ELSE IF bits <= 8 * (i - 1) THEN 8 ELSE 8 * i - bits
                      IN  o[i] \div 2 ^ k = base[i] \div 2 ^ k

IsValidIpOrCidr(rule) == rule.bits \in {Absent} \cup 0 .. (IF rule.v6 THEN 128 ELSE 32)
\* An IPv4 address mapped into IPv6 is taken for itself; a rule in IPv6 is
\* compared with its address alone, whatever its prefix.  A request may come
\* without an address.
IpAllowed(ip, rules) ==
    \/ rules = {}
    \/ ip.addr # <<>> /\ \E r \in rules : IF ~ ip.v6 /\ ~ r.v6 THEN InBlock(ip.addr, r.addr, Or(r.bits, 32)) ELSE ip.v6 = r.v6 /\ ip.addr = r.addr
\* The caller's address is in one of the blocks: as many leading bits agree.
AddressBits(addr) == [n \in 1 .. 32 |-> (addr[((n - 1) \div 8) + 1] \div 2 ^ (7 - ((n - 1) % 8))) % 2]
IpHolds(ip, rules) ==
    LET block(r) == \A n \in 1 .. Or(r.bits, 32) : AddressBits(ip.addr)[n] = AddressBits(r.addr)[n]
        valid == {r \in rules : IsValidIpOrCidr(r)}
    IN  valid # {} => (IpAllowed(ip, valid) <=> ip.addr # <<>> /\ \E r \in valid : ip.v6 = r.v6 /\ (IF ip.v6 THEN ip.addr = r.addr ELSE block(r)))

\* licensingMiddleware answers 402, 429 and 503.
Licensing(user, env) ==
    CASE user.kind = "none" -> "UNAUTHENTICATED"
      [] IsPlatformAdmin(user) -> "ok"
      [] ~ env.answers -> "LICENSE_CHECK_FAILED"
      [] env.licence = "expired" -> "TRIAL_EXPIRED"
      [] env.licence = "spent" -> "RATE_LIMITED"
      [] OTHER -> "ok"

AstOnly(r) == IF r.sqlText THEN "SQL_NOT_SUPPORTED" ELSE "ok"
RequireAuth(user) == IF user.kind = "none" THEN "UNAUTHENTICATED" ELSE "ok"
SessionOnly(user) ==
    CASE user.kind = "none" -> "UNAUTHENTICATED" [] user.kind = "token" -> "TOKEN_NOT_ALLOWED"
      [] user.tenant = "none" -> "NO_WORKSPACE" [] OTHER -> "ok"
AdminOnly(user) == IF user.kind = "none" THEN "UNAUTHENTICATED" ELSE IF user.role # "ADMIN" THEN "FORBIDDEN" ELSE "ok"

\* Manifests as files: env.manifests is "no" where the feature is refused and
\* "small" where the file exceeds the size of the plan.
Metered(user) == ~ IsPlatformAdmin(user) /\ user.tenant # "none"
RequireFeature(user, env) ==
    IF Metered(user) /\ ~ env.answers THEN "INTERNAL"
    ELSE IF Metered(user) /\ env.manifests = "no" THEN "FEATURE_DISABLED" ELSE "ok"
ManifestFileGate(r, user, env) ==
    CASE ~ r.file \/ RequireFeature(user, env) # "ok" -> IF r.file THEN RequireFeature(user, env) ELSE "ok"
      [] Metered(user) /\ env.manifests = "small" -> "MANIFEST_TOO_LARGE"
      [] OTHER -> "ok"

\* Routes that are there for one method only.
Routed(r) ==
    /\ r.area \in {"developer-docs", "query-logs"} \/ (r.area = "admin" /\ r.tail = "") \/ r.tail \in {"export", "raw"} => r.method = "GET"
    /\ r.area = "data" \/ r.tail \in {"diff", "apply", "transpile", "fetch", "refresh-view"} => r.method # "GET"

\* What the router of an area asks of one of its routes, in order.  Of "admin"
\* the tail "tenants" stands for the users and the audit log too.  (Where the
\* instance is self-hosted plans cannot be written; this is not modelled.)
AreaChecks(r, user, env) ==
    LET write == r.method # "GET"
        owners == IF write THEN <<RequireWorkspaceAdmin(user, env)>> ELSE <<>>
    IN  CASE ~ Routed(r) -> <<"NOT_FOUND">>
          [] r.area = "workspace" -> <<SessionOnly(user)>> \o owners
          [] r.area = "system" -> <<RequirePlatformAdmin(user)>>
          [] r.area = "plans" -> IF write THEN <<RequirePlatformAdmin(user)>> ELSE <<>>
          [] r.area = "admin" -> CASE r.tail = "tenants" -> <<AdminOnly(user)>> [] OTHER -> owners
          [] r.area = "settings" -> IF write \/ r.tail = "raw" THEN <<IF user.role # "ADMIN" THEN "FORBIDDEN" ELSE "ok">> ELSE <<>>
          [] r.area = "subscriptions" -> <<RequireAuth(user)>>
          [] r.area = "tokens" -> <<IF user.kind = "token" THEN "TOKEN_FROM_TOKEN" ELSE "ok">>
          [] r.area \in {"policies", "triggers", "replication"} -> owners
          [] r.area = "metadata" ->
                CASE r.tail = "export" -> <<RequireFeature(user, env)>>
                  [] r.tail = "diff" -> <<ManifestFileGate(r, user, env)>>
                  [] r.tail = "apply" -> owners \o <<ManifestFileGate(r, user, env)>>
                  [] OTHER -> owners
          [] OTHER -> <<>>

\* Every check of the request in the order the routers run them.
Checks(r, env) ==
    LET caller == Identify(r, env)
        user == caller.user
    IN  <<caller.code, WorkspaceGuard(user, r.area, env),
          IF r.area \in UnguardedAreas THEN "ok" ELSE RequireAuth(user),
          IF r.area \in AstOnlyAreas THEN AstOnly(r) ELSE "ok",
          IF r.area \in LicensedAreas THEN Licensing(user, env) ELSE "ok">> \o AreaChecks(r, user, env)
Answer(r, env) == IF FirstFault(Checks(r, env)) = "ok" THEN "handled" ELSE FirstFault(Checks(r, env))

\* The tenant a handler works in: an administrator's body may name another.
RequestTenant(user, requested) ==
    IF IsPlatformAdmin(user) /\ requested # "none" THEN requested ELSE user.tenant

\* A request is handled only for a caller the workspace, the plan and the route
\* admit: nobody without an identity reaches data, a token stays inside its
\* workspace and its scopes, writes included, a workspace that is not active
\* serves only administrators, and what cannot be verified is not served.
RequestHolds(r, env, requested, granted) ==
    LET user == Identify(r, env).user
        role == SessionOf(user, Identify(r, env).actAs, 0).role
        handled == Answer(r, env) = "handled"
    IN  /\ handled /\ user.kind = "none" => r.area \in UnguardedAreas \ {"subscriptions"} /\ (r.area # "auth" => r.method = "GET" /\ r.tail # "raw")
        /\ handled /\ r.credential = "token" =>
              /\ RequestTenant(user, requested) = r.token.tenant
              /\ role = "USER" /\ r.token.known = "yes" /\ ~ r.token.revoked /\ r.age < r.token.days
              /\ env.status = "ACTIVE" /\ ~ env.maintenance /\ env.ipAllowed /\ env.answers
              /\ r.area \in {"queries", "analytics"} /\ r.statement # "SELECT" /\ r.tail # "transpile"
                    => "data:write" \in r.token.scopes
              /\ r.area \in QueryAreas \cup {"data", "metadata", "triggers"}
              /\ r.area \in {"metadata", "triggers"} => r.method = "GET" \/ r.tail = "diff"
        /\ handled /\ r.area \in LicensedAreas /\ ~ IsPlatformAdmin(user) =>
              /\ env.licence = "ok" /\ env.answers
              /\ user.tenant # "none" => env.status = "ACTIVE" /\ env.ipAllowed
        /\ handled /\ r.method # "GET" /\ r.area \in {"policies", "triggers", "replication", "workspace"} => IsPlatformAdmin(user) \/ env.owner
        /\ handled /\ (r.area = "system" \/ (r.area = "admin" /\ r.tail = "tenants") \/ (r.area = "plans" /\ r.method # "GET")) => IsPlatformAdmin(user)
        /\ handled /\ r.area = "metadata" /\ (r.file \/ r.tail = "export") /\ env.manifests = "no" => ~ Metered(user)
        /\ RequestTenant(user, requested) # user.tenant => user.role = "ADMIN"
        /\ Enforce(granted, role, "DELETE") = "ok" /\ granted # {} /\ user.role # "ADMIN" =>
              \E g \in granted : g.role = user.role /\ "DELETE" \in g.privileges

\* A token that was created can be used at once and until it expires, and never
\* lives longer than the shortest of the limits that applied.
TokenHolds(user, input, env, age) ==
    LET t == CreateToken(user, input, env)
    IN  t.code = "ok" =>
          /\ t.days <= env.systemDays /\ t.days <= MaxDays /\ (env.workspaceDays # 0 => t.days <= env.workspaceDays)
          /\ env.active < MaxActivePerUser /\ (env.planTokens # Unlimited => env.active < env.planTokens)
          /\ (Authenticate(t, age, env) = "ok") = (env.answers /\ env.status # "SUSPENDED" /\ age < t.days)
          /\ Authenticate([t EXCEPT !.revoked = TRUE], age, env) # "ok"

----------------------------------------------------------------------------
(* What a failed handler answers.                                            *)

\* pgClientError: SQLSTATEs that are told apart, and the classes of the others.
SqlStates == {"42P01", "3F000", "42501", "23505", "23503", "23P01", "57014", "22xxx", "42xxx", "23xxx", "0Axxx", "54xxx", "08xxx", "53xxx", "none"}
PgClientError(state) ==
    CASE state \in {"42P01", "3F000"} -> 404 [] state = "42501" -> 403
      [] state \in {"23505", "23503", "23P01"} -> 409 [] state = "57014" -> 408
      [] state \in {"22xxx", "42xxx", "23xxx", "0Axxx", "54xxx"} -> 400 [] OTHER -> 0
HttpStatusOf(status) == IF status >= 400 /\ status < 600 THEN status ELSE 0

\* The handlers of the query engine know the typed and the database's errors.
QueryErrorStatus(err) ==
    CASE err.suspended -> 403
      [] HttpStatusOf(err.status) # 0 -> err.status
      [] PgClientError(err.state) # 0 -> PgClientError(err.state)
      [] OTHER -> 500

\* Those of /api/data also a denied grant and the wording of a refusal.
DataErrorStatus(err) ==
    IF QueryErrorStatus(err) # 500 \/ err.status = 500 THEN QueryErrorStatus(err)
    ELSE IF err.denied THEN 403 ELSE IF err.worded THEN 400 ELSE 500

\* A fault of the request is a 4xx on the data road and a lost connection or a
\* full server is a 500 on both.
ErrorHolds(err) ==
    /\ err.suspended \/ err.denied \/ err.worded \/ err.state \in SqlStates \ {"08xxx", "53xxx", "none"} =>
          HttpStatusOf(err.status) # 0 \/ DataErrorStatus(err) \in 400 .. 499
    /\ ~ err.suspended /\ ~ err.denied /\ ~ err.worded /\ err.status = 0 /\ err.state \in {"08xxx", "53xxx"} =>
          DataErrorStatus(err) = 500 /\ QueryErrorStatus(err) = 500
=============================================================================
