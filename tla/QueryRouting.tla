---------------------------- MODULE QueryRouting -----------------------------
(* Where a query is read and a mutation is written, which of the roads of     *)
(* executeQuery a SELECT takes, and how many rows it may return.              *)
EXTENDS Integers, FiniteSets, Sequences, SequencesExt

None == -1

----------------------------------------------------------------------------
(* Resolving a resource of the catalog                                       *)

\* A catalog entry of one resource name: the source that holds it.  "hub" is
\* the fabric's own Postgres; "pg" is another one.
SourceNames == {"hub", "pg", "my", "mo"}
EngineOf(s) == CASE s \in {"hub", "pg"} -> "POSTGRES" [] s = "my" -> "MYSQL" [] s = "mo" -> "MONGODB"
Entries == [source : SourceNames, sync : {"VIRTUAL", "SYNC", "CDC"}, kind : {"TABLE", "MATERIALIZED_VIEW"}]

LocalLeg == [source |-> "hub", engine |-> "POSTGRES", reachable |-> TRUE]
NotFound == [source |-> "none", engine |-> "none", reachable |-> FALSE]
LegOf(e) == [source |-> e.source, engine |-> EngineOf(e.source), reachable |-> e.sync \in {"SYNC", "CDC"}]

\* ORDER BY (ds.type != 'POSTGRES') DESC LIMIT 1: any of the first.
Preferred(entries) ==
    IF \E e \in entries : EngineOf(e.source) # "POSTGRES"
    THEN {e \in entries : EngineOf(e.source) # "POSTGRES"} ELSE entries

\* resolveLegUncached without a source: other engines before the hub.
ResolveUnnamed(entries) ==
    IF entries = {} THEN {LocalLeg}
    ELSE {IF EngineOf(e.source) = "POSTGRES" \/ e.kind = "MATERIALIZED_VIEW" THEN LocalLeg ELSE LegOf(e) :
             e \in Preferred(entries)}

\* resolveLegUncached with a source (or the override for queries without one);
\* a source that does not list the resource is read all the same.
ResolveNamed(entries, source, sources) ==
    LET here == {e \in entries : e.source = source}
    IN  IF here # {} THEN {IF e.kind = "MATERIALIZED_VIEW" THEN LocalLeg ELSE LegOf(e) : e \in here}
        ELSE IF source \in sources THEN {LegOf([source |-> source, sync |-> "VIRTUAL"])} ELSE {NotFound}

ResolveLeg(entries, source, override, sources) ==
    LET effective == IF source = "none" THEN override ELSE source
    IN  IF effective \in {"none", "hub"} THEN ResolveUnnamed(entries)
        ELSE ResolveNamed(entries, effective, sources)

\* resolveTarget: the named source first, then any source that has the table.
ResolveTarget(entries, source, override) ==
    LET named == IF source = "none" THEN entries ELSE {e \in entries : e.source = source}
        found == IF named # {} THEN named ELSE entries
    IN  IF found # {} THEN {IF e.kind = "MATERIALIZED_VIEW" THEN "hub" ELSE e.source : e \in Preferred(found)}
        ELSE IF override # "none" THEN {override} ELSE {"hub"}

----------------------------------------------------------------------------
(* classify and the roads of executeQuery                                    *)

\* A leg of the query: its engine and physical database, whether the hub holds
\* a copy, how its connection is configured.  Database "X" and "x" differ.
Legs == {[engine |-> "POSTGRES", db |-> "hub", reachable |-> TRUE, form |-> "local"],
         [engine |-> "MYSQL", db |-> "x", reachable |-> TRUE, form |-> "parts"]}
        \cup [engine : {"MYSQL", "MONGODB", "ELASTICSEARCH"}, db : {"x", "y"}, reachable : {FALSE},
              form : {"parts", "uri"}]
        \cup {[engine |-> "MONGODB", db |-> "X", reachable |-> FALSE, form |-> "uri"]}

Shapes == [joins : BOOLEAN, setOps : BOOLEAN, with : BOOLEAN, derived : BOOLEAN]

Relational == {"POSTGRES", "MYSQL", "ORACLE", "SNOWFLAKE"}

\* connFingerprint: what the configuration says, in lower case.
LowerCase(db) == IF db = "X" THEN "x" ELSE db
ConnFingerprint(leg) == <<leg.engine, leg.form, LowerCase(leg.db)>>

Connector(legs) == {l \in legs : ~l.reachable}

\* The copies in the hub are forgotten.
CoLocatableIgnoringHub(legs) ==
    /\ Connector(legs) # {} /\ Cardinality({ConnFingerprint(l) : l \in Connector(legs)}) = 1
    /\ \A l \in Connector(legs) : l.engine \in Relational \cup {"MONGODB"}

CoLocatable(legs) ==
    /\ legs # {} /\ Connector(legs) = legs
    /\ Cardinality({ConnFingerprint(l) : l \in legs}) = 1
    /\ \A l \in legs : l.engine \in Relational \cup {"MONGODB"}

Nested(q) == q.with \/ q.derived

Classify(legs, q) ==
    IF Nested(q) /\ Connector(legs) # {} /\ ~CoLocatable(legs) THEN "error"
    ELSE IF CoLocatable(legs) /\ (q.joins \/ q.setOps \/ Nested(q)) THEN "COLOCATED"
    ELSE IF Connector(legs) = {} /\ Cardinality({l \in legs : l.form # "local"}) <= 1 THEN "SINGLE_LOCAL"
    ELSE IF Cardinality(legs) = 1 /\ ~q.setOps /\ ~q.joins THEN "SINGLE_CONNECTOR"
    ELSE "CROSS_ENGINE"

\* A Mongo pipeline is sent before policies are looked at; SQL is refused when
\* a policy is active; whatever fails is federated.
ColocatedRoad(legs, policy, fails) ==
    IF fails THEN "federation"
    ELSE IF \E l \in legs : l.engine = "MONGODB" THEN "colocated"
    ELSE IF policy THEN "federation" ELSE "colocated"

Road(legs, q, env) ==
    LET strategy == Classify(legs, q)
    IN  CASE strategy = "error" -> "error"
          [] strategy = "COLOCATED" -> ColocatedRoad(legs, env.policy, env.fails)
          [] strategy = "SINGLE_LOCAL" -> "local"
          [] strategy = "CROSS_ENGINE" /\ ~env.admin /\ ~env.feature -> "refused"
          [] OTHER -> "federation"

----------------------------------------------------------------------------
(* Row limits                                                                *)

Least(a, b) == IF a = None THEN b ELSE IF b = None THEN a ELSE IF a < b THEN a ELSE b

\* applyRowCeiling: both limits are clamped, a missing or zero one is the cap.
ApplyRowCeiling(request, cap, admin) ==
    LET clamp(v) == IF v > 0 THEN Least(v, cap) ELSE cap
    IN  IF admin \/ cap = None THEN request
        ELSE [limit |-> clamp(request.limit),
              inner |-> IF request.inner = None THEN None ELSE clamp(request.inner)]

\* The unbounded guards: a legacy request without limit and filter, an AST
\* query without where, limit, set operation or aggregate.
Unbounded(request, road, filtered, aggregated) ==
    ~filtered /\ ~aggregated /\ (IF road = "legacy" THEN request.limit = None
                                 ELSE request.limit <= 0 /\ request.inner <= 0)

First(n, limit) == IF limit > 0 THEN Least(n, limit) ELSE n

\* Rows of n that each road returns.  A recursive traversal is cut at the
\* outer limit; a window's base rows are limited by the cap alone, its result
\* by the outer limit; an AST query prefers the limit of its AST; a derived
\* table is cut after its inner query ran.
RecursiveRows(n, r) == First(n, r.limit)
WindowRows(n, r, cap, admin) ==
    First(First(n, ApplyRowCeiling([limit |-> None, inner |-> None], cap, admin).limit), r.limit)
EffectiveLimit(r) == IF r.inner # None THEN r.inner ELSE IF r.limit > 0 THEN r.limit ELSE None
AstRows(n, r) == Least(n, EffectiveLimit(r))
DerivedRows(n, r, cap, admin) ==
    First(First(n, ApplyRowCeiling([limit |-> None, inner |-> None], cap, admin).limit), EffectiveLimit(r))
LegacyRows(n, r) == First(n, r.limit)
VirtualRows(n, r) == First(n, r.limit)

\* A view is replaced by its query, with the caller's AST limit or its own.
ExpandView(r, viewLimit) ==
    LET inner == IF r.inner = None THEN viewLimit ELSE r.inner
    IN  [limit |-> IF r.limit > 0 THEN r.limit ELSE inner, inner |-> inner]

\* fetch: a hundred rows unless told otherwise.
FetchRequest(limit) == [limit |-> IF limit = None THEN 100 ELSE limit, inner |-> None]

RowsOf(road, n, request, viewLimit, cap, admin) ==
    LET r == ApplyRowCeiling(request, cap, admin)
    IN  CASE road = "recursive" -> RecursiveRows(n, r)
          [] road = "window" -> WindowRows(n, r, cap, admin)
          [] road = "ast" -> AstRows(n, r)
          [] road = "view" -> AstRows(n, ApplyRowCeiling(ExpandView(r, viewLimit), cap, admin))
          [] road = "derived" -> DerivedRows(n, r, cap, admin)
          [] road = "legacy" -> LegacyRows(n, r)
          [] road = "virtual" -> VirtualRows(n, r)

LimitRoads == {"recursive", "window", "ast", "view", "derived", "legacy", "virtual"}

----------------------------------------------------------------------------
(* Filters and inserted rows, wherever they are turned into SQL              *)

NullValue == 0
FilterOps == {"$eq", "$ne", "$gt", "$in", "$like", "$exists"}
Compare(op, x, v) == CASE op \in {"$eq", "$like", "$in"} -> x = v [] op = "$ne" -> x # v [] op = "$gt" -> x > v

\* generateSql: NULL is IS NULL, an unknown operator throws.
GenerateFilter(op, x, v) ==
    CASE op = "$exists" -> "error"
      [] v = NullValue /\ op \in {"$eq", "$ne"} -> (IF (x = NullValue) = (op = "$eq") THEN "yes" ELSE "no")
      [] x = NullValue \/ v = NullValue -> "no"
      [] OTHER -> (IF Compare(op, x, v) THEN "yes" ELSE "no")

\* buildWhere: NULL matches nothing, an unknown operator is equality.
BuildWhere(op, x, v) ==
    IF x = NullValue \/ v = NullValue THEN "no"
    ELSE IF Compare(IF op = "$exists" THEN "$eq" ELSE op, x, v) THEN "yes" ELSE "no"

\* applyHaving, in the fabric: an operator it does not know is equality.
ApplyHaving(op, x, v) ==
    IF (CASE op = "$ne" -> x # v [] op = "$gt" -> x # NullValue /\ v # NullValue /\ x > v [] OTHER -> x = v)
    THEN "yes" ELSE "no"

\* Rows are functions from some of the columns to values; "default" and NULL
\* are what the table stores for a column a statement does not give.
InsertAllColumns(rows) ==
    LET columns == UNION {DOMAIN rows[i] : i \in DOMAIN rows}
    IN  [i \in DOMAIN rows |-> [c \in columns |-> IF c \in DOMAIN rows[i] THEN rows[i][c] ELSE "default"]]

\* buildMutationSql takes the columns of the first row.
InsertFirstColumns(rows) ==
    [i \in DOMAIN rows |-> [c \in DOMAIN rows[1] |-> IF c \in DOMAIN rows[i] THEN rows[i][c] ELSE "null"]]

----------------------------------------------------------------------------
(* Properties                                                                *)

\* A mutation goes where a query of the same resource reads, when at most one
\* source can be meant and no override is set (resolveTarget, resolveLeg).
ReadsSeeWrites(entries, source) ==
    /\ Cardinality({e.source : e \in entries}) = 1 /\ \A e \in entries : source \in {"none", e.source}
    /\ \A e \in entries : e.source # "pg" \/ source = "pg"
    => {l.source : l \in ResolveLeg(entries, source, "none", SourceNames)}
         = ResolveTarget(entries, source, "none")

\* The reader of each road can see every leg: the hub holds a copy of all of
\* them, or they are in one database (whose name differs from no other's by
\* case only); relational pushdown yields to policies; what is refused was a
\* nested query over several engines or a feature the plan lacks.
RoadReadsAll(legs, q, env) ==
    LET road == Road(legs, q, env)
    IN  /\ road = "local" => \A l \in legs : l.reachable
        /\ road = "colocated" =>
             /\ \A l \in legs : ~l.reachable
             /\ Cardinality({l.engine : l \in legs}) = 1
             /\ Cardinality({l.db : l \in legs}) = 1 \/ {"x", "X"} \subseteq {l.db : l \in legs}
             /\ env.policy => \A l \in legs : l.engine = "MONGODB"
        /\ road = "error" => Nested(q) /\ Connector(legs) # {}
        /\ road = "refused" => ~env.feature /\ ~env.admin

\* No road returns more rows than the ceiling of a caller who has one, and an
\* accepted query without a filter at most as many as a limit it was given.
\* (Not so: windows and traversals obey the outer limit only, a LIMIT 0 is
\* raised to the cap or, on the legacy road, is no limit at all.)
RowsBounded(road, n, request, viewLimit, cap, admin) ==
    LET rows == RowsOf(road, n, request, viewLimit, cap, admin)
        given == {request.limit, request.inner} \cup (IF road = "view" THEN {viewLimit} ELSE {})
    IN  /\ ~admin /\ cap # None => rows <= cap
        /\ \/ Unbounded(request, road, FALSE, FALSE)
           \/ road \in {"window", "recursive"}
           \/ 0 \in given
           \/ road \in {"virtual", "legacy"} /\ request.limit = None
           \/ \E l \in given : rows <= l
        /\ road = "ast" /\ ~Unbounded(FetchRequest(request.limit), "ast", FALSE, FALSE) =>
             RowsOf("ast", n, FetchRequest(request.limit), None, cap, admin) <= 100

\* The two writers of WHERE agree on values, and the one that treats NULL and
\* unknown operators loosely never matches a row the other would reject.
FiltersAgree(op, x, v) ==
    /\ v # NullValue /\ op # "$exists" => GenerateFilter(op, x, v) = BuildWhere(op, x, v)
    /\ v # NullValue /\ x # NullValue /\ op # "$exists" => ApplyHaving(op, x, v) = BuildWhere(op, x, v)
    /\ GenerateFilter(op, x, v) # "error" /\ BuildWhere(op, x, v) = "yes" => GenerateFilter(op, x, v) = "yes"

\* Every value of an inserted batch is stored: always by generateSql, by
\* buildMutationSql when the first row has all the columns.
InsertsKeepValues(rows) ==
    LET keeps(stored) == \A i \in DOMAIN rows : \A c \in DOMAIN rows[i] :
                            c \in DOMAIN stored[i] /\ stored[i][c] = rows[i][c]
    IN  /\ keeps(InsertAllColumns(rows))
        /\ (\A i \in DOMAIN rows : DOMAIN rows[i] \subseteq DOMAIN rows[1]) => keeps(InsertFirstColumns(rows))

----------------------------------------------------------------------------
(* Names: schemas, calls, views                                              *)

\* A name as a request writes it: its parts between underscores once other
\* characters are gone, and whether there were none.
Plain(name) == [name |-> name, plain |-> TRUE]
Missing == Plain(<< >>)
Home(tenant) == <<"tenant", tenant>>

\* belongsToTenant
BelongsTo(name, tenant) == IsPrefix(Home(tenant), name)

\* RESERVED_SCHEMA_RE
Reserved(name) ==
    \/ name \in {<<"public">>, <<"information", "schema">>, <<"cron">>}
    \/ Len(name) > 1 /\ Head(name) \in {"pg", "fabric"}

Reached(name) == [answer |-> "ok", name |-> name]
Refused(why) == [answer |-> why, name |-> << >>]

\* toTenantSchemaName
ToTenantSchemaName(tenant, written) ==
    IF written = Missing THEN Reached(Home(tenant))
    ELSE IF written.name = << >> THEN Refused("invalid")
    ELSE IF BelongsTo(written.name, tenant) THEN Reached(written.name)
    ELSE IF Reserved(written.name) THEN Refused("denied")
    ELSE Reached(Home(tenant) \o written.name)

\* hubSchemaFor: what a remote catalog calls public or tenant_b is ours here.
HubSchemaFor(tenant, physical) == IF BelongsTo(physical, tenant) THEN physical ELSE Home(tenant) \o physical

\* resolveCallTarget, for the parts of the function's name
ResolveCallTarget(tenant, parts, schema) ==
    LET qualifier == parts[1] IN
    CASE Len(parts) > 2 -> Refused("denied")
      [] \E i \in DOMAIN parts : ~parts[i].plain \/ parts[i] = Missing -> Refused("invalid")
      [] Len(parts) = 1 -> ToTenantSchemaName(tenant, schema)
      [] Reserved(qualifier.name) \/ (Head(qualifier.name) = "tenant" /\ Len(qualifier.name) > 1
                                      /\ ~BelongsTo(qualifier.name, tenant)) -> Refused("denied")
      [] OTHER -> ToTenantSchemaName(tenant, qualifier)

\* The CALL road: what is answered, where it ran, whether the payments of the
\* document store were marked captured on the way (only for one procedure).
Call(c) ==
    LET target == ResolveCallTarget(c.tenant, c.parts, c.schema)
        stopped(answer) == [answer |-> answer, ran |-> << >>, captured |-> FALSE]
    IN  IF c.parts = << >> THEN stopped("invalid")
        ELSE IF target.answer # "ok" THEN stopped(target.answer)
        ELSE IF c.args > 100 THEN stopped("invalid")
        ELSE [ran |-> target.name, captured |-> c.procedure /\ c.settles /\ c.mongo,
              answer |-> CASE c.error \in {"42883", "3F000", "42501"} -> "not found"
                           [] c.error = "42P01" /\ c.procedure -> "ok"
                           [] c.error = "none" -> "ok"
                           [] OTHER -> "error"]

\* resolveMaterializedView: the hub's view of that schema, or any of that name in
\* the tenant's catalog.
ResolveMaterializedView(tenant, view, schema, hub, catalog) ==
    LET at == ToTenantSchemaName(tenant, IF schema = Plain(<<"default">>) THEN Missing ELSE schema) IN
    IF at.answer # "ok" THEN at
    ELSE IF ~view.plain THEN Refused("invalid")
    ELSE IF <<at.name, view.name>> \in hub \/ view.name \in catalog THEN at ELSE Refused("not found")

\* refreshView: the refresh goes on behind the answer, and fails there when the
\* schema is not the view's.
RefreshView(tenant, view, schema, hub, catalog) ==
    IF view = Missing THEN Refused("invalid") ELSE ResolveMaterializedView(tenant, view, schema, hub, catalog)

\* What is reached by name lies in the tenant's own schemas, a call that was
\* refused before it ran changed no store, and an accepted refresh is of a view
\* the tenant has.
NamesHold(c, physical, view, hub, catalog) ==
    LET call == Call(c)
        refresh == RefreshView(c.tenant, view, c.schema, hub, catalog)
    IN  /\ \A name \in {ToTenantSchemaName(c.tenant, c.schema).name, call.ran, refresh.name} \ {<< >>} :
             BelongsTo(name, c.tenant)
        /\ BelongsTo(HubSchemaFor(c.tenant, physical), c.tenant)
        /\ (call.ran = << >> => ~call.captured) /\ (call.answer = "ok" => call.ran # << >>)
        /\ refresh.answer = "ok" => view.name \in catalog \/ \E v \in hub : v = <<refresh.name, view.name>>

----------------------------------------------------------------------------
(* Statements of the hub                                                     *)

\* generateSql: the statement of each type, "none" when it is an empty text;
\* clauses it would leave out are in "lost".
TableTypes == {"INSERT", "UPDATE", "DELETE", "CREATE_TABLE", "DROP_TABLE", "CREATE_INDEX", "ALTER_TABLE"}
GuardedText(c) ==
    CASE c.type \in {"SELECT", "CREATE_VIEW"} -> {c.text}
      [] c.type \in {"CREATE_TABLE", "CREATE_INDEX"} -> {c.text}
      [] c.type = "ALTER_TABLE" /\ c.action = "ADD_COLUMN" -> {c.text}
      [] OTHER -> {}

GenerateSql(c) ==
    LET refuse(why) == [answer |-> why, verb |-> "none", lost |-> {}] IN
    IF c.with /\ c.text = "unsafe" THEN refuse("invalid")
    ELSE IF c.type = "SELECT" /\ c.join \in {"bad", "INNER without ON"} THEN refuse("invalid")
    ELSE IF c.type = "INSERT" /\ c.rows \in {"none", "without columns"} THEN refuse("invalid")
    ELSE IF "unsafe" \in GuardedText(c) THEN refuse("invalid")
    ELSE IF c.type = "ALTER_TABLE" /\ c.action = "other" THEN [answer |-> "ok", verb |-> "none", lost |-> {"action"}]
    ELSE IF c.type \in TableTypes /\ ~c.table THEN refuse("invalid")
    ELSE IF c.type = "SELECT" /\ ~c.table THEN refuse("invalid")
    ELSE [answer |-> "ok", verb |-> c.type, lost |-> IF c.with /\ c.type # "SELECT" THEN {"with"} ELSE {}]

\* A tenant whose row says SUSPENDED is refused; a failing lookup lets pass.
LifecycleAllows(row) == row # "SUSPENDED"

\* The legacy shape needs a filter, a limit or an aggregate.
SafetyShield(c) == c.type \in {"SELECT", "UPDATE", "DELETE"} => c.limit \/ c.filter \/ c.aggregate

\* The hub's road: the statement, its event, the index mutations, its answer.
HubWrite(c) ==
    LET statement == GenerateSql(c)
        mutation == c.type \in {"INSERT", "UPDATE", "DELETE"}
        did == LifecycleAllows(c.tenant) /\ SafetyShield(c) /\ statement.answer = "ok" /\ ~c.fails
    IN  [answer |-> IF ~did THEN "error" ELSE IF mutation THEN "rows" ELSE IF c.type = "SELECT" THEN "data" ELSE "target",
         event |-> did /\ mutation, indexed |-> did /\ mutation, ran |-> IF did THEN statement.verb ELSE "none"]

\* Text of a request reaches the database only through the grammar, a
\* mutation that ran is announced and indexed and nothing else is, and an
\* answered statement is the one that was asked for (except an ALTER of an
\* action it does not know, which runs nothing, and a WITH beside a write),
\* restricted by its filter (or by a limit, which an UPDATE then ignores).
StatementsHold(c) ==
    LET statement == GenerateSql(c)
        write == HubWrite(c)
    IN  /\ c.text = "unsafe" /\ (c.with \/ GuardedText(c) # {}) => write.ran = "none"
        /\ write.event <=> write.ran \in {"INSERT", "UPDATE", "DELETE"}
        /\ write.indexed <=> write.event
        /\ write.answer # "error" /\ statement.lost = {} => write.ran = c.type
        /\ write.ran # "none" => c.tenant # "SUSPENDED"
        /\ write.ran \in {"UPDATE", "DELETE"} /\ ~c.limit /\ ~c.aggregate => c.filter

\* A value in a statement's parameters, and written into the statement.
ValueKinds == {"null", "text", "quoted text", "number", "boolean", "list", "object"}
Bound(kind, json) == IF kind = "list" THEN (IF json THEN "json text" ELSE "array") ELSE kind
FormatInline(kind) == CASE kind = "list" -> "joined" [] kind = "object" -> "type name" [] OTHER -> kind
Stored(form, json) ==
    CASE form = "json text" -> "list" [] form = "array" -> (IF json THEN "rejected" ELSE "list")
      [] form \in {"joined", "type name"} -> "rejected" [] OTHER -> form

\* A list reaches columns of both kinds, and scalars mean the same written into
\* a statement.
ValuesHold(kind, json) ==
    /\ Stored(Bound(kind, json), json) = kind
    /\ kind \notin {"list", "object"} => Stored(FormatInline(kind), json) = Stored(Bound(kind, json), json)

----------------------------------------------------------------------------
(* Queries run in the background                                             *)

Hour == 2

\* executeAsyncQuery: a submission forgets the jobs created over an hour ago,
\* running or not; a job that ends is stored again as it was created.
Evictions(created, submissions) == {s \in submissions : s > created /\ created < s - Hour}
Kept(created, ended, submissions, now) ==
    \A s \in Evictions(created, submissions) : s <= now => ended \in s .. now
JobStatus(created, ended, submissions, now) ==
    IF ~Kept(created, ended, submissions, now) THEN "NOT_FOUND"
    ELSE IF ended \in created .. now THEN "ENDED" ELSE "PENDING"

\* getJobStatus
GetJobStatus(job, caller, submissions, now) ==
    IF caller # job.owner THEN "NOT_FOUND" ELSE JobStatus(job.created, job.ended, submissions, now)

\* The handler that polls.
PollJob(job, caller, submissions, now) ==
    IF GetJobStatus(job, caller, submissions, now) = "NOT_FOUND" THEN 404 ELSE 200

\* Who submitted a query reads its state for an hour, whatever else is
\* submitted, and its result right after it ended; nobody else sees it exists;
\* and an ended query never looks as if it still ran.
JobsHold(job, caller, submissions, now) ==
    LET status == GetJobStatus(job, caller, submissions, now) IN
    /\ caller = job.owner /\ now \in job.created .. job.created + Hour => PollJob(job, caller, submissions, now) = 200
    /\ caller = job.owner /\ now = job.ended => status = "ENDED"
    /\ caller # job.owner => PollJob(job, caller, submissions, now) = 404
    /\ status = "PENDING" => job.ended \notin job.created .. now

----------------------------------------------------------------------------
(* Generated values, and constraints of tables in sources that have none     *)

\* FabricWriteGenerators.resolve: the value, and the search path that the
\* connection is left with.
Resolve(tenant, rule, fallback, path) ==
    CASE rule.kind = "uuid" -> [answer |-> "uuid", path |-> path]
      [] rule.kind = "sequence" -> [answer |-> "next", path |-> path]
      [] rule.kind = "function" ->
           LET logical == IF rule.schema # "none" THEN rule.schema ELSE fallback
               left == IF logical # "none" THEN Home(tenant) \o <<logical>> ELSE path
           IN  [answer |-> "call", path |-> left]
      [] OTHER -> [answer |-> "error", path |-> path]

\* apply: field by field; the document it makes, what each function ran under.
Apply(tenant, doc, rules, fallback, path) ==
    LET after[i \in 0 .. Len(rules)] ==
            IF i = 0 THEN path ELSE Resolve(tenant, rules[i], fallback, after[i - 1]).path
        answers == {Resolve(tenant, rules[i], fallback, path).answer : i \in DOMAIN rules}
    IN  [answer |-> IF "error" \in answers THEN "error" ELSE "ok", ran |-> after,
         doc |-> [f \in DOMAIN doc \cup {rules[i].field : i \in DOMAIN rules} |->
                    IF \E i \in DOMAIN rules : rules[i].field = f THEN "generated" ELSE doc[f]]]

\* Generated fields replace what was sent, the others stay, and a function with
\* a schema runs in its tenant's.  (One without runs where the connection was
\* left by whoever used it before.)
GeneratorsHold(tenant, doc, rules, fallback, path) ==
    LET made == Apply(tenant, doc, rules, fallback, path) IN
    /\ made.answer = "error" <=> \E i \in DOMAIN rules : rules[i].kind = "other"
    /\ \A f \in DOMAIN made.doc : made.doc[f] # "generated" => f \in DOMAIN doc /\ \A i \in DOMAIN rules : rules[i].field # f
    /\ \A i \in DOMAIN rules :
         rules[i].kind = "function" /\ (rules[i].schema # "none" \/ fallback # "none") => BelongsTo(made.ran[i], tenant)

\* A CHECK: alternatives (OR) of conjunctions of comparisons of the column, each
\* "compare" a number, "match" or "imatch" a pattern, or "other".
\* parseCheckExpression: the comparisons that are understood.
ParseCheckExpression(part) == part.kind \in {"compare", "match", "imatch"}

\* The text is cut at AND, whatever it binds: what stands alone between two ANDs
\* is a check, what touches an OR is dropped.
Parsed(check) ==
    LET alone(i, j) == (j = 1 => i = 1) /\ (j = Len(check[i]) => i = Len(check))
        heard(i) == {j \in DOMAIN check[i] : ParseCheckExpression(check[i][j]) /\ alone(i, j)}
    IN  UNION {{check[i][j] : j \in heard(i)} : i \in DOMAIN check}

\* specFromManifestTable: an enum is known by a reference, not as a type.
SpecFromManifestTable(column, check) ==
    [notNull |-> column.notNull \/ column.primaryKey, unique |-> column.unique \/ column.primaryKey,
     enum |-> column.enum = "reference", fk |-> column.fk, checks |-> Parsed(check)]

Present(v) == v.kind # "absent"
Filled(v) == v.kind \in {"number", "text"}

\* evalCheck: a null passes, a pattern always minds case, equality the type.
NumberTest(part, v) ==
    CASE part.op = "GT" -> v.n > part.n [] part.op = "LTE" -> v.n <= part.n
      [] part.op = "EQ" -> v.n = part.n [] part.op = "NEQ" -> v.n # part.n
EvalCheck(part, v) ==
    \/ ~Filled(v)
    \/ part.kind \in {"match", "imatch"} /\ v.n = part.n
    \/ part.kind = "compare" /\
         CASE part.op = "EQ" -> v.kind = "number" /\ v.n = part.n
           [] part.op = "NEQ" -> v.kind # "number" \/ v.n # part.n
           [] OTHER -> NumberTest(part, v)

\* validate, with the values that other rows have, and those referenced rows have.
Validate(spec, v, op, taken, parents, allowed) ==
    {r \in {"NOT_NULL", "ENUM", "UNIQUE", "FOREIGN_KEY"} :
        CASE r = "NOT_NULL" -> spec.notNull /\ (op = "create" \/ Present(v)) /\ ~Filled(v)
          [] r = "ENUM" -> spec.enum /\ Filled(v) /\ v.n \notin allowed
          [] r = "UNIQUE" -> spec.unique /\ Filled(v) /\ v.n \in taken
          [] OTHER -> spec.fk /\ Filled(v) /\ v.n \notin parents}
    \cup {"CHECK" : p \in {q \in spec.checks : (op = "update" => Present(v)) /\ ~EvalCheck(q, v)}}

\* What Postgres refuses of the same declarations.
MatchTest(part, v) == IF part.kind = "imatch" THEN v.n \in {part.n, part.n + 1} ELSE v.n = part.n
PostgresTest(part, v) ==
    \/ ~Filled(v)
    \/ CASE part.kind = "compare" -> NumberTest(part, v) [] part.kind = "other" -> v.n = 0 [] OTHER -> MatchTest(part, v)
PostgresRefuses(column, check, v, op, taken, parents, allowed) ==
    /\ op = "create" \/ Present(v)
    /\ \/ ~Filled(v) /\ (column.notNull \/ column.primaryKey)
       \/ Filled(v) /\ (column.unique \/ column.primaryKey) /\ v.n \in taken
       \/ Filled(v) /\ column.fk /\ v.n \notin parents
       \/ Filled(v) /\ column.enum # "none" /\ v.n \notin allowed
       \/ check # << >> /\ \A i \in DOMAIN check : \E j \in DOMAIN check[i] : ~PostgresTest(check[i][j], v)

\* A document source refuses a row exactly when Postgres would, unless a check
\* is not understood, has alternatives, ignores case or compares for equality a
\* number that was sent as text, or the enum is named as the column's type; and
\* alternatives that stand alone, or a check in part understood, refuse no more.
ConstraintsHold(column, check, v, op, taken, parents, allowed) ==
    LET refused == Validate(SpecFromManifestTable(column, check), v, op, taken, parents, allowed) # {}
        parts == UNION {{check[i][j] : j \in DOMAIN check[i]} : i \in DOMAIN check}
        exact == /\ Len(check) <= 1 /\ column.enum # "type"
                 /\ \A p \in parts : p.kind \in {"compare", "match"}
                 /\ \A p \in parts : p.op \in {"EQ", "NEQ"} => v.kind # "text"
    IN  /\ exact => (refused <=> PostgresRefuses(column, check, v, op, taken, parents, allowed))
        /\ (Len(check) <= 1 \/ \A i \in DOMAIN check : Len(check[i]) = 1)
           /\ (\A p \in parts : p.kind # "imatch" /\ (p.kind = "compare" => p.op # "EQ")) =>
             (refused => PostgresRefuses(column, check, v, op, taken, parents, allowed))

----------------------------------------------------------------------------
(* The log of queries: query-log.service.ts                                  *)

\* record: what the answer says of its rows, or how many it has; what its plan
\* says was scanned, or what its legs returned.  Storing may fail, unnoticed.
Recorded(envelope, status) ==
    [status |-> status,
     rows |-> IF envelope.rowCount # None THEN envelope.rowCount ELSE envelope.data,
     scanned |-> IF envelope.scanned # None THEN envelope.scanned ELSE FoldSeq(LAMBDA n, sum : n + sum, 0, envelope.legs)]
NoEnvelope == [rowCount |-> None, data |-> None, scanned |-> None, legs |-> << >>]

\* capture: the answer or the error is passed on.
Capture(answer, stores) ==
    LET entry == IF answer.fails THEN Recorded(NoEnvelope, "ERROR") ELSE Recorded(answer.envelope, "SUCCESS")
    IN  [passed |-> answer, stored |-> IF stores THEN <<entry>> ELSE << >>]

\* A query is answered as if it were not logged, and what is logged of its rows
\* is what was sent.
LogKeeps(answer, stores) ==
    LET out == Capture(answer, stores)
    IN  /\ out.passed = answer
        /\ \A i \in DOMAIN out.stored :
              /\ (out.stored[i].status = "ERROR") = answer.fails
              /\ answer.fails \/ out.stored[i].rows \in {answer.envelope.rowCount, answer.envelope.data} \ {None}
              /\ ~answer.fails /\ answer.envelope.rowCount = answer.envelope.data => out.stored[i].rows = answer.envelope.data

\* list: 200 entries unless asked otherwise, one at least and 1000 at most, the
\* newest first, of the tenant and with the status and mode asked for.  Of the few
\* entries here, 2 and 3.
Listed == 2
ListedAtMost == 3
ListLimit(asked) ==
    LET wanted == IF asked \in {None, 0} THEN Listed ELSE asked
    IN  IF wanted < 1 THEN 1 ELSE IF wanted > ListedAtMost THEN ListedAtMost ELSE wanted
ListLogs(logs, tenant, status, asked) ==
    LET fits(l) == l.tenant = tenant /\ status \in {"any", l.status}
        newest == SelectSeq(Reverse(logs), fits)
    IN  SubSeq(newest, 1, Least(Len(newest), ListLimit(asked)))

\* getUsageAnalytics: the entries counted by user and role, the larger groups
\* first; each user of the workspace, with what the last group of that name says.
\* Entries without a user are those of "anonymous", without a role of "MEMBER".
ShownUser(l) == IF l.user = "none" THEN "anonymous" ELSE l.user
ShownRole(role) == IF role = "none" THEN "MEMBER" ELSE role
LogGroups(logs) == {[user |-> l.user, role |-> l.role] : l \in ToSet(logs)}
GroupCount(logs, g) == Len(SelectSeq(logs, LAMBDA l : l.user = g.user /\ l.role = g.role))
GroupsOf(logs, name) == {g \in LogGroups(logs) : ShownUser(g) = name}
LastGroups(logs, name) ==
    {g \in GroupsOf(logs, name) : \A h \in GroupsOf(logs, name) : GroupCount(logs, g) <= GroupCount(logs, h)}

\* The list of users, one for each way equal groups may be ordered.
UsersLists(logs, registered) ==
    LET logged == {ShownUser(l) : l \in ToSet(logs)}
        last == {f \in [logged -> LogGroups(logs)] : \A n \in logged : f[n] \in LastGroups(logs, n)}
    IN  {[n \in DOMAIN registered \cup logged |->
             IF n \in logged THEN [count |-> GroupCount(logs, f[n]), role |-> ShownRole(f[n].role)]
             ELSE [count |-> 0, role |-> registered[n]]] : f \in last}

\* perRole: four roles always, others when someone has them.
RoleCounts(users) ==
    [r \in {"ADMIN", "DEVELOPER", "ANALYST", "VIEWER"} \cup {users[n].role : n \in DOMAIN users} |->
        LET holders == {n \in DOMAIN users : users[n].role = r}
        IN  [users |-> Cardinality(holders), queries |-> FoldSet(LAMBDA n, sum : sum + users[n].count, 0, holders)]]

\* Every query is counted for its user and for one role, and every user of the
\* workspace is listed, unless one user ran queries in two roles.
UsageHolds(logs, registered) ==
    LET twoRoles == \E l \in ToSet(logs) : Cardinality(GroupsOf(logs, ShownUser(l))) > 1
        total(f, key(_)) == FoldSet(LAMBDA x, sum : sum + key(f[x]), 0, DOMAIN f)
    IN  \A users \in UsersLists(logs, registered) :
            LET roles == RoleCounts(users)
            IN  /\ DOMAIN registered \subseteq DOMAIN users
                /\ total(users, LAMBDA u : u.count) = total(roles, LAMBDA r : r.queries)
                /\ total(roles, LAMBDA r : r.users) = Cardinality(DOMAIN users)
                /\ twoRoles \/ total(users, LAMBDA u : u.count) = Len(logs)

\* The newest entries of one's own tenant are listed, as many as asked for
\* within the bounds.
ListHolds(logs, tenant, status, asked) ==
    LET got == ListLogs(logs, tenant, status, asked)
    IN  /\ \A i \in DOMAIN got : got[i].tenant = tenant
        /\ Len(got) <= ListedAtMost
        /\ asked < None => Len(got) <= 1
        /\ asked \in Len(logs) .. ListedAtMost \ {0} => ToSet(got) = {l \in ToSet(logs) : l.tenant = tenant /\ status \in {"any", l.status}}
        /\ \A i, j \in DOMAIN got : i < j => got[i].at > got[j].at
=====
