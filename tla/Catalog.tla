------------------------------- MODULE Catalog -------------------------------
(* The catalog of sources: what a crawl lists, what an apply records, what an *)
(* export and the resource pages give back, and the older plan-and-migrate    *)
(* road to the hub.                                                          *)
EXTENDS Integers, Sequences, FiniteSets
LOCAL INSTANCE SequencesExt

Names == {"a", "b"}
Engines == {"HUB", "POSTGRES", "MYSQL", "MONGODB", "SNOWFLAKE", "ELASTICSEARCH", "ORACLE"}
Routines == {"FUNCTION", "PROCEDURE"}
Relations == {"TABLE", "VIEW", "MATERIALIZED_VIEW", "FOREIGN_TABLE", "SEQUENCE"}
ColumnKinds == {"TABLE", "VIEW", "MATERIALIZED_VIEW", "FOREIGN_TABLE"}
Kinds == Relations \cup Routines \cup {"ENUM", "TRIGGER", "POLICY"}

----------------------------------------------------------------------------
(* Discovery: the objects of a schema, in the groups a connector lists them. *)
(* A query the connector may do without answers only when `optional` holds.  *)

OfKind(objs, kinds) == {o \in objs : o.kind \in kinds}
ViewOrTable(o) == [o EXCEPT !.kind = IF o.kind \in {"VIEW", "MATERIALIZED_VIEW"} THEN "VIEW" ELSE "TABLE"]
IfAnswered(optional, group) == IF optional THEN group ELSE {}

PostgresTables(objs, optional) ==
    <<OfKind(objs, Relations), IfAnswered(optional, OfKind(objs, Routines)), IfAnswered(optional, OfKind(objs, {"ENUM"}))>>
MySqlTables(objs, optional) ==
    <<{ViewOrTable(o) : o \in OfKind(objs, {"TABLE", "VIEW"})}, IfAnswered(optional, OfKind(objs, Routines))>>
MongoTables(objs) == <<OfKind(objs, {"TABLE", "VIEW"})>>
SnowflakeTables(objs, optional) ==
    <<{ViewOrTable(o) : o \in OfKind(objs, {"TABLE", "VIEW", "MATERIALIZED_VIEW"})},
      IfAnswered(optional, OfKind(objs, {"SEQUENCE"})), IfAnswered(optional, OfKind(objs, {"FUNCTION"}))>>
ElasticTables(objs) == <<OfKind(objs, {"TABLE"})>>
OracleTables(objs, optional) ==
    <<OfKind(objs, {"TABLE"}), IfAnswered(optional, OfKind(objs, {"VIEW"})),
      IfAnswered(optional, OfKind(objs, {"SEQUENCE"})), IfAnswered(optional, OfKind(objs, Routines))>>

DiscoverTables(engine, objs, optional) ==
    CASE engine \in {"HUB", "POSTGRES"} -> PostgresTables(objs, optional)
      [] engine = "MYSQL" -> MySqlTables(objs, optional)
      [] engine = "MONGODB" -> MongoTables(objs)
      [] engine = "SNOWFLAKE" -> SnowflakeTables(objs, optional)
      [] engine = "ELASTICSEARCH" -> ElasticTables(objs)
      [] engine = "ORACLE" -> OracleTables(objs, optional)

\* Oracle lists the owners of tables only.
DiscoverSchemas(source) ==
    {i \in DOMAIN source.schemas : source.engine = "ORACLE" => OfKind(source.schemas[i].objs, {"TABLE"}) # {}}

----------------------------------------------------------------------------
(* Crawling                                                                  *)

Row(kind, ast) == [kind |-> kind, ast |-> ast]
Listed(groups) == {o.name : o \in UNION {groups[i] : i \in DOMAIN groups}}

\* The upserts of one schema, in the order listed: of two objects of one name
\* the later one gives the kind.  What an apply recorded stays.
UpsertTables(catalog, groups) ==
    LET with(n) == {i \in DOMAIN groups : \E o \in groups[i] : o.name = n}
        last(n) == CHOOSE i \in with(n) : \A j \in with(n) : j <= i
        kind(n) == (CHOOSE o \in groups[last(n)] : o.name = n).kind
    IN  [n \in DOMAIN catalog \cup Listed(groups) |->
            IF n \notin Listed(groups) THEN catalog[n]
            ELSE Row(kind(n), IF n \in DOMAIN catalog THEN catalog[n].ast ELSE "none")]

\* The relationships are written with their errors swallowed inside the crawl's
\* transaction: one that fails aborts it.  The next schema then raises; after
\* the last schema COMMIT rolls back and the crawl reports success.
CrawlSource(source, catalogs) ==
    LET found == DiscoverSchemas(source)
        aborting == {i \in found : source.schemas[i].relFails}
        stored == [i \in DOMAIN source.schemas |->
                      IF i \notin found THEN catalogs[i]
                      ELSE UpsertTables(catalogs[i], DiscoverTables(source.engine, source.schemas[i].objs, source.optional))]
    IN  CASE source.state = "missing" -> [status |-> "NOT_FOUND", catalogs |-> catalogs]
          [] source.state = "local" -> [status |-> "LOCAL", catalogs |-> catalogs]
          [] source.state = "dummy" -> [status |-> "none", catalogs |-> catalogs]
          [] source.state = "down" -> [status |-> "ERROR", catalogs |-> catalogs]
          [] OTHER -> IF aborting = {} THEN [status |-> "CRAWLED", catalogs |-> stored]
                      ELSE IF \A i \in aborting, j \in found : j <= i THEN [status |-> "CRAWLED", catalogs |-> catalogs]
                      ELSE [status |-> "ERROR", catalogs |-> catalogs]

\* Every source is tried; then the hub's own schema is listed, under the
\* schema row of a local source or, without one, under a row of no source.
CrawlTenant(sources, catalogs, hub) ==
    [sources |-> [i \in DOMAIN sources |-> CrawlSource(sources[i], catalogs[i])],
     under |-> IF hub.rows = {} THEN "none" ELSE IF "local" \in hub.rows THEN "local" ELSE "none",
     catalog |-> UpsertTables(hub.catalog, PostgresTables(hub.objs, TRUE))]

CrawlLists(source, catalogs) ==
    LET r == CrawlSource(source, catalogs)
        fails == \E i \in DOMAIN source.schemas : source.schemas[i].relFails
    IN  /\ r.status = "CRAWLED" /\ ~fails =>
              \A i \in DOMAIN source.schemas :
                 LET objs == source.schemas[i].objs
                     c == r.catalogs[i]
                 IN  /\ \A n \in DOMAIN catalogs[i] : n \in DOMAIN c /\ c[n].ast = catalogs[i][n].ast
                     /\ source.optional /\ source.engine = "POSTGRES" =>
                           \A o \in objs : o.name \in DOMAIN c /\ \E p \in objs : p.name = o.name /\ p.kind = c[o.name].kind
                     /\ \A o \in OfKind(objs, {"TABLE"}) : o.name \in DOMAIN c
                     /\ \A n \in DOMAIN c : n \in DOMAIN catalogs[i] \/ \E o \in objs : o.name = n
        /\ r.status # "CRAWLED" => r.catalogs = catalogs
        /\ CrawlSource(source, r.catalogs) = r

TenantCrawlContinues(sources, catalogs, hub) ==
    LET r == CrawlTenant(sources, catalogs, hub)
    IN  /\ \A i \in DOMAIN sources : CrawlLists(sources[i], catalogs[i])
        /\ \A o \in hub.objs : o.name \in DOMAIN r.catalog
        /\ hub.rows # {} => r.under \in hub.rows

----------------------------------------------------------------------------
(* persistMetadataState: what an apply records of a schema's resources       *)

\* The definition recorded is the manifest's resource, by its kind.
Persist(catalog, resources) ==
    [n \in DOMAIN catalog \cup {r.name : r \in resources} |->
        IF \E r \in resources : r.name = n
        THEN LET r == CHOOSE q \in resources : q.name = n IN Row(r.kind, r.kind) ELSE catalog[n]]

----------------------------------------------------------------------------
(* Columns: live ones, as connectors report them, and as a manifest has them.*)
(* `seen` columns occur in the documents a Mongo collection is sampled by.   *)

Columns == [name : {"x", "y"}, notNull : BOOLEAN, pk : BOOLEAN, seen : BOOLEAN]
Reported(c, nullable, pk) == [name |-> c.name, nullable |-> nullable, pk |-> pk]
Flag(b) == IF b THEN "true" ELSE "false"

PostgresColumns(cols) == {Reported(c, Flag(~c.notNull), c.pk) : c \in cols}
MySqlColumns(cols) == {Reported(c, IF c.notNull THEN "0" ELSE "1", c.pk) : c \in cols}
MongoColumns(cols) == {Reported(c, "true", c.pk) : c \in {d \in cols : d.seen}}
SnowflakeColumns(cols) == {Reported(c, Flag(~c.notNull), FALSE) : c \in cols}
ElasticColumns(cols) == {Reported(c, "true", FALSE) : c \in cols}
OracleColumns(cols) == {Reported(c, Flag(~c.notNull), c.pk) : c \in cols}

DiscoverColumns(engine, cols) ==
    CASE engine = "POSTGRES" -> PostgresColumns(cols)
      [] engine = "MYSQL" -> MySqlColumns(cols)
      [] engine = "MONGODB" -> MongoColumns(cols)
      [] engine \in {"SNOWFLAKE", "HUB"} -> SnowflakeColumns(cols)
      [] engine = "ELASTICSEARCH" -> ElasticColumns(cols)
      [] engine = "ORACLE" -> OracleColumns(cols)

\* Inverted.
ManifestColumnInverted(c) == [name |-> c.name, required |-> c.nullable # "false", pk |-> c.pk]

\* nullable === false: the number 0 is not false.
ManifestColumn(c) == [name |-> c.name, required |-> c.nullable = "false", pk |-> c.pk]

IntrospectColumns(engine, cols, reachable) ==
    IF reachable THEN {ManifestColumn(c) : c \in DiscoverColumns(engine, cols)} ELSE {}

\* resolveColumns: the columns an apply recorded, else the live ones.
NormalizeAstColumn(c) == [name |-> c.name, nullable |-> Flag(~c.notNull /\ ~c.pk), pk |-> c.pk]
ResolveColumns(engine, astCols, cols) ==
    IF astCols # {} THEN {NormalizeAstColumn(c) : c \in astCols} ELSE DiscoverColumns(engine, cols)

----------------------------------------------------------------------------
(* Exporting a manifest                                                      *)

ExportResource(row, engine, cols, reachable) ==
    CASE row.ast # "none" -> [kind |-> row.ast, from |-> "manifest", columns |-> {}]
      [] row.ast = "none" /\ row.kind \in ColumnKinds ->
            [kind |-> IF row.kind = "FOREIGN_TABLE" THEN "TABLE" ELSE row.kind, from |-> "live",
             columns |-> IntrospectColumns(engine, cols, reachable)]
      [] OTHER -> [kind |-> row.kind, from |-> "name", columns |-> {}]

Exported(catalog) == {n \in DOMAIN catalog : catalog[n].kind \notin {"POLICY", "TRIGGER"}}

\* Relationships of a single-source export join exported tables; M:M is
\* written M:N with a bridge.
ExportRelationships(rels, exported, single) ==
    {[r EXCEPT !.cardinality = IF r.cardinality = "M:M" THEN "M:N" ELSE r.cardinality] :
        r \in {q \in rels : ~single \/ (q.from \in exported /\ q.to \in exported)}}

CollectExternalSources(refs, own) == refs \ own

ExportManifest(catalog, engine, cols, reachable, rels, refs, single) ==
    [resources |-> [n \in Exported(catalog) |-> ExportResource(catalog[n], engine, cols, reachable)],
     relationships |-> ExportRelationships(rels, Exported(catalog), single),
     warned |-> IF single THEN CollectExternalSources(refs, {"own"}) ELSE {}]

KeepsNotNull == {"HUB", "POSTGRES", "SNOWFLAKE", "ORACLE"}
KeepsPrimaryKey == {"POSTGRES", "MYSQL", "MONGODB", "ORACLE"}

\* An export names every resource, invents no constraint, loses only the ones
\* the engine's columns do not carry, and closes over its relationships.
ExportExact(catalog, engine, cols, reachable, rels, refs, single) ==
    LET e == ExportManifest(catalog, engine, cols, reachable, rels, refs, single)
        live == {n \in DOMAIN e.resources : e.resources[n].from = "live"}
    IN  /\ \A n \in DOMAIN catalog :
              n \in DOMAIN e.resources \/ catalog[n].kind \in {"POLICY", "TRIGGER"}
        /\ reachable =>
              \A n \in live, c \in cols :
                 LET out == {d \in e.resources[n].columns : d.name = c.name}
                 IN  /\ (engine # "MONGODB" \/ c.seen) => Cardinality(out) = 1
                     /\ \A d \in out : /\ d.required => c.notNull
                                       /\ d.pk => c.pk
                                       /\ c.notNull /\ engine \in KeepsNotNull => d.required
                                       /\ c.pk /\ engine \in KeepsPrimaryKey => d.pk
        /\ single => \A r \in e.relationships : r.from \in DOMAIN e.resources /\ r.to \in DOMAIN e.resources
        /\ \A r \in rels : r.from \in Exported(catalog) /\ r.to \in Exported(catalog)
                              => \E s \in e.relationships : s.from = r.from /\ s.to = r.to
        /\ single /\ e.warned = {} => refs \subseteq {"own"}

\* What was applied is exported as it was applied, crawled again or not.
AppliedIsExported(catalog, resources, objs, crawled) ==
    LET applied == Persist(catalog, resources)
        stored == IF crawled THEN UpsertTables(applied, PostgresTables(objs, TRUE)) ELSE applied
        e == ExportManifest(stored, "HUB", {}, TRUE, {}, {}, TRUE)
    IN  \A q \in resources : stored[q.name].kind \notin {"POLICY", "TRIGGER"} =>
            e.resources[q.name].from = "manifest" /\ e.resources[q.name].kind = q.kind

----------------------------------------------------------------------------
(* The page of one resource                                                  *)

Introspectable == {"VIEW", "MATERIALIZED_VIEW", "FUNCTION", "PROCEDURE", "SEQUENCE", "ENUM", "TRIGGER"}

\* resolveDefinition: from the live catalog of engines that have one in SQL.
ResolveDefinition(kind, engine, reachable) ==
    /\ reachable
    /\ \/ engine \in {"HUB", "POSTGRES"} /\ kind \in Introspectable
       \/ engine \in {"MYSQL", "SNOWFLAKE"} /\ kind \in {"VIEW", "MATERIALIZED_VIEW"} \cup Routines

\* What a stored AST gives the renderer: text is a query or a body as a
\* string; a manifest's view may hold its query as an object.
RenderFabricDdl(kind, ast, sql, cols) ==
    CASE kind \in {"VIEW", "MATERIALIZED_VIEW"} -> ast = "text" \/ sql
      [] kind \in Routines -> ast # "none"
      [] kind \in {"SEQUENCE", "ENUM"} -> ast # "none"
      [] kind = "TRIGGER" -> ast = "text" \/ sql
      [] OTHER -> cols # {}

\* Whether the DDL of a resource is complete, or carries a note instead.
ResourceDetails(kind, row, engine, cols, reachable) ==
    LET columns == IF kind \in ColumnKinds /\ reachable THEN ResolveColumns(engine, row.astCols, cols) ELSE {}
        live == kind \in Introspectable /\ row.ast = "none" /\ ~row.sql /\ ResolveDefinition(kind, engine, reachable)
    IN  RenderFabricDdl(kind, IF live THEN "text" ELSE row.ast, row.sql, columns \cup row.astCols)

\* A reachable resource of a hub, Postgres or applied table is shown whole;
\* the sampled or stored columns of other tables too.
DetailsComplete(kind, row, engine, cols, reachable) ==
    LET whole == ResourceDetails(kind, row, engine, cols, reachable)
    IN  /\ reachable /\ engine \in {"HUB", "POSTGRES"} /\ kind # "POLICY" /\ (kind \notin ColumnKinds \/ cols # {})
              /\ (row.ast = "none" \/ row.sql \/ kind \in Routines \cup {"SEQUENCE", "ENUM"}) => whole
        /\ reachable /\ kind = "TABLE" /\ (\E c \in cols : c.seen) => whole
        /\ ~reachable /\ row.ast = "none" /\ row.astCols = {} /\ ~row.sql => ~whole

----------------------------------------------------------------------------
(* diffMetadata and migrateMetadata, over the hub's schemas of a tenant.     *)
(* hub: which schemas exist, tables with their columns, views by kind.       *)

Plan(hub, m) ==
    LET schema == [action |-> "CREATE_SCHEMA"]
        functions == IF m.function THEN <<[action |-> "CREATE_FUNCTION"]>> ELSE <<>>
        add(c) == [action |-> "ADD_COLUMN", columns |-> {c}]
        tables ==
            CASE m.columns = {} -> <<>>
              [] m.columns # {} /\ hub.table = {} -> <<[action |-> "CREATE_TABLE", columns |-> m.columns]>>
              [] OTHER -> SetToSeq({add(c) : c \in m.columns \ hub.table})
        \* information_schema.tables lists no materialized views.
        views == IF m.view = "none" \/ hub.view = "VIEW" THEN <<>> ELSE <<[action |-> "CREATE_VIEW", view |-> m.view]>>
    IN  functions \o (IF hub.schema THEN <<>> ELSE <<schema>>) \o tables \o views

\* A CREATE_SCHEMA diff carries its schema as `name`, which nothing reads: the
\* workspace's base schema is created.  DROP VIEW fails on a materialized one.
MigrateOne(hub, d) ==
    CASE hub.failed -> hub
      [] d.action = "CREATE_SCHEMA" -> [hub EXCEPT !.base = TRUE]
      [] d.action = "CREATE_FUNCTION" -> [hub EXCEPT !.schema = TRUE, !.function = TRUE]
      [] d.action = "CREATE_TABLE" ->
            [hub EXCEPT !.schema = TRUE, !.table = IF @ = {} THEN d.columns ELSE @]
      [] d.action = "ADD_COLUMN" ->
            IF hub.table = {} THEN [hub EXCEPT !.failed = TRUE]
            ELSE [hub EXCEPT !.schema = TRUE, !.table = @ \cup d.columns]
      [] d.action = "CREATE_VIEW" ->
            IF hub.view \notin {"none", d.view} \/ hub.table = {}
            THEN [hub EXCEPT !.failed = TRUE] ELSE [hub EXCEPT !.schema = TRUE, !.view = d.view]
      [] d.action = "SOFT_DELETE_TABLE" ->
            IF hub.table = {} THEN [hub EXCEPT !.failed = TRUE] ELSE [hub EXCEPT !.table = {}]

\* One transaction: all of the plan, or nothing.
Migrate(hub, plan) ==
    LET after == FoldLeft(MigrateOne, hub, plan)
    IN  IF after.failed THEN [hub EXCEPT !.failed = TRUE] ELSE after

Repeated(plan) == {plan[i].action : i \in DOMAIN plan}

\* A migrated plan leaves nothing to plan but functions and materialized views,
\* which are replaced, and an empty schema, which the plan never creates; a
\* refused one leaves the hub as it was.
PlanConverges(hub, m) ==
    LET after == Migrate(hub, Plan(hub, m))
        again == Repeated(Plan(after, m))
    IN  /\ after.failed => after = [hub EXCEPT !.failed = TRUE]
        /\ ~after.failed =>
              /\ m.columns \subseteq after.table /\ hub.table \subseteq after.table
              /\ (m.function => after.function) /\ (hub.view # "none" => after.view # "none")
              /\ "CREATE_VIEW" \in again => m.view = "MATERIALIZED" /\ after.view = "MATERIALIZED"
              /\ "CREATE_SCHEMA" \in again => m.columns = {} /\ m.view = "none" /\ ~m.function
              /\ again \subseteq {"CREATE_FUNCTION", "CREATE_VIEW", "CREATE_SCHEMA"}
        /\ after.failed => hub.view = "MATERIALIZED" \/ hub.table \cup m.columns = {}

----------------------------------------------------------------------------
(* Replication: column types, what a run copies and where to, the plan's      *)
(* limits, and what the dashboard shows.  A database maps its schemas to      *)
(* their tables, a table to its kind, its rows (by tracking value) and        *)
(* whether the engine answers COUNT for it.                                   *)

None == "none"
Unlimited == -1
Reserved == {"pg_catalog"}      \* stands for SYSTEM_SCHEMAS, one list in three files
Outbox == "fabric_cdc_outbox"   \* stands for the capture's own tables

IntegerTypes == {"BIGINT", "INTEGER", "SMALLINT"}
CanonicalType(raw) ==
    CASE raw \in {"bigint", "bigserial"} -> "BIGINT"
      [] raw = "smallint" -> "SMALLINT"
      [] raw \in {"integer", "serial", "long", "interval"} -> "INTEGER"    \* the word begins with int
      [] raw \in {"numeric", "double", "float", "money"} -> "NUMERIC"
      [] raw = "boolean" -> "BOOLEAN"
      [] raw \in {"timestamp", "datetime"} -> "TIMESTAMP"
      [] raw = "date" -> "DATE"
      [] raw = "time" -> "TIME"
      [] raw = "uuid" -> "UUID"
      [] raw \in {"jsonb", "object", "nested"} -> "JSONB"
      [] raw \in {"bytea", "blob"} -> "BYTEA"
      [] raw = "inet" -> "INET"                                           \* any other type word is kept
      [] OTHER -> "TEXT"
MysqlType(t, pk) ==
    CASE t \in {"BIGINT", "SMALLINT", "DATE"} -> t
      [] t = "INTEGER" -> "INT"
      [] t = "NUMERIC" -> "DOUBLE"
      [] t = "BOOLEAN" -> "TINYINT(1)"
      [] t = "TIMESTAMP" -> "DATETIME"
      [] t = "JSONB" -> "JSON"
      [] t = "BYTEA" -> "BLOB"
      [] t = "UUID" -> "CHAR(36)"
      [] OTHER -> IF pk THEN "VARCHAR(255)" ELSE "TEXT"
OracleType(t) ==
    CASE t \in IntegerTypes \cup {"NUMERIC"} -> "NUMBER"
      [] t = "BOOLEAN" -> "NUMBER(1)"
      [] t \in {"TIMESTAMP", "DATE"} -> t
      [] t = "JSONB" -> "CLOB"
      [] t = "BYTEA" -> "BLOB"
      [] OTHER -> "VARCHAR2(4000)"
SnowflakeType(t) ==
    CASE t \in IntegerTypes \cup {"NUMERIC"} -> "NUMBER"
      [] t \in {"BOOLEAN", "DATE"} -> t
      [] t = "TIMESTAMP" -> "TIMESTAMP_NTZ"
      [] t = "JSONB" -> "VARIANT"
      [] t = "BYTEA" -> "BINARY"
      [] OTHER -> "VARCHAR"
ReplicaType(kind, t, pk) ==
    CASE kind = "MYSQL" -> MysqlType(t, pk) [] kind = "ORACLE" -> OracleType(t)
      [] kind = "SNOWFLAKE" -> SnowflakeType(t) [] OTHER -> t

Numbers == {"BIGINT", "INTEGER", "SMALLINT", "NUMERIC", "INT", "DOUBLE", "NUMBER"}
Wholes == {"BIGINT", "INTEGER", "INT", "SMALLINT", "NUMBER"}
\* A replica's column holds what its source's column holds: a number stays a
\* number and a whole number whole, a key that was text can be a key, a moment
\* keeps its time of day; only an interval (taken for an integer) and, on
\* MySQL, the exactness of a decimal are lost.
TypesHold(raw, kind, pk) ==
    LET t == CanonicalType(raw)
        r == ReplicaType(kind, t, pk)
    IN  /\ t \in Numbers <=> r \in Numbers
        /\ t \in IntegerTypes => r \in Wholes /\ (t = "BIGINT" => r \in {"BIGINT", "NUMBER"})
        /\ t \in IntegerTypes => raw \in {"bigint", "bigserial", "smallint", "integer", "serial", "long", "interval"}
        /\ (kind = "MYSQL" /\ pk) => (r \in {"TEXT", "BLOB", "JSON"} => t \in {"JSONB", "BYTEA"})
        /\ raw \in {"timestamp", "datetime"} => r \in {"TIMESTAMP", "DATETIME", "TIMESTAMP_NTZ"}

\* A number asked for, or the default when none, zero or less.
ResolveOpts(opts, defaults) == [k \in DOMAIN defaults |-> IF k \in DOMAIN opts /\ opts[k] > 0 THEN opts[k] ELSE defaults[k]]
\* Blanks and zeros are dropped.
CopyConfig(body) == [k \in {x \in DOMAIN body : body[x] # 0} |-> body[k]]
\* The request's settings over the job's.
RunConfig(stored, body) == LET asked == CopyConfig(body)
                           IN  [k \in DOMAIN stored \cup DOMAIN asked |-> IF k \in DOMAIN asked THEN asked[k] ELSE stored[k]]
\* A copy runs with the request's setting, else the job's, else the default,
\* and a zero or a blank never replaces one that was set.
ConfigHolds(stored, body, defaults) ==
    LET run == ResolveOpts(RunConfig(CopyConfig(stored), body), defaults)
        Given(c, k) == k \in DOMAIN c /\ c[k] > 0
    IN  \A k \in DOMAIN defaults :
           /\ run[k] > 0
           /\ Given(body, k) => run[k] = body[k]
           /\ (k \in DOMAIN body => body[k] = 0) => run[k] = IF Given(stored, k) THEN stored[k] ELSE defaults[k]

Copied(db) == UNION {{<<s, t>> : t \in {u \in DOMAIN db[s] : db[s][u].kind = "TABLE" /\ u # Outbox}} :
                        s \in DOMAIN db \ Reserved}
TableOf(db, p) == db[p[1]][p[2]]
CountRows(t) == IF t.counts THEN Cardinality(t.rows) ELSE None
TrackingPreview(sources, name) ==
    IF name \notin DOMAIN sources THEN {} ELSE Copied(sources[name].db)

\* An unset limit is none.  The tables are looked through once, so the limit
\* on one table speaks first.
VerifyReplicationLimits(limits, sources, name) ==
    IF (\A l \in DOMAIN limits : limits[l] = Unlimited) \/ name \notin DOMAIN sources THEN "allowed"
    ELSE LET db == sources[name].db
             tables == Copied(db)
             Rows(p) == LET n == CountRows(TableOf(db, p)) IN IF TableOf(db, p).counts THEN n ELSE 0
             total == FoldSet(LAMBDA p, n : n + Rows(p), 0, tables)
             Over(l, n) == limits[l] # Unlimited /\ n > limits[l]
         IN  IF sources[name].state = "down" THEN "error"
             ELSE IF \E p \in tables : Over("perTable", Rows(p)) THEN "perTable"
             ELSE IF Over("tables", Cardinality(tables)) THEN "tables"
             ELSE IF Over("rows", total) THEN "rows" ELSE "allowed"

DestKindOf(engine) ==
    CASE engine = "POSTGRES" -> "PG" [] engine = "MONGODB" -> "MONGO" [] engine = "ELASTICSEARCH" -> "ES"
      [] engine \in {"MYSQL", "ORACLE", "SNOWFLAKE"} -> engine [] OTHER -> None
FromName(job, reverse) == IF reverse THEN job.dest ELSE job.source
ToName(job, reverse, override) ==
    IF ~reverse THEN job.dest ELSE IF override # None THEN override ELSE job.source
\* dest_schema counts only for a source of one schema.
TargetSchema(job, db, s) ==
    IF Cardinality(DOMAIN db \ Reserved) > 1 \/ job.schema = None THEN s ELSE job.schema

\* The watermark of a table is kept under its bare name on Postgres, else under
\* where it lands, whichever way the run goes.
MarkKey(kind, to) ==
    CASE kind = "PG" -> <<to[2]>> [] kind \in {"MYSQL", "MONGO"} -> to [] OTHER -> <<kind, to[1], to[2]>>
MarkOf(marks, key) == IF key \in DOMAIN marks THEN marks[key] ELSE 0

\* A first run, or one of a FULL job, rebuilds the table; a later one of an
\* INCREMENTAL job adds the rows above the recorded mark.
CopiedRows(job, marks, kind, rows, old, to) ==
    IF job.strategy = "INCREMENTAL" /\ MarkOf(marks, MarkKey(kind, to)) # 0
    THEN old \cup {r \in rows : r > MarkOf(marks, MarkKey(kind, to))} ELSE rows

Lands(job, db) == [p \in Copied(db) |-> <<TargetSchema(job, db, p[1]), p[2]>>]
\* The marks a first run leaves behind (no two tables share a key).
MarksAfter(job, db, kind) ==
    LET lands == Lands(job, db)
        kept == {p \in Copied(db) : job.strategy = "INCREMENTAL" /\ TableOf(db, p).rows # {}}
    IN  [k \in {MarkKey(kind, lands[p]) : p \in kept} |->
            LET rows == TableOf(db, CHOOSE p \in kept : MarkKey(kind, lands[p]) = k).rows
            IN  CHOOSE m \in rows : \A r \in rows : r <= m]

Refused(job, sources, reverse, override) ==
    \/ {FromName(job, reverse), ToName(job, reverse, override)} \ DOMAIN sources # {}
    \/ DestKindOf(sources[ToName(job, reverse, override)].engine) = None
    \/ sources[ToName(job, reverse, override)].state = "down"
    \/ sources[FromName(job, reverse)].state = "down"

\* The destination after a run whose tables all copy: the schemas a Postgres
\* destination is given, and every table in its target.
RunResult(job, marks, sources, reverse, override) ==
    LET db == sources[FromName(job, reverse)].db
        dest == sources[ToName(job, reverse, override)]
        lands == Lands(job, db)
        given == IF DestKindOf(dest.engine) # "PG" THEN {}
                 ELSE {IF job.schema = None THEN "public" ELSE job.schema} \cup {TargetSchema(job, db, s) : s \in DOMAIN db \ Reserved}
        schemas == DOMAIN dest.db \cup given \cup {lands[p][1] : p \in Copied(db)}
        Here(s) == {p \in Copied(db) : lands[p][1] = s}
        Before(s) == IF s \in DOMAIN dest.db THEN DOMAIN dest.db[s] ELSE {}
        Old(s, t) == IF t \in Before(s) THEN dest.db[s][t].rows ELSE {}
    IN  [s \in schemas |->
            [t \in Before(s) \cup {p[2] : p \in Here(s)} |->
                IF \E p \in Here(s) : p[2] = t
                THEN LET p == CHOOSE q \in Here(s) : q[2] = t
                     IN  [kind |-> "TABLE", counts |-> TRUE,
                          rows |-> CopiedRows(job, marks, DestKindOf(dest.engine), TableOf(db, p).rows, Old(s, t), <<s, t>>)]
                ELSE dest.db[s][t]]]

\* restore: the run turned round, into the named source.
Restore(job, marks, sources, target) == RunResult(job, marks, sources, TRUE, target)

\* After the first run and the loss of the source, a restore into an empty one
\* brings every table back: to its own schema when the job names none, else to
\* its own or the job's.  All its rows come with it, unless the job is
\* INCREMENTAL and the restore finds the mark the run left: then it asks for
\* newer rows and there are none.  What is previewed is what is copied.
RestoreHolds(job, sources) ==
    LET db == sources[job.source].db
        kind == DestKindOf(sources[job.dest].engine)
        backKind == DestKindOf(sources[job.source].engine)
        replica == RunResult(job, <<>>, sources, FALSE, None)
        lost == [sources EXCEPT ![job.dest].db = replica, ![job.source].db = <<>>]
        marks == MarksAfter(job, db, kind)
        back == Restore(job, marks, lost, None)
        Whole(s, p) ==
            /\ s \in DOMAIN back /\ p[2] \in DOMAIN back[s]
            /\ back[s][p[2]].rows = IF MarkKey(backKind, <<s, p[2]>>) \in DOMAIN marks THEN {} ELSE TableOf(db, p).rows
    IN  \/ Refused(job, sources, FALSE, None) \/ Refused(job, lost, TRUE, None)
        \/ \A p \in Copied(db) :
              /\ p \in TrackingPreview(sources, job.source)
              /\ Whole(p[1], p) \/ (job.schema # None /\ Whole(job.schema, p))

\* A run is let go only if what it would copy keeps to the plan; a count the
\* source refuses counts nothing, and a missing source is found by the run.
LimitsKept(limits, sources, name) ==
    LET answer == VerifyReplicationLimits(limits, sources, name)
        tables == Copied(sources[name].db)
        counted == {p \in tables : TableOf(sources[name].db, p).counts}
        total == FoldSet(LAMBDA p, n : n + Cardinality(TableOf(sources[name].db, p).rows), 0, counted)
    IN  /\ answer = "allowed" /\ name \in DOMAIN sources =>
              /\ limits.tables # Unlimited => Cardinality(tables) <= limits.tables
              /\ limits.rows # Unlimited => total <= limits.rows
              /\ limits.perTable # Unlimited => \A p \in counted : Cardinality(TableOf(sources[name].db, p).rows) <= limits.perTable
        /\ answer = "tables" => Cardinality(tables) > limits.tables
        /\ answer = "rows" => total > limits.rows
        /\ answer = "perTable" => \E p \in counted : Cardinality(TableOf(sources[name].db, p).rows) > limits.perTable

\* A tick queues the jobs whose last ended run lies an interval back; a run
\* that fails leaves no mark and is queued again at the next tick.
DueAt(last, now, every) == last = 0 \/ now - last >= every
LastRun(job, n) ==
    LET last[k \in 0 .. n] ==
            IF k = 0 THEN 0 ELSE IF DueAt(last[k - 1], k, job.every) /\ job.ends[k] THEN k ELSE last[k - 1]
    IN  last[n]
ScheduleHolds(job, n) ==
    \A k \in 1 .. n :
        LET last == LastRun(job, k - 1)
        IN  DueAt(last, k, job.every) <=> ~(\E i \in 1 .. k - 1 : i > k - job.every /\ job.ends[i] /\ LastRun(job, i) = i)

Statuses == {"QUEUED", "RUNNING", "PAUSED", "COMPLETED", "FAILED"}
Rounded(a, b) == (2 * a + b) \div (2 * b)
SumOf(f, S) == FoldSet(LAMBDA i, n : n + f[i].rows, 0, S)
Analytics(runs) ==
    LET Of(s) == {i \in DOMAIN runs : runs[i].status = s}
        ended == Cardinality(Of("COMPLETED")) + Cardinality(Of("FAILED"))
        Speed(r) == IF ~r.started THEN 0 ELSE Rounded(r.rows, IF r.elapsed < 1 THEN 1 ELSE r.elapsed)
        Left(r) == IF r.total > r.rows THEN r.total - r.rows ELSE 0
    IN  [byStatus |-> [s \in {runs[i].status : i \in DOMAIN runs} |-> [jobs |-> Cardinality(Of(s)), rows |-> SumOf(runs, Of(s))]],
         total |-> SumOf(runs, DOMAIN runs),
         rate |-> IF ended = 0 THEN Unlimited ELSE Rounded(100 * Cardinality(Of("COMPLETED")), ended),
         eta |-> [i \in Of("QUEUED") \cup Of("RUNNING") \cup Of("PAUSED") |->
                     IF runs[i].status = "RUNNING" /\ Speed(runs[i]) > 0 THEN Rounded(Left(runs[i]), Speed(runs[i])) ELSE Unlimited]]

\* The dashboard counts every run and every row once, its rate is of the runs
\* that ended, and only a copy under way has a time to go, never a negative one
\* even when the source has outgrown the estimate.
AnalyticsHold(runs) ==
    LET a == Analytics(runs)
        Ended(i) == runs[i].status \in {"COMPLETED", "FAILED"}
    IN  /\ FoldSet(LAMBDA s, n : n + a.byStatus[s].jobs, 0, DOMAIN a.byStatus) = Cardinality(DOMAIN runs)
        /\ FoldSet(LAMBDA s, n : n + a.byStatus[s].rows, 0, DOMAIN a.byStatus) = a.total
        /\ a.rate \in IF \E i \in DOMAIN runs : Ended(i) THEN 0 .. 100 ELSE {Unlimited}
        /\ (a.rate > 50) => Cardinality({i \in DOMAIN runs : runs[i].status = "COMPLETED"})
                              > Cardinality({i \in DOMAIN runs : runs[i].status = "FAILED"})
        /\ \A i \in DOMAIN a.eta :
              a.eta[i] # Unlimited => runs[i].status = "RUNNING" /\ runs[i].rows > 0 /\ a.eta[i] >= 0

\* The stored or crawled definition and columns of a resource, with a query
\* that runs: a call for a routine, a SELECT for what holds rows.
RenderFabricAst(kind, definition, cols) ==
    [definition |-> definition,
     invoke |-> IF kind \in Routines THEN kind ELSE None,
     columns |-> IF kind \in Routines \cup {"SEQUENCE", "ENUM", "TRIGGER"} THEN {} ELSE cols,
     select |-> IF kind \in Routines \cup {"SEQUENCE", "ENUM", "TRIGGER"} THEN {}
                ELSE IF cols = {} THEN {"*"} ELSE {c.name : c \in cols}]

\* Whatever the catalog shows with a query names columns it shows, and nothing
\* is shown both as callable and as readable.
AstHolds(kind, definition, cols) ==
    LET a == RenderFabricAst(kind, definition, cols)
    IN  /\ (a.invoke # None) => a.select = {}
        /\ kind \in ColumnKinds => a.select # {} /\ (a.select # {"*"} => a.select = {c.name : c \in a.columns})
        /\ kind \in Routines => a.invoke # None

----------------------------------------------------------------------------
(* Foreign servers: the hub's side of VIRTUAL Postgres sources.  Names are    *)
(* sequences of characters; the hub keeps its servers, the register of their  *)
(* owners, the tables imported through each, and the stored sources.          *)

FitsIdentifier(name) == Len(name) <= 7      \* stands for the 63 characters of an identifier
Doubled(name) == \E i \in 1 .. Len(name) - 1 : name[i] = "_" /\ name[i + 1] = "_"
\* Long or ambiguous names are hashed (taken to be free of collisions).
FdwServerName(t, s) ==
    LET plain == t \o <<"_", "_">> \o s
        hashed == ~FitsIdentifier(plain) \/ Doubled(t) \/ Doubled(s)
    IN  [hashed |-> hashed, text |-> IF hashed THEN t \o <<"#">> \o s ELSE plain]
FdwLegacyServerName(t, s) == [hashed |-> FALSE, text |-> t \o <<"_">> \o s]
FdwPlatformTables == {"users"}

\* The stored Postgres sources that the older scheme gave one name.
LegacyOwners(rows, t, s) ==
    {r \in rows : r.type = "postgres" /\ FdwLegacyServerName(r.tenant, r.source) = FdwLegacyServerName(t, s)}
Owned(hub, t, s) == {e \in hub.registry : e.tenant = t /\ e.source = s}
DropServers(hub, names) ==
    [hub EXCEPT !.servers = @ \ names, !.tables = {x \in @ : x.server \notin names}]
DropOwned(hub, t, s) ==
    [DropServers(hub, {e.name : e \in Owned(hub, t, s)}) EXCEPT !.registry = @ \ Owned(hub, t, s)]
DropLegacy(hub, t, s, allowed) ==
    IF Cardinality(LegacyOwners(hub.rows, t, s)) \in allowed THEN DropServers(hub, {FdwLegacyServerName(t, s)}) ELSE hub

\* One transaction: it validates, refuses a name that is taken, drops what this
\* source had, and imports the remote's own tables.  IMPORT fails on a table
\* the namespace already holds.
RegisterRemoteSource(hub, o) ==
    LET name == FdwServerName(o.tenant, o.source)
        taken == \/ \E e \in hub.registry : e.name = name /\ <<e.tenant, e.source>> # <<o.tenant, o.source>>
                 \/ name \in hub.servers /\ \A e \in hub.registry : e.name # name
        cleared == DropLegacy(DropOwned(hub, o.tenant, o.source), o.tenant, o.source, {1})
        tables == {[tenant |-> o.tenant, table |-> x, server |-> name] : x \in o.remote \ FdwPlatformTables}
        clash == \E x \in tables, y \in cleared.tables : x.tenant = y.tenant /\ x.table = y.table
    IN  IF ~o.valid \/ taken \/ ~o.reachable \/ clash THEN [hub EXCEPT !.failed = TRUE]
        ELSE [cleared EXCEPT !.servers = @ \cup {name}, !.tables = @ \cup tables, !.failed = FALSE,
                             !.registry = @ \cup {[name |-> name, tenant |-> o.tenant, source |-> o.source]}]
RemoveRemoteSource(hub, t, s) == DropLegacy(DropOwned(hub, t, s), t, s, {0, 1})

\* registerRemoteSource stores the row first; an existing one keeps its type.
RowsOf(hub, t, s) == {r \in hub.rows : r.tenant = t /\ r.source = s}
IntegrateSource(hub, o) ==
    LET stored == IF RowsOf(hub, o.tenant, o.source) # {} THEN {}
                  ELSE {[tenant |-> o.tenant, source |-> o.source, type |-> "postgres"]}
    IN  RegisterRemoteSource([hub EXCEPT !.rows = @ \cup stored], o)
DecommissionSource(hub, o) ==
    LET mine == RowsOf(hub, o.tenant, o.source)
        after == IF \E r \in mine : r.type = "postgres" THEN RemoveRemoteSource(hub, o.tenant, o.source) ELSE hub
    IN  [after EXCEPT !.rows = @ \ mine, !.failed = mine = {}]
ForeignStep(hub, o) == IF o.op = "register" THEN IntegrateSource(hub, o) ELSE DecommissionSource(hub, o)

\* The register as the hardening script finds it: legacy servers of one owner.
BackfillRegistry(rows, servers) ==
    {[name |-> FdwLegacyServerName(r.tenant, r.source), tenant |-> r.tenant, source |-> r.source] :
        r \in {x \in rows : /\ LegacyOwners(rows, x.tenant, x.source) = {x}
                            /\ FdwLegacyServerName(x.tenant, x.source) \in servers}}

\* The servers that serve a source: the registered ones, and a legacy one of
\* its name that is in nobody's name.
ServersOf(hub, r) ==
    {n \in hub.servers :
        \/ \E e \in Owned(hub, r.tenant, r.source) : e.name = n
        \/ r.type = "postgres" /\ n = FdwLegacyServerName(r.tenant, r.source) /\ \A e \in hub.registry : e.name # n}

\* A step for one source leaves every other source's servers and tables alone,
\* unless the source's own row does not count as Postgres while another's
\* legacy server has its name, or its legacy name is another's name now
\* (a and b__c, a_b and c), which is dropped without a look at the register;
\* a registration that ends well leaves one server
\* with the remote's tables and none of the platform's, a failed one leaves the
\* servers as they were, and none fails for another source's name.
ForeignHolds(hub, o) ==
    LET after == ForeignStep(hub, o)
        mine == FdwServerName(o.tenant, o.source)
        others == {r \in hub.rows : <<r.tenant, r.source>> # <<o.tenant, o.source>>}
        uncounted == \E r \in RowsOf(hub, o.tenant, o.source) : r.type # "postgres"
        legacy == FdwLegacyServerName(o.tenant, o.source)
        Safe(r) == /\ ~uncounted \/ FdwLegacyServerName(r.tenant, r.source) # legacy
                   /\ FdwServerName(r.tenant, r.source) # legacy
    IN  /\ \A r \in others : Safe(r) =>
              /\ ServersOf(hub, r) \subseteq after.servers
              /\ \A x \in hub.tables : x.server \in ServersOf(hub, r) => x \in after.tables
        /\ (o.op = "register" /\ ~after.failed) =>
              /\ {e.name : e \in Owned(after, o.tenant, o.source)} = {mine} /\ mine \in after.servers
              /\ {x.table : x \in {y \in after.tables : y.server = mine}} = o.remote \ FdwPlatformTables
        /\ (o.op = "register" /\ after.failed) => after.servers = hub.servers /\ after.tables = hub.tables /\ after.registry = hub.registry
        /\ (o.op = "register" /\ after.failed) =>
              ~o.valid \/ ~o.reachable \/ \E x \in hub.tables : x.tenant = o.tenant /\ x.table \in o.remote
        /\ \A e, f \in after.registry : e.name = f.name => e = f
=============================================================================
