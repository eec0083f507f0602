---------------------------- MODULE ManifestDiff -----------------------------
(* From a manifest to statements: what the diff engine plans for each engine, *)
(* what the transpilers emit for it, and where repeated applies end.          *)
EXTENDS Integers, Sequences, FiniteSets

----------------------------------------------------------------------------
(* Engines and what they can do by themselves                                *)

Engines == {"POSTGRES", "MYSQL", "ORACLE", "SNOWFLAKE", "MONGODB", "ELASTICSEARCH"}
Kinds == {"ENUM", "SEQUENCE", "FUNCTION", "TABLE", "VIEW", "MATERIALIZED_VIEW"}
Documents == {"MONGODB", "ELASTICSEARCH"}

\* ENGINE_CAPABILITIES
Supports(engine, kind) ==
    CASE kind = "TABLE" -> TRUE
      [] kind = "ENUM" -> engine = "POSTGRES"
      [] kind = "SEQUENCE" -> engine \in {"POSTGRES", "ORACLE", "SNOWFLAKE"}
      [] kind = "MATERIALIZED_VIEW" -> engine \in {"POSTGRES", "ORACLE"}
      [] OTHER -> engine \notin Documents

Introspects(engine) == engine \notin Documents

\* normalizeEngineType: the spellings a data source may have.
NormalizeEngine(name) ==
    CASE name = "POSTGRESQL" -> "POSTGRES" [] name = "MONGO" -> "MONGODB"
      [] name \in {"ELASTIC", "ES"} -> "ELASTICSEARCH" [] name = "ORACLEDB" -> "ORACLE"
      [] name = "MARIADB" -> "MYSQL" [] OTHER -> name

----------------------------------------------------------------------------
(* compare                                                                   *)

\* What a data source may call its engine.
Spellings == Engines \cup {"POSTGRESQL", "MONGO", "ELASTIC", "ES", "ORACLEDB", "MARIADB"}

Action(name, kind, comp) == [action |-> name, kind |-> kind, comp |-> comp]

\* One resource of each kind.  Every introspecting engine is looked up in the
\* hub's own catalog, so on a remote one nothing is ever found.
Found(engine, kind, live) == engine = "POSTGRES" /\ kind \in live
Create(engine, kind) == {Action("CREATE", kind, ~Supports(engine, kind))}

\* diffTable; a document source is compared with its recorded definition.
DiffTable(engine, live) ==
    IF IF Introspects(engine) THEN Found(engine, "TABLE", live) ELSE "TABLE" \in live THEN {}
    ELSE Create(engine, "TABLE")

\* diffEnum, diffSequence, diffFunction, diffView: what the engine cannot
\* keep is registered again by every apply.
DiffEnum(engine, live) ==
    IF Supports(engine, "ENUM") /\ Found(engine, "ENUM", live) THEN {} ELSE Create(engine, "ENUM")
DiffSequence(engine, live) ==
    IF Supports(engine, "SEQUENCE") /\ Found(engine, "SEQUENCE", live) THEN {} ELSE Create(engine, "SEQUENCE")
DiffFunction(engine, live) ==
    IF Supports(engine, "FUNCTION") /\ Found(engine, "FUNCTION", live) THEN {} ELSE Create(engine, "FUNCTION")
DiffView(engine, kind, live) ==
    IF Supports(engine, kind) /\ Found(engine, kind, live) THEN {} ELSE Create(engine, kind)

\* processResourceDiff
DiffResource(engine, kind, live) ==
    CASE kind = "TABLE" -> DiffTable(engine, live) [] kind = "ENUM" -> DiffEnum(engine, live)
      [] kind = "SEQUENCE" -> DiffSequence(engine, live) [] kind = "FUNCTION" -> DiffFunction(engine, live)
      [] OTHER -> DiffView(engine, kind, live)

\* detectRetiredResources
DetectRetired(engine, declared, live) ==
    IF Introspects(engine) /\ Found(engine, "TABLE", live) /\ "TABLE" \notin declared
    THEN {Action("QUARANTINE", "TABLE", FALSE)} ELSE {}

\* compare
Plan(engine, declared, live) ==
    UNION {DiffResource(engine, k, live) : k \in declared} \cup DetectRetired(engine, declared, live)

\* sortResources
Rank(kind) == CASE kind = "ENUM" -> 1 [] kind = "SEQUENCE" -> 2 [] kind = "FUNCTION" -> 3
                [] kind = "TABLE" -> 4 [] kind = "VIEW" -> 5 [] OTHER -> 6

\* The creations each transpiler has a case for.
ToSql(kind) == TRUE
ToMysql(kind) == kind \in {"TABLE", "VIEW", "FUNCTION"}
ToOracle(kind) == kind # "ENUM"
ToSnowflake(kind) == kind \in {"SEQUENCE", "TABLE", "VIEW", "FUNCTION"}
ToMongo(kind) == kind = "TABLE"
ToElasticsearch(kind) == kind = "TABLE"

Emits(engine, kind) ==
    CASE engine = "POSTGRES" -> ToSql(kind) [] engine = "MYSQL" -> ToMysql(kind)
      [] engine = "ORACLE" -> ToOracle(kind) [] engine = "SNOWFLAKE" -> ToSnowflake(kind)
      [] engine = "MONGODB" -> ToMongo(kind) [] OTHER -> ToElasticsearch(kind)

\* toFabricCompensation: what the hub keeps for an engine that cannot.
Compensates(kind) == kind # "TABLE"

\* What needs what: a column its enum, default or function, a view its table.
Needs(kind) ==
    CASE kind = "TABLE" -> {"ENUM", "SEQUENCE", "FUNCTION"}
      [] kind = "VIEW" -> {"TABLE"}
      [] kind = "MATERIALIZED_VIEW" -> {"TABLE", "VIEW"}
      [] OTHER -> {}

\* The plan runs in the order of sortResources.
RunsInOrder(plan) ==
    \A a, b \in plan : b.kind \in Needs(a.kind) => Rank(b.kind) < Rank(a.kind)

Deployed(engine, plan) ==
    {a.kind : a \in {x \in plan : x.action = "CREATE"
                                  /\ IF x.comp THEN Compensates(x.kind) ELSE Emits(engine, x.kind)}}

----------------------------------------------------------------------------
(* Columns of a table in the hub                                             *)

Plain == {"STRING", "VARCHAR", "TEXT", "INT", "BIGINT", "NUMERIC", "FLOAT", "BOOL",
          "TIMESTAMP", "DATE", "UUID", "JSONB", "JSON", "ENUM", "custom"}

\* A declared column; "custom" names an enum of the manifest as its type.
Column == {[type |-> t, len |-> 0, strategy |-> "none"] : t \in Plain}
     \cup {[type |-> t, len |-> n, strategy |-> "none"] : t \in {"STRING", "VARCHAR"}, n \in {5, 9}}
     \cup {[type |-> t, len |-> 0, strategy |-> "UUID_V7"] : t \in {"UUID", "STRING"}}
     \cup {[type |-> t, len |-> 0, strategy |-> "LEGACY_SERIAL"] : t \in {"INT", "BIGINT"}}

NoColumn == [type |-> "none", len |-> 0, default |-> FALSE]
Stored(type, len, default) == [type |-> type, len |-> len, default |-> default]

\* normalizeType
PgType(t) == CASE t = "STRING" -> "text" [] t = "VARCHAR" -> "character varying" [] t = "TEXT" -> "text"
               [] t = "INT" -> "integer" [] t = "BIGINT" -> "bigint" [] t = "NUMERIC" -> "numeric"
               [] t = "FLOAT" -> "double precision" [] t = "BOOL" -> "boolean"
               [] t = "TIMESTAMP" -> "timestamp" [] t = "DATE" -> "date" [] t = "UUID" -> "uuid"
               [] t \in {"JSONB", "JSON"} -> "jsonb" [] OTHER -> "user-defined"

\* CREATE_TABLE and ADD_COLUMN: only a STRING is sized.
Created(c) ==
    CASE c.strategy = "UUID_V7" -> Stored("uuid", 0, TRUE)
      [] c.strategy = "LEGACY_SERIAL" -> Stored("integer", 0, TRUE)
      [] c.type = "STRING" /\ c.len > 0 -> Stored("character varying", c.len, FALSE)
      [] OTHER -> Stored(PgType(c.type), 0, FALSE)

\* ALTER_COLUMN_TYPE drops the default, and knows nothing of strategies.
Altered(c) ==
    IF c.type \in {"STRING", "VARCHAR"} /\ c.len > 0 THEN Stored("character varying", c.len, FALSE)
    ELSE Stored(PgType(c.type), 0, FALSE)

\* normalizeCatalogType
CatalogFamily(s) ==
    CASE s.type = "character varying" -> "VARCHAR" [] s.type = "text" -> "TEXT"
      [] s.type = "integer" -> "INT" [] s.type = "bigint" -> "BIGINT" [] s.type = "numeric" -> "NUMERIC"
      [] s.type = "boolean" -> "BOOL" [] s.type = "timestamp" -> "TIMESTAMP" [] s.type = "date" -> "DATE"
      [] s.type = "uuid" -> "UUID" [] s.type = "jsonb" -> "JSONB" [] s.type = "user-defined" -> "ENUM"
      [] OTHER -> s.type

\* normalizeDeclaredType
DeclaredFamily(c) ==
    CASE c.type = "STRING" -> (IF c.len > 0 THEN "VARCHAR" ELSE "TEXT")
      [] c.type = "FLOAT" -> "NUMERIC" [] OTHER -> c.type

TypeChanged(s, c) ==
    \/ CatalogFamily(s) # DeclaredFamily(c)
    \/ DeclaredFamily(c) = "VARCHAR" /\ c.len > 0 /\ s.len # c.len

\* diffTable and the statement it leads to, for one column of a known table.
ApplyColumn(s, c) == IF s = NoColumn THEN Created(c)
                     ELSE IF TypeChanged(s, c) THEN Altered(c) ELSE s

\* The same for a document source, which remembers what was declared.
DocumentChanged(old, c) ==
    \/ DeclaredFamily(old) # DeclaredFamily(c)
    \/ DeclaredFamily(c) = "VARCHAR" /\ old.len # c.len

----------------------------------------------------------------------------
(* A table on a remote source: the statements its transpiler emits, run one   *)
(* by one without a transaction.  The table, its indexes and the rows written *)
(* to it since are the objects of the source.                                 *)

Statement(op, name, guarded) == [op |-> op, name |-> name, guarded |-> guarded]
TableStatements(engine, indexes) ==
    <<Statement("table", "table", engine # "ORACLE")>>
    \o (IF engine \in {"SNOWFLAKE", "ELASTICSEARCH"} THEN <<>>
        ELSE [i \in 1 .. indexes |-> Statement("index", <<"i1", "i2">>[i], engine \notin {"MYSQL", "ORACLE"})])

Ran(ok, objects) == [ok |-> ok, objects |-> objects]
\* DDL commits by itself on each of these, so that what ran stays.
SqlStatement(st, objects) ==
    IF st.name \in objects THEN Ran(st.guarded, objects) ELSE Ran(TRUE, objects \cup {st.name})
ExecutePostgres(st, objects) == SqlStatement(st, objects)
ExecuteMysql(st, objects) == SqlStatement(st, objects)
ExecuteOracle(st, objects) == SqlStatement(st, objects)
ExecuteSnowflake(st, objects) == SqlStatement(st, objects)
\* createCollection drops the collection first, with its indexes and documents.
ExecuteMongo(st, objects) == Ran(TRUE, IF st.op = "table" THEN {st.name} ELSE objects \cup {st.name})
\* An index that exists is left as it is.
ExecuteElasticsearch(st, objects) == Ran(TRUE, objects \cup {st.name})

Execute(engine, st, objects) ==
    CASE engine = "POSTGRES" -> ExecutePostgres(st, objects)
      [] engine = "MYSQL" -> ExecuteMysql(st, objects)
      [] engine = "MONGODB" -> ExecuteMongo(st, objects)
      [] engine = "ORACLE" -> ExecuteOracle(st, objects)
      [] engine = "SNOWFLAKE" -> ExecuteSnowflake(st, objects)
      [] engine = "ELASTICSEARCH" -> ExecuteElasticsearch(st, objects)

\* The first statement that fails, or that the source does not answer (the
\* outage-th; 0 for none), ends the dispatch.
DispatchTo(engine, sts, objects, outage) ==
    LET run[i \in 0 .. Len(sts)] ==
          IF i = 0 THEN Ran(TRUE, objects)
          ELSE IF ~run[i - 1].ok \/ i = outage THEN Ran(FALSE, run[i - 1].objects)
          ELSE Execute(engine, sts[i], run[i - 1].objects)
    IN  run[Len(sts)]

----------------------------------------------------------------------------
(* Properties                                                                *)

\* A second dispatch of a table (which an apply makes only while its diff still
\* lists the table; ManifestApply has the applies after which it no longer does)
\* completes a first one that was cut off, wherever that was, unless it left something its engine does not guard against creating
\* twice (Oracle's tables and indexes, MySQL's indexes); what is there stays,
\* rows included, save the documents of a collection.
RetryCompletes(spelling, indexes, outage) ==
    LET engine == NormalizeEngine(spelling)
        sts == TableStatements(engine, indexes)
        whole == DispatchTo(engine, sts, {}, 0)
        cut == DispatchTo(engine, sts, {}, outage)
        used == IF "table" \in cut.objects THEN cut.objects \cup {"rows"} ELSE cut.objects
        next == DispatchTo(engine, sts, used, 0)
        blocked == \E i \in DOMAIN sts : ~sts[i].guarded /\ sts[i].name \in cut.objects
    IN  /\ whole.ok /\ whole.objects = {sts[i].name : i \in DOMAIN sts}
        /\ cut.ok <=> outage \notin DOMAIN sts
        /\ next.ok <=> ~blocked
        /\ next.ok => whole.objects \subseteq next.objects
        /\ engine # "MONGODB" => used \subseteq next.objects

\* One apply deploys everything a manifest declares, on every engine, natively
\* or through the hub, each thing after what it needs; on the hub and on
\* document sources a second apply creates no table again.
DeploysAll(spelling, declared) ==
    LET engine == NormalizeEngine(spelling)
        plan == Plan(engine, declared, {})
    IN  /\ RunsInOrder(plan) /\ Deployed(engine, plan) = declared
        /\ engine = "POSTGRES" \/ ~Introspects(engine) =>
             Action("CREATE", "TABLE", FALSE) \notin Plan(engine, declared, declared)

\* Types whose declared and catalog families differ for ever.
Restless == {"FLOAT", "JSON", "custom"}

\* Whatever the column was before, two applies of one manifest settle it: a
\* third changes nothing, and a generated default survives when the column's
\* strategy creates the type it declares.  The restless types never settle.
ColumnSettles(old, c) ==
    LET s0 == ApplyColumn(NoColumn, old)
        s2 == ApplyColumn(ApplyColumn(s0, c), c)
    IN  /\ c.type \notin Restless => ~TypeChanged(s2, c)
        /\ c.type \in Restless /\ old = c => TypeChanged(s2, c)
        /\ old = c /\ Created(c).default /\ DeclaredFamily(c) = CatalogFamily(Created(c)) => s2.default
        /\ ~DocumentChanged(c, c)
=============================================================================
