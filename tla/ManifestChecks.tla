---------------------------- MODULE ManifestChecks ---------------------------
(* Manifests on their way in: parsing and normalising, validation against the *)
(* caller's rights, the sources they refer to, and what the hub then accepts. *)
(* An attribute with one check of its own is in `bad` when it is given and    *)
(* does not pass; what several checks look at is a field.                     *)
EXTENDS Integers, Sequences, FiniteSets
LOCAL INSTANCE SequencesExt

CONSTANTS LIMITS,            \* how long each list, and the text, may be
          EXTRA_EXTENSIONS   \* MANIFEST_EXTRA_EXTENSIONS

Text == INSTANCE QueryText

Nothing == [absent |-> TRUE]
NotObject == [object |-> FALSE]
IsObj(x) == x \notin {Nothing, NotObject}

\* What stands where a list is expected.
List(items) == [kind |-> "array", items |-> items]
NoList == [kind |-> "absent", items |-> <<>>]
NullList == [kind |-> "null", items |-> <<>>]
OtherValue == [kind |-> "other", items |-> <<>>]
One(item) == [kind |-> "one", items |-> <<item>>]
Given(list) == list.kind \notin {"absent", "null"}

----------------------------------------------------------------------------
(* Parsing                                                                   *)

\* The first fault that the walk of the tree meets.
TreeCode ==
    [deep |-> "MANIFEST_TOO_DEEP", many |-> "MANIFEST_TOO_LARGE", shared |-> "YAML_ALIASES_NOT_ALLOWED",
     class |-> "INVALID_MANIFEST", forbidden |-> "FORBIDDEN_KEY"]
AssertPlainTree(tree) == IF tree = "plain" THEN "parsed" ELSE TreeCode[tree]

\* JSON; else the JSON fenced in Markdown; else YAML, unless the text starts
\* like JSON.
Decode(text) ==
    IF text.json # "error" THEN text.json
    ELSE IF text.fence # "none" THEN text.fence
    ELSE IF text.looksJson THEN "error" ELSE text.yaml

Parse(text) ==
    IF ~text.isText THEN "INVALID_MANIFEST"
    ELSE IF text.bytes > LIMITS.bytes THEN "MANIFEST_TOO_LARGE"
    ELSE IF text.nul \/ Decode(text) # "object" THEN "INVALID_MANIFEST"
    ELSE AssertPlainTree(text.tree)

\* A sound document is read whichever of the three forms carries it, a text
\* that was meant as JSON is never read as something else, and what is read is
\* sound.
ParseSound(text) ==
    LET sound == text.isText /\ text.bytes <= LIMITS.bytes /\ ~text.nul /\ text.tree = "plain"
        carried == \/ text.json = "object"
                   \/ text.json = "error" /\ text.fence = "object"
                   \/ text.json = "error" /\ text.fence = "none" /\ ~text.looksJson /\ text.yaml = "object"
    IN  /\ Parse(text) = "parsed" <=> sound /\ carried
        /\ text.json = "error" /\ text.looksJson /\ text.fence = "none" => Parse(text) # "parsed"

Sections == <<"ENUM", "SEQUENCE", "FUNCTION", "PROCEDURE", "TABLE", "VIEW">>
NoSections == [t \in ToSet(Sections) |-> NoList]

\* The shorthand sections of a schema become its resources, in this order,
\* when it gives no resources; what is not an object in them is left out.
Fold(schema) ==
    IF ~IsObj(schema) \/ Given(schema.resources) THEN schema
    ELSE LET typed(t) == [k \in DOMAIN SelectSeq(schema.sections[t].items, IsObj) |->
                            [SelectSeq(schema.sections[t].items, IsObj)[k] EXCEPT !.type = t]]
         IN  [schema EXCEPT !.resources = List(FlattenSeq([i \in DOMAIN Sections |-> typed(Sections[i])]))]

\* A manifest of resources alone is a schema named after the namespace; the
\* process may pin every target (FABRIC_TARGET_SOURCE_OVERRIDE).
Normalize(m, override) ==
    LET wrapped == IF m.resources.kind # "absent" /\ ~Given(m.schemas)
                   THEN [m EXCEPT !.resources = NoList,
                                  !.schemas = List(<<[name |-> IF m.namespace = "none" THEN "default" ELSE m.namespace,
                                                      target |-> "none", bad |-> {}, sections |-> NoSections,
                                                      resources |-> m.resources]>>)]
                   ELSE m
        pinned(s) == IF override = "none" \/ ~IsObj(s) THEN s ELSE [s EXCEPT !.target = override]
    IN  [wrapped EXCEPT !.target = IF override = "none" THEN @ ELSE override,
                        !.schemas.items = [i \in DOMAIN @ |-> Fold(pinned(@[i]))]]

Declared(schema) ==
    UNION {{[r EXCEPT !.type = t] : r \in {x \in ToSet(schema.sections[t].items) : IsObj(x)}} : t \in ToSet(Sections)}

\* Normalising twice is normalising once, and nothing declared is lost but the
\* shorthand sections beside a list of resources.
NormalizeKeeps(m, override) ==
    LET n == Normalize(m, override)
        after(i) == ToSet(n.schemas.items[i].resources.items)
    IN  /\ Normalize(n, override) = n
        /\ Given(m.schemas) => \A i \in DOMAIN m.schemas.items :
              LET before == m.schemas.items[i]
              IN  IF ~IsObj(before) THEN n.schemas.items[i] = before
                  ELSE after(i) = IF Given(before.resources) THEN ToSet(before.resources.items) ELSE Declared(before)
        /\ ~Given(m.schemas) /\ m.resources.kind # "absent" => after(1) = ToSet(m.resources.items)
        /\ n.resources.kind # "absent" => Given(m.schemas)
        /\ override # "none" => \A s \in ToSet(n.schemas.items) : IsObj(s) => s.target = override

----------------------------------------------------------------------------
(* Validation: the codes of the issues found                                 *)

Issue(bad, code) == IF bad THEN {code} ELSE {}
Flaws(x, codes) == {codes[a] : a \in x.bad \cap DOMAIN codes}
CheckKeys(x) == Issue("keys" \in x.bad, "UNKNOWN_KEYS")
Items(list) == ToSet(list.items)
\* A list that may be left out.
OptionalList(list, max, code, issues) ==
    IF Given(list) /\ (list.kind # "array" \/ Len(list.items) > max) THEN {code} ELSE issues

\* "none": not given; "long": an identifier of 63 characters.
IsIdent(name) == name \notin {"none", "1bad"}
Ident(name) == Issue(~IsIdent(name), "INVALID_IDENTIFIER")
Idents(list) == UNION {Ident(name) : name \in Items(list)}
OptionalIdent(name) == IF name = "none" THEN {} ELSE Ident(name)
SourceName(name) == Issue(name = "bad!", "INVALID_SOURCE_NAME")
FreeSql(allow, present) == Issue(present /\ ~allow, "FREE_SQL_NOT_ALLOWED")
Expression(x, attribute) == Issue(attribute \in x.bad, "UNSAFE_EXPRESSION")

ReservedRoles == {"postgres"}
Role(r) == IF r = "PUBLIC" THEN {} ELSE Ident(r) \cup Issue(r \in ReservedRoles, "RESERVED_ROLE")
Roles(list) == UNION {Role(r) : r \in Items(list)}

RECURSIVE FindSourcesInQuery(_)
FindSourcesInQuery(q) ==
    {q.from.source} \cup {q.joins[i].source : i \in DOMAIN q.joins}
    \cup UNION {FindSourcesInQuery(q.legs[i]) : i \in DOMAIN q.legs}
    \cup UNION {FindSourcesInQuery(q.with[i].base) : i \in DOMAIN q.with}
    \cup UNION {IF Text!Present(q.with[i].unionAll) THEN FindSourcesInQuery(q.with[i].unionAll) ELSE {} : i \in DOMAIN q.with}

RECURSIVE ScanFreeSql(_)
ScanFreeSql(q) ==
    \/ \E i \in DOMAIN q.select : q.select[i].kind = "expression"
    \/ \E i \in DOMAIN q.where : q.where[i].kind = "expression"
    \/ \E i \in DOMAIN q.joins : q.joins[i].on = "text"
    \/ \E i \in DOMAIN q.legs : ScanFreeSql(q.legs[i])
    \/ \E i \in DOMAIN q.with : ScanFreeSql(q.with[i].base)
    \/ \E i \in DOMAIN q.with : Text!Present(q.with[i].unionAll) /\ ScanFreeSql(q.with[i].unionAll)

RECURSIVE CheckQueryNames(_)
\* Names are strict here, those of HAVING excepted; a derived table, which has
\* none, is refused.  A select item, a group, an order and a partition name
\* columns in the same way, aliases are names like a table's.
CheckQueryNames(q) ==
    /\ ~Text!Present(q.from.query) /\ Text!Strict(q.from.name)
    /\ \A i \in DOMAIN q.joins : Text!Strict(q.joins[i].name)
    /\ \A i \in DOMAIN q.select : q.select[i].kind = "column" => Text!Strict(q.select[i].fn)
    /\ \A i \in DOMAIN q.where : q.where[i].kind # "expression" => Text!Strict(q.where[i].column)
    /\ \A i \in DOMAIN q.legs : CheckQueryNames(q.legs[i])
    /\ \A i \in DOMAIN q.with : /\ Text!Strict(q.with[i].name) /\ CheckQueryNames(q.with[i].base)
                                /\ Text!Present(q.with[i].unionAll) => CheckQueryNames(q.with[i].unionAll)

ValidateQuery(q, allow) ==
    IF ~Text!Present(q) THEN {"INVALID_QUERY"}
    ELSE FreeSql(allow, ScanFreeSql(q)) \cup UNION {SourceName(s) : s \in FindSourcesInQuery(q)}
         \cup Issue(~CheckQueryNames(q), "INVALID_IDENTIFIER") \cup Issue(~Text!ValidateAst(q), "INVALID_QUERY")

Upper(type) == CASE type = "table" -> "TABLE" [] type = "enum" -> "ENUM" [] OTHER -> type
IsEnumPlaceholderType(type) == Upper(type) = "ENUM"
AssertColumnType(type, enums) == type \in {"TEXT", "INTEGER"} \cup enums

ColumnCodes ==
    [keys |-> "UNKNOWN_KEYS", length |-> "INVALID_LENGTH", strategy |-> "INVALID_STRATEGY", default |-> "UNSAFE_DEFAULT",
     generated |-> "UNSAFE_EXPRESSION", collation |-> "INVALID_COLLATION", comment |-> "INVALID_COMMENT",
     index |-> "INVALID_INDEX"]

ValidateColumnAnyEnum(c, enums) ==
    IF ~IsObj(c) THEN {"INVALID_COLUMN"}
    ELSE Flaws(c, ColumnCodes) \cup Ident(c.name) \cup OptionalIdent(c.ref)
         \cup (IF IsEnumPlaceholderType(c.type) THEN {} ELSE Issue(~AssertColumnType(c.type, enums), "INVALID_COLUMN_TYPE"))

ValidateColumn(c, enums) ==
    IF ~IsObj(c) THEN {"INVALID_COLUMN"}
    ELSE Flaws(c, ColumnCodes) \cup Ident(c.name) \cup OptionalIdent(c.ref)
         \cup (IF IsEnumPlaceholderType(c.type) THEN Issue(c.ref \notin enums, "UNKNOWN_ENUM")
               ELSE Issue(~AssertColumnType(c.type, enums), "INVALID_COLUMN_TYPE"))

ValidateConstraint(k) ==
    IF ~IsObj(k) THEN {"INVALID_CONSTRAINT"}
    ELSE CheckKeys(k) \cup Ident(k.name)
         \cup CASE k.type = "CHECK" -> Expression(k, "expression")
                [] k.type = "FOREIGN_KEY" -> {}
                [] k.type = "EXCLUDE" ->
                     Issue("using" \in k.bad \/ k.columns.items = <<>>, "INVALID_CONSTRAINT")
                     \cup UNION {Ident(c.name) \cup Issue(c.operator = "bad", "INVALID_OPERATOR") : c \in Items(k.columns)}
                [] OTHER -> {"INVALID_CONSTRAINT"}

\* One role stands for a list of it in a policy, and for nothing in a mask.
ArrayOf(list) == IF list.kind = "array" THEN list ELSE NoList
ValidatePolicy(p) ==
    IF ~IsObj(p) THEN {"INVALID_POLICY"}
    ELSE CheckKeys(p) \cup Ident(p.name) \cup Expression(p, "using") \cup Roles(p.roles)
ValidateMask(k) ==
    IF ~IsObj(k) THEN {"INVALID_MASKING"}
    ELSE CheckKeys(k) \cup Ident(k.column) \cup Expression(k, "expression") \cup Roles(ArrayOf(k.roles))
PRIVILEGES == {"SELECT", "ALL"}
ValidateGrant(g) ==
    IF ~IsObj(g) THEN {"INVALID_GRANT"}
    ELSE CheckKeys(g) \cup (IF g.role = "none" THEN {} ELSE Role(g.role)) \cup Roles(ArrayOf(g.roles))
         \cup Issue(g.privileges.items = <<>> \/ ~(ToSet(g.privileges.items) \subseteq PRIVILEGES), "INVALID_GRANT")
ValidateAccessPolicy(p) ==
    IF ~IsObj(p) THEN {"INVALID_POLICY"}
    ELSE CheckKeys(p) \cup Issue("name" \in p.bad, "INVALID_POLICY") \cup Idents(p.rowFilter) \cup Idents(p.masking)

\* Its lists are skipped when they are none.
ValidateSecurity(s) ==
    IF s = NotObject THEN {"INVALID_SECURITY"}
    ELSE CheckKeys(s) \cup Issue("enable_rls" \in s.bad, "INVALID_SECURITY")
         \cup UNION {ValidatePolicy(p) : p \in Items(s.policies)} \cup UNION {ValidateMask(k) : k \in Items(s.masking)}
         \cup UNION {ValidateGrant(g) : g \in Items(s.grants)}
         \cup UNION {ValidateAccessPolicy(p) : p \in Items(s.accessPolicies)}

ValidateTrigger(t, allow) ==
    CASE t = "free sql" -> FreeSql(allow, TRUE) [] t = "invalid" -> {"INVALID_TRIGGER"} [] OTHER -> {}

\* Two of those that count have the same key.
Repeats(keys) == \E i, j \in DOMAIN keys : i < j /\ keys[i] = keys[j]
ColumnKeys(columns) ==
    [i \in {j \in DOMAIN columns : IsObj(columns[j]) /\ columns[j].name # "none"} |-> columns[i].name]

ValidateTable(r, enums, allow) ==
    Issue(r.columns.items = <<>>, "INVALID_TABLE") \cup Issue(Len(r.columns.items) > LIMITS.columns, "TOO_MANY")
    \cup UNION {ValidateColumn(c, enums) : c \in Items(r.columns)}
    \cup Issue(Repeats(ColumnKeys(r.columns.items)), "DUPLICATE_NAME")
    \cup (CASE r.partitionBy = Nothing -> {}
            [] IsObj(r.partitionBy) /\ r.partitionBy.type \in {"RANGE", "LIST"} -> Ident(r.partitionBy.column)
            [] OTHER -> {"INVALID_PARTITION"})
    \cup (CASE r.identity = Nothing -> {}
            [] IsObj(r.identity) /\ r.identity.type = "PRIMARY_KEY" /\ r.identity.columns.items # <<>> ->
                  Idents(r.identity.columns)
            [] OTHER -> {"INVALID_IDENTITY"})
    \cup OptionalList(r.constraints, LIMITS.constraints, "INVALID_CONSTRAINTS",
                      UNION {ValidateConstraint(k) : k \in Items(r.constraints)})
    \cup OptionalList(r.triggers, LIMITS.triggers, "INVALID_TRIGGERS",
                      UNION {ValidateTrigger(t, allow) : t \in Items(r.triggers)})
    \cup (IF r.security = Nothing THEN {} ELSE ValidateSecurity(r.security))

ValidateArgument(a, enums) ==
    IF ~IsObj(a) THEN {"INVALID_ARGUMENT"}
    ELSE CheckKeys(a) \cup Ident(a.name) \cup Issue(~AssertColumnType(a.type, enums), "INVALID_COLUMN_TYPE")
         \cup Issue("mode" \in a.bad, "INVALID_ARGUMENT")

\* A body is required and is free-form SQL.
ValidateFunction(r, enums, allow) ==
    (LET list == IF Given(r.arguments) THEN r.arguments ELSE r.parameters
     IN  OptionalList(list, LIMITS.arguments, "INVALID_ARGUMENTS", UNION {ValidateArgument(a, enums) : a \in Items(list)}))
    \cup Issue(r.returnType # "none" /\ ~AssertColumnType(r.returnType, enums), "INVALID_COLUMN_TYPE")
    \cup (IF r.body = "none" THEN {"INVALID_BODY"} ELSE Issue(r.body = "dollar quotes", "INVALID_BODY") \cup FreeSql(allow, TRUE))

\* "" stands for a label that is empty, too long or no text.
ValidateEnum(r) ==
    Issue(r.values.items = <<>> \/ Len(r.values.items) > LIMITS.values \/ "" \in ToSet(r.values.items), "INVALID_ENUM")
ValidateSequence(r) ==
    CASE r.ownedBy = Nothing -> {}
      [] r.ownedBy = NotObject -> {"INVALID_SEQUENCE"}
      [] OTHER -> Ident(r.ownedBy.table) \cup Ident(r.ownedBy.column)
ValidateView(r, allow) ==
    ValidateQuery(r.query, allow)
    \cup OptionalList(r.indexes, Len(r.indexes.items), "INVALID_VIEW",
                      UNION {IF ~IsObj(x) \/ x.columns.items = <<>> THEN {"INVALID_VIEW"} ELSE Idents(x.columns) : x \in Items(r.indexes)})

Views == {"VIEW", "MATERIALIZED_VIEW"}
Functions == {"FUNCTION", "PROCEDURE"}
ResourceTypes == {"ENUM", "SEQUENCE", "TABLE"} \cup Views \cup Functions
SequenceCodes == [integer |-> "INVALID_SEQUENCE", strategy |-> "INVALID_SEQUENCE", generator |-> "UNSAFE_EXPRESSION"]
TableCodes ==
    [comment |-> "INVALID_COMMENT", maintenance |-> "INVALID_MAINTENANCE", maintenanceKeys |-> "UNKNOWN_KEYS",
     definitionSql |-> "INVALID_DEFINITION"]
ViewCodes == [refreshStrategy |-> "INVALID_VIEW", federationStrategy |-> "INVALID_VIEW", refreshInterval |-> "INVALID_VIEW"]
FunctionCodes == [language |-> "INVALID_LANGUAGE", volatility |-> "INVALID_VOLATILITY"]

\* A type in lower case is refused and checked as what it means.
ValidateResource(r, enums, allow) ==
    IF ~IsObj(r) THEN {"INVALID_RESOURCE"}
    ELSE IF Upper(r.type) \notin ResourceTypes THEN {"UNKNOWN_RESOURCE_TYPE"}
    ELSE LET type == Upper(r.type)
         IN  Issue(r.type # type, "UNKNOWN_RESOURCE_TYPE") \cup CheckKeys(r) \cup Ident(r.name)
             \cup CASE type = "ENUM" -> ValidateEnum(r)
                    [] type = "SEQUENCE" -> Flaws(r, SequenceCodes) \cup ValidateSequence(r)
                    [] type = "TABLE" -> Flaws(r, TableCodes) \cup ValidateTable(r, enums, allow)
                    [] type \in Views -> Flaws(r, ViewCodes) \cup ValidateView(r, allow)
                    [] type \in Functions -> Flaws(r, FunctionCodes) \cup ValidateFunction(r, enums, allow)

\* Tables and views share their names, so do functions and procedures.
NameSpace(type) ==
    CASE type \in Views \cup {"TABLE"} -> "REL" [] type \in Functions -> "FN" [] OTHER -> type

Lower(name) == IF name = "S" THEN "s" ELSE name
SchemaNameIssues(name) ==
    CASE ~IsIdent(name) -> {"INVALID_IDENTIFIER"}
      [] name = "public" -> {"RESERVED_SCHEMA"}
      [] name = "tenant_x" -> {"CROSS_TENANT_SCHEMA"}
      [] name = "long" -> {"NAME_TOO_LONG"}
      [] OTHER -> {}

EnumNames(resources) == {r.name : r \in {x \in resources : IsObj(x) /\ x.type = "ENUM" /\ x.name # "none"}}

ResourceKeys(items) ==
    [i \in {j \in DOMAIN items : IsObj(items[j]) /\ Upper(items[j].type) \in ResourceTypes /\ IsIdent(items[j].name)} |->
        <<NameSpace(Upper(items[i].type)), items[i].name>>]

ValidateSchema(s, allow) ==
    IF ~IsObj(s) THEN {"INVALID_SCHEMA"}
    ELSE CheckKeys(s) \cup SchemaNameIssues(s.name) \cup SourceName(s.target)
         \cup IF s.resources.kind # "array" THEN {"INVALID_SCHEMA"}
              ELSE Issue(Len(s.resources.items) > LIMITS.resources, "TOO_MANY")
                   \cup UNION {ValidateResource(r, EnumNames(Items(s.resources)), allow) : r \in Items(s.resources)}
                   \cup Issue(Repeats(ResourceKeys(s.resources.items)), "DUPLICATE_NAME")

ValidateSide(e) ==
    IF ~IsObj(e) THEN {"INVALID_RELATIONSHIP"}
    ELSE CheckKeys(e) \cup Ident(e.resource) \cup Ident(e.field) \cup SourceName(e.source)
ValidateRelationship(rel) ==
    IF ~IsObj(rel) THEN {"INVALID_RELATIONSHIP"}
    ELSE CheckKeys(rel) \cup Ident(rel.name) \cup Issue(rel.name = "long", "INVALID_IDENTIFIER")
         \cup Issue(rel.cardinality \notin {"1:1", "1:M", "M:N"}, "INVALID_RELATIONSHIP") \cup OptionalIdent(rel.bridge)
         \cup Issue(rel.cardinality = "M:N" /\ rel.bridge = "none", "INVALID_RELATIONSHIP")
         \cup ValidateSide(rel.from) \cup ValidateSide(rel.to)

EXTENSION_ALLOW == {"pgcrypto", "hstore"}
ValidateDownstream(d) ==
    IF ~IsObj(d) THEN {"INVALID_DOWNSTREAM"} ELSE CheckKeys(d) \cup Issue("type" \in d.bad, "INVALID_DOWNSTREAM")

DocumentCodes ==
    [forbidden |-> "FORBIDDEN_KEY", deep |-> "TOO_DEEP", keys |-> "UNKNOWN_KEYS", version |-> "INVALID_VERSION",
     consistencyMode |-> "INVALID_CONSISTENCY", namespace |-> "INVALID_NAMESPACE"]

SchemaKeys(items) ==
    [i \in {j \in DOMAIN items : IsObj(items[j]) /\ IsIdent(items[j].name)} |-> Lower(items[i].name)]

\* Resources beside schemas are an unknown key.  Schemas are told apart
\* whatever their case.
ValidateManifestDocument(m, tenantOk, allow) ==
    IF ~tenantOk THEN {"INVALID_TENANT"}
    ELSE IF ~IsObj(m) THEN {"INVALID_MANIFEST"}
    ELSE Flaws(m, DocumentCodes) \cup Issue(m.resources.kind # "absent", "UNKNOWN_KEYS") \cup SourceName(m.target)
         \cup OptionalList(m.extensions, LIMITS.extensions, "INVALID_EXTENSIONS",
                           Issue(~ Items(m.extensions) \subseteq EXTENSION_ALLOW \cup EXTRA_EXTENSIONS, "EXTENSION_NOT_ALLOWED"))
         \cup OptionalList(m.downstream, LIMITS.downstream, "INVALID_DOWNSTREAM",
                           UNION {ValidateDownstream(d) : d \in Items(m.downstream)})
         \cup (CASE m.schemas.items = <<>> -> {"INVALID_SCHEMAS"}
                 [] Len(m.schemas.items) > LIMITS.schemas -> {"TOO_MANY"}
                 [] OTHER -> UNION {ValidateSchema(s, allow) : s \in Items(m.schemas)}
                             \cup Issue(Repeats(SchemaKeys(m.schemas.items)), "DUPLICATE_NAME"))
         \cup OptionalList(m.relationships, LIMITS.rels, "INVALID_RELATIONSHIPS",
                           UNION {ValidateRelationship(rel) : rel \in Items(m.relationships)})

----------------------------------------------------------------------------
(* The compiler and the hub                                                  *)

\* The roles a grant is compiled for: the list, even an empty one, before the
\* single role.
GrantRoles(g) == CASE g.role = "PUBLIC" -> {"PUBLIC"} [] Given(g.roles) -> ToSet(g.roles.items) [] OTHER -> {g.role} \ {"none"}
SecurityCompiles(s) ==
    /\ s.rls => s.policies.kind # "other"
    /\ s.masking.kind # "other" /\ \A i \in DOMAIN s.masking.items : s.masking.items[i].roles.kind \notin {"one", "other"}
    /\ s.grants.kind # "other"
    /\ \A i \in DOMAIN s.grants.items : s.grants.items[i].roles.kind # "other" /\ GrantRoles(s.grants.items[i]) # {}

\* What is compiled for the hub before anything runs; a function only for a
\* manifest that was marked as allowed to hold free SQL.
ResourceCompiles(r, flag) ==
    CASE r.type = "TABLE" ->
            /\ r.security # Nothing => SecurityCompiles(r.security)
            /\ \A k \in ToSet(r.constraints.items) : k.type = "EXCLUDE" => "using" \notin k.bad /\ k.columns.items # <<>>
      [] r.type \in Views -> Text!ToSql(r.query, {}).ok
      [] r.type \in Functions -> flag
      [] OTHER -> TRUE

\* A bridge's column is named after a table and a field.
BridgeCompiles(rel) == rel.cardinality = "M:N" => "long" \notin {rel.from.resource, rel.from.field, rel.to.resource, rel.to.field}

\* Every statement is compiled before any runs: here those of the hub's engine.
Compiles(m, flag) ==
    /\ \A s \in ToSet(m.schemas.items) : IsIdent(s.name) /\ s.name # "long" /\ \A r \in ToSet(s.resources.items) : ResourceCompiles(r, flag)
    /\ \A rel \in ToSet(m.relationships.items) : BridgeCompiles(rel)

PrimaryKeys(r) ==
    IF r.identity # Nothing THEN {ToSet(r.identity.columns.items)} ELSE {{c.name} : c \in {x \in ToSet(r.columns.items) : x.primaryKey}}
Partition(r) == IF r.partitionBy = Nothing THEN {} ELSE {r.partitionBy.column}
Emitted(r) == SelectSeq(r.constraints.items, LAMBDA k : k.type # "FOREIGN_KEY")
ConstraintKeys(r) == [i \in {j \in DOMAIN Emitted(r) : IsObj(Emitted(r)[j])} |-> Emitted(r)[i].name]
Excluded(r) == UNION {IF k.type = "EXCLUDE" THEN {c.name : c \in ToSet(k.columns.items)} ELSE {} : k \in ToSet(Emitted(r))}

\* Whether the names, columns and keys of a schema are ones the hub takes.
Relations == Views \cup {"TABLE", "SEQUENCE"}
HubTakes(s) ==
    LET rs == s.resources.items
        named(types) == {i \in DOMAIN rs : rs[i].type \in types}
        distinct(types) == \A i, j \in named(types) : rs[i].name = rs[j].name => i = j
        unique(names) == Cardinality(ToSet(names)) = Len(names)
        enums == {rs[i].name : i \in named({"ENUM"})}
    IN  /\ distinct(Relations) /\ distinct(Functions) /\ distinct({"ENUM"} \cup Views \cup {"TABLE"})
        /\ \A i \in named({"ENUM"}) : unique(rs[i].values.items)
        /\ \A i \in named({"TABLE"}) :
            LET r == rs[i]
                names == [k \in DOMAIN r.columns.items |-> r.columns.items[k].name]
            IN  /\ names # <<>> /\ unique(names)
                /\ UNION PrimaryKeys(r) \cup Partition(r) \cup Excluded(r) \subseteq ToSet(names)
                /\ Cardinality(PrimaryKeys(r)) <= 1 /\ \A k \in PrimaryKeys(r) : Partition(r) \subseteq k
                /\ unique([k \in DOMAIN Emitted(r) |-> Emitted(r)[k].name])
                /\ \A c \in ToSet(r.columns.items) : AssertColumnType(IF IsEnumPlaceholderType(c.type) THEN c.ref ELSE c.type, enums)

\* What the validator lets through and the compiler or the hub refuses.
RefusedTable(r) ==
    LET columns == {c.name : c \in ToSet(r.columns.items)}
        keyed == {k \in DOMAIN r.columns.items : r.columns.items[k].primaryKey}
        s == r.security
    IN  \/ r.identity # Nothing /\ ~(ToSet(r.identity.columns.items) \subseteq columns)
        \/ r.identity = Nothing /\ Cardinality(keyed) > 1
        \/ r.partitionBy # Nothing /\ (\/ r.partitionBy.column \notin columns
                                       \/ \E k \in PrimaryKeys(r) : r.partitionBy.column \notin k)
        \/ ~(Excluded(r) \subseteq columns) \/ Repeats(ConstraintKeys(r))
        \/ IsObj(s) /\ (\/ OtherValue \in {s.masking, s.grants} \/ (s.rls /\ s.policies = OtherValue)
                        \/ \E k \in ToSet(s.masking.items) : k.roles.kind = "one"
                        \/ \E g \in ToSet(s.grants.items) : g.role # "PUBLIC" /\ (g.roles = List(<<>>) \/ (g.role = "none" /\ ~Given(g.roles)))
                        \/ \E g \in ToSet(s.grants.items) : g.roles = OtherValue)
Refused(m) ==
    \/ \E rel \in ToSet(m.relationships.items) :
          rel.cardinality = "M:N" /\ "long" \in {rel.from.resource, rel.from.field, rel.to.resource, rel.to.field}
    \/ \E s \in ToSet(m.schemas.items) :
          \/ \E p, q \in ToSet(s.resources.items) :
                p.name = q.name /\ (\/ p.type = "SEQUENCE" /\ q.type \in Views \cup {"TABLE"}
                                    \/ p.type = "ENUM" /\ q.type \in Views \cup {"TABLE"})
          \/ \E r \in ToSet(s.resources.items) :
                \/ r.type = "ENUM" /\ Repeats(r.values.items)
                \/ r.type = "TABLE" /\ RefusedTable(r)
                \/ r.type \in Views /\ Text!Unrendered(r.query)

FreeText(r) ==
    \/ r.type \in Functions
    \/ r.type = "TABLE" /\ "free sql" \in ToSet(r.triggers.items)
    \/ r.type \in Views /\ ScanFreeSql(r.query)

Accepted(m, allow) == ValidateManifestDocument(m, TRUE, allow) = {}

\* An accepted manifest compiles and deploys, but for the listed forms, and its
\* views read relations with plain names; the validator tells an owner from a
\* platform admin by free SQL alone, and an owner's manifest holds none.
AcceptedDeploys(m) ==
    /\ ValidateManifestDocument(m, TRUE, TRUE) = ValidateManifestDocument(m, TRUE, FALSE) \ {"FREE_SQL_NOT_ALLOWED"}
    /\ Accepted(m, TRUE) =>
          /\ Compiles(m, TRUE) /\ (\A s \in ToSet(m.schemas.items) : HubTakes(s)) <=> ~Refused(m)
          /\ \A i, j \in DOMAIN m.schemas.items : Lower(m.schemas.items[i].name) = Lower(m.schemas.items[j].name) => i = j
          /\ Accepted(Normalize(m, "none"), TRUE)
          /\ \A s \in ToSet(m.schemas.items) : \A v \in {x \in ToSet(s.resources.items) : x.type \in Views} :
                \A ref \in Text!ToSql(v.query, {}).refs : Text!Strict(ref.name)
    /\ Accepted(m, FALSE) => \A s \in ToSet(m.schemas.items) : \A r \in ToSet(s.resources.items) : ~FreeText(r)

----------------------------------------------------------------------------
(* Planning, applying and rolling back                                       *)

\* A platform admin, an owner who was allowed to, or the whole instance.
FreeSqlAllowed(options) == options.rights # {}

\* The mark that the compiler looks at is set when the validation is passed.
Prepare(m, options, flag) ==
    LET issues == ValidateManifestDocument(m, TRUE, FreeSqlAllowed(options))
    IN  [ok |-> issues = {}, flag |-> IF issues = {} THEN FreeSqlAllowed(options) ELSE flag]

QuerySources(m, types) ==
    UNION {UNION {IF r.type \in types THEN FindSourcesInQuery(r.query) ELSE {} : r \in ToSet(s.resources.items)} :
               s \in ToSet(m.schemas.items)}

\* Targets of single schemas and materialized views are not looked at.
ReferencedSources(m) ==
    ({m.target} \cup QuerySources(m, {"VIEW"}) \cup UNION {{rel.from.source, rel.to.source} : rel \in ToSet(m.relationships.items)})
        \ {"none", "hub"}
Up == {"ACTIVE", "CONNECTED"}
ValidateDataSources(m, status) == \A src \in ReferencedSources(m) : src \in DOMAIN status /\ status[src] \in Up

Plan(m, options, flag) == Prepare(m, options, flag).ok

\* `plan`: how many changes are of high risk, and the schemas it creates.
\* Everything is compiled before anything runs.
Apply(m, options, flag, status, plan) ==
    LET prepared == Prepare(m, options, flag)
        outcome == IF ~prepared.ok THEN "invalid"
                   ELSE IF ~ValidateDataSources(m, status) THEN "source"
                   ELSE IF plan.highRisk > 0 /\ ~options.force THEN "high risk"
                   ELSE IF ~Compiles(m, prepared.flag) THEN "compile" ELSE "run"
    IN  [outcome |-> outcome,
         creates |-> plan.creates \cup (IF options.force THEN {s.name : s \in ToSet(m.schemas.items)} ELSE {})]

\* A version of another workspace, or no id at all, is not found; a stored
\* manifest is validated again, for whoever rolls back to it.
Rollback(m, id, tenant, options, status, plan) ==
    IF ~id.wellFormed \/ id.tenant # tenant THEN [outcome |-> "not found"]
    ELSE Apply(m, [options EXCEPT !.force = TRUE], FALSE, status, plan)

\* What runs was planned, was checked for this caller whatever the manifest
\* was marked before, drops nothing unasked, and the sources it names are up,
\* save those not looked at; a forced one makes every schema.  A version rolls
\* back for whoever could force it.
ApplyChecked(m, options, flag, status, plan) ==
    LET apply == Apply(m, options, flag, status, plan)
        forced == Apply(m, [options EXCEPT !.force = TRUE], flag, status, plan)
        sources == ({m.target} \cup QuerySources(m, Views) \cup {s.target : s \in ToSet(m.schemas.items)}) \ {"none", "hub"}
        id(tenant) == [wellFormed |-> TRUE, tenant |-> tenant]
    IN  /\ apply.outcome = "run" =>
              /\ Plan(m, options, flag) /\ (plan.highRisk > 0 => options.force)
              /\ \A src \in sources : \/ src \in DOMAIN status /\ status[src] \in Up
                                      \/ src # m.target /\ src \notin QuerySources(m, {"VIEW"})
              /\ options.force => \A s \in ToSet(m.schemas.items) : s.name \in apply.creates
        /\ apply = Apply(m, options, ~flag, status, plan)
        /\ apply.outcome = "run" => forced.outcome = "run"
        /\ Rollback(m, id("t"), "t", options, status, plan) = forced
        /\ Rollback(m, id("u"), "t", options, status, plan).outcome = "not found"

----------------------------------------------------------------------------
(* Relationships on the hub, all in the manifest's first schema.  `schemas`   *)
(* gives each schema's tables and their columns: the type, and whether it is  *)
(* a key.  A foreign key has a name, a table, its column and what it refers   *)
(* to; a bridge is a table of two columns.                                    *)

\* The first schema with such a column.
FindColumnType(schemas, side) ==
    LET having == {i \in DOMAIN schemas : side.resource \in DOMAIN schemas[i] /\ side.field \in DOMAIN schemas[i][side.resource]}
    IN  IF having = {} THEN "UUID" ELSE schemas[CHOOSE i \in having : \A j \in having : i <= j][side.resource][side.field].type

Reference(name, table, column, parent) ==
    [name |-> name, table |-> table, column |-> column, parent |-> [resource |-> parent.resource, field |-> parent.field]]
Failed(db) == [db |-> db, ok |-> FALSE]
Done(db) == [db |-> db, ok |-> TRUE]

OnHub(schemas, side) == side.resource \in DOMAIN schemas[1] /\ side.field \in DOMAIN schemas[1][side.resource]
\* A column of this type may refer to it.
Refers(schemas, type, parent) ==
    /\ OnHub(schemas, parent) /\ schemas[1][parent.resource][parent.field] = [type |-> type, key |-> TRUE]

AddConstraint(db, fk, fits) ==
    IF fits /\ ~\E f \in db.fks : f.name = fk.name /\ f.table = fk.table
    THEN Done([db EXCEPT !.fks = @ \cup {fk}]) ELSE Failed(db)
\* ADD CONSTRAINT unless the whole database has a constraint of that name.
AddForeignKey(db, fk, fits) ==
    IF \E f \in db.fks : f.name = fk.name THEN Done(db) ELSE AddConstraint(db, fk, fits)

\* CREATE TABLE IF NOT EXISTS, with the types found in the manifest; then only
\* a bridge to a remote source gets its key separately, for its "from" side,
\* wherever that is.
ProvisionBridge(rel, schemas, db) ==
    LET column(side) == <<rel[side].resource, rel[side].field>>
        type(side) == FindColumnType(schemas, rel[side])
        local == rel.from.source = "none" /\ rel.to.source = "none"
        exists == rel.bridge \in {b.name : b \in db.bridges} \cup DOMAIN schemas[1]
        bridge == [name |-> rel.bridge, columns |-> [c \in {column("from"), column("to")} |-> type(IF c = column("from") THEN "from" ELSE "to")]]
        made == [db EXCEPT !.bridges = @ \cup {bridge},
                           !.fks = IF local THEN @ \cup {Reference(<<"inline", rel.bridge, column(side)>>, rel.bridge, column(side), rel[side]) :
                                                            side \in {"from", "to"}} ELSE @]
        created == exists \/ (column("from") # column("to") /\ (local => \A side \in {"from", "to"} : Refers(schemas, type(side), rel[side])))
        after == IF exists THEN db ELSE made
        fits == \E b \in after.bridges : /\ b.name = rel.bridge /\ column("from") \in DOMAIN b.columns
                                         /\ Refers(schemas, b.columns[column("from")], rel.from)
    IN  IF ~created THEN Failed(db)
        ELSE IF local THEN Done(after)
        ELSE LET added == AddForeignKey(after, Reference(<<"fk", rel.name, "from">>, rel.bridge, column("from"), rel.from), fits)
             IN  IF added.ok THEN added ELSE Failed(db)

\* The key of a 1:M or 1:1 relationship is on the child; an apply that fails
\* is rolled back.
ProvisionRelationship(rel, schemas, db) ==
    CASE rel.cardinality = "M:N" /\ rel.bridge # "none" -> ProvisionBridge(rel, schemas, db)
      [] rel.cardinality \in {"1:M", "1:1"} /\ rel.from.source = "none" /\ rel.to.source = "none" ->
            AddForeignKey(db, Reference(<<"fk", rel.name>>, rel.to.resource, <<rel.to.field>>, rel.from),
                          OnHub(schemas, rel.to) /\ Refers(schemas, schemas[1][rel.to.resource][rel.to.field].type, rel.from))
      [] OTHER -> Done(db)

\* Between tables of the hub, and with names no other relationship has, orphans
\* are refused on every side that refers to another; a parent needs no child, a
\* second apply changes nothing, and it fails only when a side is not a key of
\* the first schema, or the child's column has another type.
RelationshipHolds(rel, schemas, db) ==
    LET first == ProvisionRelationship(rel, schemas, db)
        again == ProvisionRelationship(rel, schemas, first.db)
        local == rel.from.source = "none" /\ rel.to.source = "none"
        free == /\ \A f \in db.fks : f.name[1] = "fk" => f.name[2] # rel.name
                /\ rel.bridge \notin {b.name : b \in db.bridges} \cup DOMAIN schemas[1]
        refers(t, side) == \E f \in first.db.fks : /\ f.table = t /\ f.parent.resource = side.resource
                                                   /\ f.parent.field = side.field
        key(side) == OnHub(schemas, side) /\ schemas[1][side.resource][side.field].key
    IN  /\ first.ok /\ local /\ free =>
              IF rel.cardinality = "M:N" THEN refers(rel.bridge, rel.from) /\ refers(rel.bridge, rel.to)
              ELSE refers(rel.to.resource, rel.from)
        /\ first.ok => again = first
        /\ ~first.ok => first.db = db
        /\ rel.from.resource # rel.to.resource => \A f \in first.db.fks \ db.fks : f.table # rel.from.resource
        /\ local /\ free /\ key(rel.from) =>
              IF rel.cardinality = "M:N"
              THEN first.ok <=> (key(rel.to) /\ <<rel.from.resource, rel.from.field>> # <<rel.to.resource, rel.to.field>>)
              ELSE first.ok <=> (OnHub(schemas, rel.to) /\ FindColumnType(schemas, rel.to) = FindColumnType(schemas, rel.from))
=============================================================================
