------------------------------ MODULE AllCases -------------------------------
(* The small inputs on which the pure parts of the fabric are evaluated: what  *)
(* queries return, wherever they run; what manifests declare; and what the     *)
(* platform's pure services answer, namely the catalog of sources, and who may *)
(* call what and see which rows.                                               *)
EXTENDS Integers, Sequences, FiniteSets, Federation, FabricCompute

\* A behaviour picks one of the small inputs of a pure function, then evaluates
\* it in one of the ways the code may.
VARIABLES case,    \* a record with the subject and its inputs
          result   \* Pending, then what the code returns

vars == <<case, result>>

Pending == [done |-> FALSE]

Unevaluated(subject) == case.subject = subject /\ result = Pending
Evaluated(subject) == case.subject = subject /\ result.done

Judge(ok) == result' = [done |-> TRUE, ok |-> ok] /\ UNCHANGED case

----------------------------------------------------------------------------
(* The cases                                                                 *)

\* Windows, caps and batches beyond these joins, but for the cases about them.
Ample == [window |-> 100, cap |-> 100, bindMax |-> 100]
Tight == [window : {1, 2}, cap : {1, 2, 100}, bindMax : {1, 100}]
JoinCases ==
    [subject : {"join"}, env : {Ample}, where : Wheres,
     legs : {TwoLegs(ta, tb, e, t, "EQ") : ta \in {s \in SmallTables : Cardinality(s) <= 1}, tb \in SmallTables,
                e \in {"POSTGRES", "MONGODB"}, t \in {"INNER", "LEFT"}}]
    \cup
    [subject : {"join"}, env : {Ample}, where : {<< >>},
     legs : {TwoLegs(ta, tb, "POSTGRES", t, op) : ta \in SmallTables, tb \in SmallTables,
                t \in {"INNER", "LEFT", "RIGHT", "FULL"}, op \in {"EQ", "NE", "LT", "LTE", "GT", "GTE"}}]
    \cup
    [subject : {"join"}, env : Tight, where : {<< >>},
     legs : {TwoLegs(ta, tb, "POSTGRES", t, op) : ta \in {s \in SmallTables : Cardinality(s) = 2}, tb \in SmallTables,
                t \in {"INNER", "LEFT"}, op \in {"EQ", "GTE"}}]
    \cup
    [subject : {"join"}, env : {Ample}, where : {<< >>} \cup TwoConstants,
     legs : {ThreeLegs(ta, tb, tc, hub, t) : ta \in Keys, tb \in Keys, tc \in Keys,
                hub \in {"a", "b"}, t \in {"INNER", "LEFT"}}]

SetOpCases ==
    [subject : {"setop"}, op : {"UNION", "INTERSECT", "EXCEPT"},
     legs : {<<s, t>> : s \in BoundedSeq(1 .. 3, 2), t \in BoundedSeq(1 .. 3, 2)}
            \cup {<<s, <<1>>, <<1, 2>>>> : s \in BoundedSeq(1 .. 3, 2)},
     order : {"none", "ASC", "DESC"}, limit : {NoLimit, 0, 1, 3}, offset : {0, 1}, envCap : {NoLimit, 2}]

AggregateRows == BoundedSeq([g : {1, 2}, x : {NoValue, 1, 2}], 2)
AggregateCases ==
    [subject : {"aggregate"}, func : Functions,
     legs : {<<[rows |-> r, engine |-> e], [rows |-> s, engine |-> "POSTGRES"]>> :
                r \in AggregateRows, s \in AggregateRows, e \in {"POSTGRES", "MONGODB"}}]

WindowCases ==
    [subject : {"window"}, fn : WindowFunctions,
     rows : BoundedSeq([p : {1, 2}, o : {1, 2}, x : {1}], 2)
            \cup [1 .. 4 -> [p : {1}, o : {1, 2}, x : {Missing, 2}]]]

Hierarchies == {t \in SUBSET [id : 1 .. 3, parent : {Missing} \cup 1 .. 3] :
                    Cardinality(t) \in 1 .. 4 /\ \E r \in t : r.id = 1}
HierarchyCases ==
    [subject : {"hierarchy"}, table : Hierarchies, direction : {"up", "down"}, maxDepth : {1, 2, 4},
     maxRows : {2, 9}]
    \cup [subject : {"cte"}, table : Hierarchies]

JoinedRefs == {Ref("a", "x"), Ref("b", "y"), Ref("b", "x"), Ref("none", "x"), Ref("none", "z")}
Selected == [kind : {"column", "aggregate"}, ref : JoinedRefs \cup {Ref("a", "*"), Ref("none", "*")}, alias : {"none", "z"}]
            \cup [kind : {"opaque"}, ref : {Ref("none", "expression")}, alias : {"z"}]
UpToOne(S) == {{}} \cup {{x} : x \in S}
ListItems ==
    [kind : {"name", "star"}, column : {"x", "y"}, by : {"none"}, alias : {"none"}, fn : {"none"}, simple : {TRUE}]
    \cup [kind : {"column", "expression"}, column : {"x", "y"}, by : {"none"}, alias : {"none", "n"}, fn : {"none"}, simple : BOOLEAN]
    \cup [kind : {"window"}, column : {"none", "x"}, by : {"none", "y"}, alias : {"none", "n"}, fn : {"rank"}, simple : {TRUE}]
NameItem == [kind |-> "name", func |-> "none", distinct |-> FALSE, column |-> "x", alias |-> "none"]
AggregateItems ==
    [kind : {"name", "column", "star"}, func : {"none"}, distinct : {FALSE}, column : {"x", "y"}, alias : {"none"}]
    \cup [kind : {"aggregate"}, func : {"COUNT", "SUM"}, distinct : BOOLEAN, column : {"x", "y", "all"}, alias : {"none", "n"}]
NamedItems == [column : {"x", "y"}, alias : {"none", "n", "y"}]
ColumnCases ==
    [subject : {"columns"},
     q : [select : {<<>>} \cup {<<s>> : s \in Selected} \cup {<<s, t>> : s \in Selected, t \in {u \in Selected : u.alias = "z"}},
          on : {{Ref("a", "k"), Ref("b", "k")}}, where : UpToOne(JoinedRefs), order : UpToOne(JoinedRefs), having : {{}},
          opaqueWhere : BOOLEAN]]
    \cup [subject : {"list"}, select : {<<i>> : i \in ListItems} \cup ListItems \X ListItems]
    \cup [subject : {"row"}, row : [{"x", "y"} -> {1, 2}], other : [{"x", "y"} -> {1, 2}],
          select : {<<i>> : i \in NamedItems} \cup NamedItems \X NamedItems,
          selectOther : {<<i>> : i \in NamedItems} \cup NamedItems \X NamedItems]
    \cup [subject : {"aggregates"}, groupBy : {<<>>, <<"x">>, <<"x", "x">>, <<"x", "y">>},
           select : BoundedSeq(AggregateItems, 2) \cup {<<i, [NameItem EXCEPT !.column = "y"], NameItem>> : i \in AggregateItems}]
    \cup [subject : {"steps"}, rows : BoundedSeq(1 .. 3, 3),
          q : [shape : {"setop", "fan", "join", "single"}, aggregate : BOOLEAN, distinct : BOOLEAN, having : {NoValue, 1},
               order : {"none", "ASC", "DESC"}, limit : {NoLimit, 0, 1}, offset : {0, 1}]]

QueryInputs == ColumnCases \cup JoinCases \cup SetOpCases \cup AggregateCases \cup WindowCases \cup HierarchyCases

----------------------------------------------------------------------------
(* Evaluation                                                                *)

\* executeJoin under one choice of driving side and join method.
RunJoin ==
    /\ Unevaluated("join")
    /\ \E s \in Strategies(case.legs) :
            result' = [done |-> TRUE, best |-> s[1], broadcast |-> s[2]]
                         @@ ExecuteJoin(case.legs, case.where, s, case.env)
    /\ UNCHANGED case

\* executeSetOp with as many partitions as the estimates ask for.
RunSetOp ==
    /\ Unevaluated("setop")
    /\ \E n \in PartitionCounts(case.limit) :
            result' = [done |-> TRUE] @@ ExecuteSetOp(case.op, case.legs, case.order, case.limit, case.offset,
                                                     case.envCap, n)
    /\ UNCHANGED case

RunAggregate ==
    /\ Unevaluated("aggregate")
    /\ result' = [done |-> TRUE, merged |-> FanAggregate(case.func, case.legs),
                  raw |-> AggregateRaw(case.func, AllRows(case.legs))]
    /\ UNCHANGED case

RunWindow ==
    /\ Unevaluated("window")
    /\ \E p \in {1, 2} :
            result' = [done |-> TRUE, part |-> Partition(case.rows, p),
                       values |-> WindowValues(case.fn, Partition(case.rows, p))]
    /\ UNCHANGED case

RunHierarchy ==
    /\ Unevaluated("hierarchy")
    /\ result' = [done |-> TRUE] @@ RecursiveRun(case.table, {1}, case.direction, case.maxDepth, case.maxRows)
    /\ UNCHANGED case

RunCte ==
    /\ Unevaluated("cte")
    /\ result' = [done |-> TRUE, levels |-> CteRun(case.table, {1})]
    /\ UNCHANGED case

RunColumns ==
    Unevaluated("columns") /\ Judge(ProjectionSuffices(case.q, [l \in LegNames |-> IF l = "a" THEN {"k", "x"} ELSE {"k", "x", "y", "z"}]))
RunList == Unevaluated("list") /\ Judge(SelectKept(case.select, {"x", "y"}))
RunNames == Unevaluated("aggregates") /\ Judge(AggregatesNamed(case.select, case.groupBy))
RunRow == Unevaluated("row") /\ Judge(RowsCompareByValue(case.row, case.other, case.select, case.selectOther))
RunSteps == Unevaluated("steps") /\ Judge(StepsInOrder(case.q, case.rows))

RunQuery == RunColumns \/ RunList \/ RunNames \/ RunRow \/ RunSteps \/ RunJoin \/ RunSetOp \/ RunAggregate \/ RunWindow \/ RunHierarchy \/ RunCte

----------------------------------------------------------------------------
(* Properties                                                                *)

\* Where the WHERE and the keys are compared in memory as SQL compares them.
SafeJoin ==
    /\ SafeKeys(case.legs, result.broadcast)
    /\ \A i \in DOMAIN case.where : SafePredicate(case.legs, case.where[i])

\* Every row of the answer is one of SQL's, and all of them are there unless the
\* join warned or reached its cap.  (Where a leg was cut, an outer join takes rows
\* for unmatched that are not.)
AnswersJoin ==
    LET exact == SqlJoin(case.legs, case.where)
        outer == \E i \in DOMAIN case.legs : case.legs[i].type = "LEFT"
    IN  /\ (result.warned /\ outer) \/ result.rows \subseteq exact
        /\ result.warned \/ result.joined >= case.env.cap \/ result.rows = exact

\* A federated join returns what SQL returns, whichever side drives and whether
\* the sides are broadcast or bound, as long as each leg is still joined to one
\* before it (executeJoin).  It is not where the third of three legs drives: the
\* second has no keys then, and the answer is empty.
JoinExact ==
    Evaluated("join") /\ SafeJoin /\ JoinedInOrder(Reorder(case.legs, result.best)) => AnswersJoin

\* A UNION, INTERSECT or EXCEPT that raises no truncation warning is an answer
\* to the query, with its order, offset and limit, however it was partitioned.
UnwarnedSetOpExact ==
    Evaluated("setop") =>
    result.warned \/ AnswersSetOp(result.rows, case.op, case.legs, case.order, case.limit, case.offset)

\* Aggregates pushed to several sources and merged give the aggregate of all
\* the rows, and a distinct count at least never falls short.
MergedAggregateExact ==
    Evaluated("aggregate") =>
    LET exact == SqlGroups(case.func, AllRows(case.legs))
    IN  /\ DOMAIN result.merged = DOMAIN exact
        /\ MergeableExactly(case.func, case.legs) => result.merged = exact
        /\ case.func = "COUNT_DISTINCT" => \A g \in DOMAIN exact : result.merged[g] >= exact[g]

\* Aggregating in the fabric gives SQL's answer on columns without NULLs, and
\* the right counts on every column.
RawAggregateExact ==
    Evaluated("aggregate") =>
    LET rows == AllRows(case.legs)
    IN  \/ case.func # "COUNT" /\ \E i \in DOMAIN rows : rows[i].x = NoValue
        \/ result.raw = SqlGroups(case.func, rows)

\* The window functions computed by the fabric: ranks by definition, running
\* totals where no two rows share an order key (applyWindows).
WindowExact ==
    Evaluated("window") =>
    \A i \in DOMAIN result.part :
        CASE case.fn \in {"RANK", "DENSE_RANK", "CUME_DIST"} ->
                result.values[i] = SqlWindow(case.fn, result.part, i)
          [] case.fn \in {"SUM", "COUNT"} /\ DistinctOrder(result.part) ->
                result.values[i] = SqlWindow(case.fn, result.part, i)
          [] OTHER -> TRUE

\* A traversal that reports neither truncation returns every node reachable
\* from the seeds; it always returns a node once, at its distance.  (Upwards a
\* node has one row: of several parents only the first is followed.)
TraversalComplete ==
    /\ Evaluated("hierarchy")
    /\ case.direction = "up" => \A r, q \in case.table : r.id = q.id => r = q
    =>
    LET ids == {result.out[i].id : i \in DOMAIN result.out}
        near(n) == Within(case.table, {1}, case.direction, n)
    IN  /\ ~result.byDepth /\ ~result.byRows => ids = near(MaxLevels)
        /\ Cardinality(ids) = Len(result.out)
        /\ \A i \in DOMAIN result.out : LET o == result.out[i] IN
              o.id \in near(o.depth) /\ (o.depth > 0 => o.id \notin near(o.depth - 1))

\* A recursive CTE over an acyclic table reaches every node below the seeds.
CteComplete ==
    Evaluated("cte") =>
    \/ ~Acyclic(case.table)
    \/ {r.id : r \in UNION ToSet(result.levels)} = Within(case.table, {1}, "down", MaxLevels)

\* What the federation engine answers from several sources: joins, set
\* operations, everything the fabric computes itself on rows it fetched, the
\* columns it asks the sources for, and the order of the steps.
FederationExact ==
    /\ JoinExact /\ UnwarnedSetOpExact /\ MergedAggregateExact /\ RawAggregateExact /\ WindowExact
    /\ TraversalComplete /\ CteComplete
    /\ \A subject \in {"columns", "list", "aggregates", "row", "steps"} : Evaluated(subject) => result.ok
----------------------------------------------------------------------------
(* Roads and sources                                                         *)

Routing == INSTANCE QueryRouting
Source == INSTANCE SourcePushdown

Limits == {Routing!None, 0, 1, 3}
Batches == {<<a, b>> : a, b \in UNION {[d -> {1, 2}] : d \in (SUBSET {"p", "q"}) \ {{}}}}

PhysicalNames == {<<"x">>, <<"public">>, <<"fabric", "system">>, <<"tenant", "a">>, <<"tenant", "a", "x">>, <<"tenant", "b">>, <<"tenant", "ab">>}
WrittenNames == {Routing!Missing, [name |-> <<>>, plain |-> FALSE]} \cup [name : PhysicalNames, plain : BOOLEAN]
HubCalls ==
    [tenant : {"a"}, parts : {<<>>} \cup {<<f>> : f \in {Routing!Plain(<<"f">>), [name |-> <<"f">>, plain |-> FALSE]}}
                                \cup {<<n, Routing!Plain(<<"f">>)>> : n \in WrittenNames}
                                \cup {<<n, Routing!Plain(<<"f">>), Routing!Plain(<<"f">>)>> : n \in {Routing!Plain(<<"x">>)}},
     schema : WrittenNames \cup {Routing!Plain(<<"default">>)}, args : {1, 101}, procedure : BOOLEAN, settles : {TRUE}, mongo : {TRUE},
     error : {"none", "42883", "42P01", "other"}]
StatementTypes == Routing!TableTypes \cup {"SELECT", "CREATE_VIEW", "CREATE_SCHEMA", "CREATE_SEQUENCE"}
HubStatements ==
    [type : StatementTypes, text : {"safe", "unsafe"}, with : BOOLEAN, join : {"none", "bad", "CROSS", "INNER without ON"},
     rows : {"some", "none", "without columns"}, action : {"ADD_COLUMN", "DROP_COLUMN", "other"}, table : BOOLEAN,
     fails : {FALSE}, tenant : {"ACTIVE"}, limit : {TRUE}, filter : {TRUE}, aggregate : {FALSE}]
    \cup [type : StatementTypes, text : {"safe"}, with : {FALSE}, join : {"none"}, rows : {"some"}, action : {"DROP_COLUMN"},
          table : {TRUE}, fails : BOOLEAN, tenant : {"ACTIVE", "SUSPENDED", "unread"}, limit : BOOLEAN, filter : BOOLEAN,
          aggregate : BOOLEAN]
GeneratorRule == [field : {"f", "h"}, kind : {"uuid", "sequence", "function", "other"}, schema : {"none", "y"}]
GeneratorRules == {<<>>} \cup {<<r>> : r \in GeneratorRule} \cup GeneratorRule \X GeneratorRule
ConstrainedColumns == [notNull : BOOLEAN, primaryKey : BOOLEAN, unique : BOOLEAN, enum : {"none", "reference", "type"}, fk : BOOLEAN]
Loose == [notNull |-> FALSE, primaryKey |-> FALSE, unique |-> FALSE, enum |-> "none", fk |-> FALSE]
CheckParts == [kind : {"compare"}, op : {"GT", "LTE", "EQ", "NEQ"}, n : {1}] \cup [kind : {"match", "imatch", "other"}, op : {"none"}, n : {1}]
CheckConjunctions == {<<p>> : p \in CheckParts} \cup CheckParts \X CheckParts
CheckTexts == {<<c>> : c \in CheckConjunctions} \cup {<<c, d>> : c \in {<<p>> : p \in CheckParts}, d \in CheckConjunctions}
SentValues == [kind : {"number", "text"}, n : 0 .. 2] \cup {[kind |-> k, n |-> 0] : k \in {"absent", "null"}}

\* One or two legs, or two beside the hub.
RoadLegs == {L \in SUBSET Routing!Legs : Cardinality({l \in L : l.form # "local"}) \in 1 .. 2 \/ Cardinality(L) = 1}

RoutingInputs ==
    [subject : {"target"}, entries : {{}} \cup {{a, b} : a, b \in Routing!Entries},
     source : Routing!SourceNames \cup {"none"}]
    \cup [subject : {"road"}, legs : RoadLegs, q : Routing!Shapes,
          env : [policy : BOOLEAN, fails : BOOLEAN, admin : BOOLEAN, feature : BOOLEAN]]
    \cup [subject : {"ceiling"}, road : Routing!LimitRoads, n : 0 .. 4, request : [limit : Limits, inner : Limits],
          view : {Routing!None, 1, 4}, cap : {Routing!None, 2}, admin : BOOLEAN]
    \cup [subject : {"filter"}, op : Routing!FilterOps, x : 0 .. 2, v : 0 .. 2]
    \cup [subject : {"insert"}, rows : Batches]
    \cup [subject : {"name"}, c : HubCalls, physical : {<<"x">>}, view : {Routing!Plain(<<"v">>)}, hub : {{}}, catalog : {{}}]
    \cup [subject : {"name"}, c : {c \in HubCalls : c.parts = <<>> /\ c.error = "none" /\ c.procedure}, physical : PhysicalNames,
          view : {Routing!Missing} \cup [name : {<<"v">>}, plain : BOOLEAN],
          hub : SUBSET {<<<<"tenant", "a">>, <<"v">>>>, <<<<"tenant", "a", "x">>, <<"v">>>>}, catalog : {{}, {<<"v">>}}]
    \cup [subject : {"statement"}, c : HubStatements]
    \cup [subject : {"value"}, kind : Routing!ValueKinds, json : BOOLEAN]
    \cup [subject : {"job"}, job : [owner : {"me"}, created : {1}, ended : 0 .. 6], caller : {"me", "other"},
          submissions : SUBSET (2 .. 6), now : 1 .. 7]
    \cup [subject : {"generate"}, doc : {<<>>, [f |-> "given", g |-> "given"]}, rules : GeneratorRules, fallback : {"none", "x"},
          path : {<<"tenant", "b">>}]
    \cup [subject : {"constrain"}, column : ConstrainedColumns, check : {<<>>}, v : SentValues, op : {"create", "update"}]
    \cup [subject : {"constrain"}, column : {Loose}, check : CheckTexts, v : SentValues, op : {"create", "update"}]

LogEntries == [tenant : {"a", "b"}, status : {"SUCCESS", "ERROR"}]
LogUses == [user : {"none", "u", "v"}, role : {"none", "ADMIN", "VIEWER"}]
LogInputs ==
    [subject : {"logged"}, answer : [fails : BOOLEAN, envelope : [rowCount : {Routing!None, 0, 2}, data : {0, 2}, scanned : {Routing!None, 5},
                                                                 legs : BoundedSeq({1, 2}, 2)]], stores : BOOLEAN]
    \cup [subject : {"listed"}, entries : BoundedSeq(LogEntries, 4), tenant : {"a"}, status : {"any", "ERROR"}, asked : {Routing!None, -2} \cup 0 .. 4]
    \cup [subject : {"usage"}, logs : BoundedSeq(LogUses, 3), registered : {[u |-> "ADMIN"], [u |-> "VIEWER", w |-> "ANALYST"]}]

RunLogged == Unevaluated("logged") /\ Judge(Routing!LogKeeps(case.answer, case.stores))
RunListed ==
    Unevaluated("listed")
    /\ Judge(Routing!ListHolds([i \in DOMAIN case.entries |-> case.entries[i] @@ [at |-> i]], case.tenant, case.status, case.asked))
RunUsage == Unevaluated("usage") /\ Judge(Routing!UsageHolds(case.logs, case.registered))

RunTarget == Unevaluated("target") /\ Judge(Routing!ReadsSeeWrites(case.entries, case.source))
RunRoad == Unevaluated("road") /\ Judge(Routing!RoadReadsAll(case.legs, case.q, case.env))
RunCeiling ==
    Unevaluated("ceiling")
    /\ Judge(Routing!RowsBounded(case.road, case.n, case.request, case.view, case.cap, case.admin))
RunFilter == Unevaluated("filter") /\ Judge(Routing!FiltersAgree(case.op, case.x, case.v))
RunInsert == Unevaluated("insert") /\ Judge(Routing!InsertsKeepValues(case.rows))

RunName == Unevaluated("name") /\ Judge(Routing!NamesHold(case.c, case.physical, case.view, case.hub, case.catalog))
RunStatement == Unevaluated("statement") /\ Judge(Routing!StatementsHold(case.c))
RunValue == Unevaluated("value") /\ Judge(Routing!ValuesHold(case.kind, case.json))
RunJob == Unevaluated("job") /\ Judge(Routing!JobsHold(case.job, case.caller, case.submissions, case.now))
RunGenerate == Unevaluated("generate") /\ Judge(Routing!GeneratorsHold("a", case.doc, case.rules, case.fallback, case.path))
RunConstrain ==
    Unevaluated("constrain") /\ Judge(Routing!ConstraintsHold(case.column, case.check, case.v, case.op, {1}, {0, 1}, {0, 1}))

RunRouting ==
    RunTarget \/ RunRoad \/ RunCeiling \/ RunFilter \/ RunInsert \/ RunName \/ RunStatement \/ RunValue \/ RunJob
    \/ RunGenerate \/ RunConstrain \/ RunLogged \/ RunListed \/ RunUsage

SourceInputs ==
    [subject : {"colocated"}, ta : Source!JoinTables, tb : Source!JoinTables, q : Source!JoinQueries]
    \cup [subject : {"page"}, engine : Source!Engines, rows : {<<>>, <<1>>, <<2, 1>>, <<2, 4, 1, 3>>},
          order : {"none", "ASC", "DESC"}, limit : {Source!NoLimit} \cup 0 .. 4, offset : 0 .. 4]
    \cup [subject : {"keeps"}, op : Source!Operators \ {"IS_NULL", "IS_NOT_NULL"}, actual : {Source!Null, 1, 2}, val : {1, 2}]
    \cup [subject : {"id"}, stored : [kind : Source!IdKinds, id : {1, 2}]]
    \cup [subject : {"group"}, func : Source!Functions, s : UNION {[1 .. n -> {Source!NoValue, 1, 2}] : n \in 0 .. 3}]

PlainNames == [word : {"s", "t"}, upper : BOOLEAN, unsafe : BOOLEAN]
Refs == [leg : {"a", "b"}, col : {"x", "y"}]
ProjectedItems == [ref : Refs, alias : {"none", "x", "n"}]
Nodes ==
    [has : {h \cup x : h \in SUBSET {"from", "with", "where", "order", "limit"}, x \in UpToOne(Source!Unwritable \cup {"unionAll"})},
     legs : {0}]
    \cup [has : SUBSET (Source!SetOperators \cup {"from", "with", "unionAll", "where", "order", "limit"}), legs : {1, 2}]
StreamedConditions == [kind : {"column", "expression"}, op : {"EQ", "NE", "GT", ">"}, val : {2}]
ColumnConditions == {w \in StreamedConditions : w.kind = "column"}
StreamedScans ==
    [type : {"SELECT", "CALL"}, has : UpToOne(Source!Blocking), where : {<<>>}, order : {"none"}, limit : {1}, outer : {Source!NoLimit}, offset : {0}]
    \cup [type : {"SELECT"}, has : {{}}, where : {<<>>} \cup {<<w>> : w \in StreamedConditions} \cup ColumnConditions \X ColumnConditions,
          order : {"none", "DESC", "desc"}, limit : {Source!NoLimit, 0, 1}, outer : {Source!NoLimit, 2}, offset : {0, 1}]
StatementInputs ==
    [subject : {"quoted"}, x : PlainNames, y : PlainNames, dialect : {"postgres", "mysql", "snowflake", "oracle"}]
    \cup [subject : {"pattern"}, ops : {<<>>} \cup {<<o>> : o \in Source!PatternOps} \cup Source!PatternOps \X Source!PatternOps,
          text : Source!Texts, patterns : Source!Texts \X Source!Texts]
    \cup [subject : {"bucket"}, interval : {"hour", "day", "month"}, times : SUBSET ({1, 2} \X {1, 2} \X {1}) \cup SUBSET ({1} \X {1, 2} \X {1, 2}),
          s : BoundedSeq(1 .. 3, 2)]
    \cup [subject : {"projected"}, select : {<<i>> : i \in ProjectedItems} \cup ProjectedItems \X ProjectedItems, doc : {[a |-> 1, b |-> 2]}, grouped : BOOLEAN]
    \cup [subject : {"found"}, select : BoundedSeq({"*", "_id", "x", "f(x)"}, 2), stored : {{"_id", "x", "y"}, {"_id", "y"}}]
    \cup [subject : {"compiled"}, node : Nodes]
    \cup [subject : {"streamed"}, engine : Source!Engines, rows : {<<>>, <<2, 1>>, <<2, 3, 1>>}, q : StreamedScans]
    \cup [subject : {"piped"}, rows : BoundedSeq({1, 2}, 3), failsAt : {Source!NoLimit} \cup 0 .. 3, leavesAt : {Source!NoLimit} \cup 0 .. 3]

RunQuoted == Unevaluated("quoted") /\ Judge(Source!NamesStayApart(case.x, case.y, case.dialect))
RunPattern == Unevaluated("pattern") /\ Judge(Source!TextsFilterAlike(case.ops, case.text, case.patterns))
RunBucket == Unevaluated("bucket") /\ Judge(Source!BucketsAgree(case.interval, case.times, case.s))
RunProjected == Unevaluated("projected") /\ Judge(Source!ProjectionKeeps(case.select, case.doc, case.grouped))
RunFound == Unevaluated("found") /\ Judge(Source!FindKeeps(case.select, case.stored))
RunCompiled == Unevaluated("compiled") /\ Judge(Source!PartsKept(case.node))
RunStreamed == Unevaluated("streamed") /\ Judge(Source!StreamAgrees(case.engine, case.rows, case.q))
RunPiped == Unevaluated("piped") /\ Judge(Source!StreamTold(case.rows, case.failsAt, case.leavesAt))

RunColocated == Unevaluated("colocated") /\ Judge(Source!CoLocatedAgree(case.ta, case.tb, case.q))
RunPage == Unevaluated("page") /\ Judge(Source!PagesAgree(case.engine, case.rows, case.order, case.limit, case.offset))
RunKeeps == Unevaluated("keeps") /\ Judge(Source!EnginesFilterAlike(case.op, case.actual, case.val))
RunId == Unevaluated("id") /\ Judge(Source!ReadsById(case.stored))
RunGroup == Unevaluated("group") /\ Judge(Source!EnginesAggregateAlike(case.func, case.s))
RunSource ==
    RunColocated \/ RunPage \/ RunKeeps \/ RunId \/ RunGroup \/ RunQuoted \/ RunPattern \/ RunBucket \/ RunProjected
    \/ RunFound \/ RunCompiled \/ RunStreamed \/ RunPiped

\* One query means the same wherever it runs: a read finds what a write of the
\* same name stored, the chosen road reads every leg, row ceilings hold on every
\* road, the ways of evaluating a filter agree, and so do the engines that
\* answer alone on pages, filters, ids, aggregates and joins of one source, the
\* statements they are sent, and a scan streamed or computed first; the log counts it.
RoadsAgree ==
    \A subject \in {"target", "road", "ceiling", "filter", "insert", "name", "statement", "value", "job", "generate",
                    "constrain", "colocated", "page", "keeps", "id", "group", "quoted", "pattern", "bucket", "projected",
                    "found", "compiled", "streamed", "piped", "logged", "listed", "usage"} :
        Evaluated(subject) => result.ok

----------------------------------------------------------------------------
(* Definitions                                                               *)

Diff == INSTANCE ManifestDiff
Triggers == INSTANCE TriggerDefinitions
Text == INSTANCE QueryText

\* Small limits, so that every list can pass its own.
ManifestLimits ==
    [bytes |-> 1, schemas |-> 2, resources |-> 2, columns |-> 3, constraints |-> 2, triggers |-> 1, rels |-> 1,
     extensions |-> 1, downstream |-> 1, arguments |-> 1, values |-> 2]
Checks == INSTANCE ManifestChecks WITH LIMITS <- ManifestLimits, EXTRA_EXTENSIONS <- {"postgis"}

DefinitionInputs ==
    [subject : {"plan"}, engine : Diff!Spellings, declared : SUBSET Diff!Kinds]
    \cup [subject : {"column"}, old : Diff!Column, new : Diff!Column]
    \cup [subject : {"trigger"}, definition : Triggers!Definitions]
    \cup [subject : {"remote table"}, engine : Diff!Spellings, indexes : 0 .. 2, outage : 0 .. 3]

RunPlan == Unevaluated("plan") /\ Judge(Diff!DeploysAll(case.engine, case.declared))
RunColumn == Unevaluated("column") /\ Judge(Diff!ColumnSettles(case.old, case.new))
RunTrigger ==
    /\ Unevaluated("trigger")
    /\ LET d == case.definition
       IN  Judge(/\ Triggers!AcceptedManifestCompiles(d) /\ Triggers!CompiledIsConfined(d)
                 /\ Triggers!CompilersAgree(d) /\ Triggers!AcceptedPayloadDeploys(d))

RunRemoteTable == Unevaluated("remote table") /\ Judge(Diff!RetryCompletes(case.engine, case.indexes, case.outage))

RunDefinition == RunPlan \/ RunColumn \/ RunTrigger \/ RunRemoteTable

----------------------------------------------------------------------------
(* Query text                                                                *)

Simple(name) ==
    [set |-> "none", legs |-> <<>>, with |-> <<>>, select |-> <<>>, joins |-> <<>>, where |-> <<>>, having |-> <<>>,
     limit |-> "none", from |-> [query |-> Text!None, name |-> name, alias |-> TRUE, source |-> "none"]]
From(source) == [Simple("t") EXCEPT !.from.source = source]
Cte(base, unionAll) == [name |-> "c", base |-> base, unionAll |-> unionAll]
Withs == {<<>>} \cup {<<Cte(Simple(n), u)>> : n \in {"t", "c"}, u \in {Text!None, Simple("t"), Simple("c")}}
Scoped ==
    {[Simple(n) EXCEPT !.with = w, !.legs = l, !.joins = j] :
        n \in {"t", "c"}, w \in Withs, l \in {<<>>} \cup {<<Simple(a), Simple(b)>> : a, b \in {"t", "c"}},
        j \in {<<>>, <<[name |-> "c", type |-> "INNER", on |-> "columns", op |-> "EQ", source |-> "none"]>>}}
Clauses ==
    {[Simple("t") EXCEPT !.select = <<i>>] :
        i \in [kind : {"column", "expression"}, fn : {"x", "x+1", "bad"}]
              \cup [kind : {"aggregate", "window"}, fn : {"COUNT", "RANK", "LAG", "bad"}]}
    \cup {[Simple("t") EXCEPT !.joins = <<j>>] :
             j \in [name : {"t", "odd name", "bad"}, type : {"INNER", "LEFT OUTER", "CROSS", "bad"},
                    on : {"columns", "text", "none"}, op : {"EQ", "MATCH", "NOT_LIKE", "none", "bad"}, source : {"none"}]}
    \cup {[Simple("t") EXCEPT !.where = <<w>>, !.limit = l] : l \in {"none", "10", "bad"},
             w \in [kind : {"compare", "search", "expression"}, column : {"x", "x+1", "bad"},
                    op : {"EQ", "MATCH", "NOT_LIKE", "none", "bad"}]}
    \cup {[Simple("t") EXCEPT !.having = <<h>>] :
             h \in [column : {"alias", "x", "odd name", "bad"}, op : {"EQ", "MATCH", "none", "bad"}]}
    \cup {Simple(n) : n \in {"odd name", "bad"}}
Derived == {[q EXCEPT !.from = [query |-> sub, name |-> "t", alias |-> a, source |-> "none"]] :
               q \in {s \in Scoped : s.legs = <<>>}, sub \in {Simple("t"), Simple("c"), Simple("odd name")}, a \in BOOLEAN}
Variables ==
    [name : {"v"}, type : {"number", "boolean", "string"}, required : BOOLEAN,
     default : {"undefined", "1", "null"}]

TextInputs ==
    [subject : {"fragment"},
     toks : UNION {[1 .. n -> Text!Tokens] : n \in 0 .. 3} \cup [1 .. 5 -> {":", "int", "double", "precision", "(", ")"}]]
    \cup [subject : {"default"}, value : {"number", "keyword", "text", "expression", "object"},
          toks : UNION {[1 .. n -> {"name", "(", ")", "select", "lit"}] : n \in 1 .. 3}]
    \cup [subject : {"tree"}, query : Scoped \cup Clauses \cup Derived]
    \cup [subject : {"comparison"}, value : SUBSET (0 .. 2), cell : 0 .. 2]
    \cup [subject : {"analytic"}, stored : {"none", "SQL", "AST"}, variable : Variables,
          given : {"undefined", "", "null", "1", "2", "true", "abc"}, leaf : [token : {"v", "w"}, whole : BOOLEAN]]

\* Values of a row in the order of their texts: "", "10", "9", "abc".
RowValue(kind, text, num, rank) == [kind |-> kind, text |-> text, num |-> num, rank |-> rank]
RowValues ==
    {Triggers!Undefined, RowValue("null", <<>>, {0}, 0), RowValue("text", <<>>, {0}, 0),
     RowValue("number", Triggers!Literal("10"), {10}, 1), RowValue("text", Triggers!Literal("9"), {9}, 2),
     RowValue("text", Triggers!Literal("abc"), {}, 3), RowValue("text", <<Triggers!Placeholder("id")>>, {}, 4)}
Rows == [{"id", "amount"} -> RowValues]
RightSides ==
    {[word |-> w, value |-> RowValue("text", Triggers!Literal("abc"), {}, 3)] : w \in {"none", "id", "abc"}}
    \cup {[word |-> "none", value |-> RowValue("number", Triggers!Literal("9"), {9}, 2)]}
TemplateParts ==
    {[part |-> "text", s |-> "x"], Triggers!Placeholder("id"), Triggers!Placeholder("missing")}
    \cup {Triggers!Choice("amount", op, r, yes, Triggers!Literal("low")) :
             op \in {">", "malformed"}, r \in RightSides, yes \in {Triggers!Literal("high"), <<Triggers!Placeholder("id")>>}}
Channels ==
    [tenant : {"t", "u"}, type : {"EMAIL", "WEBHOOK"}, status : {"ACTIVE", "INACTIVE"}, default : BOOLEAN, updated : 1 .. 2]
NoticeInputs ==
    [subject : {"notice"}, template : UNION {[1 .. n -> TemplateParts] : n \in 0 .. 2}, row : Rows]
    \cup [subject : {"condition"}, left : {"amount", "missing"}, right : RightSides, row : Rows]
    \cup [subject : {"channel"}, channels : {{c, d, e} : c, d, e \in Channels}, type : {"EMAIL", "AUDIT"}]
    \cup [subject : {"authorization"}, auth : [type : {"NONE", "BASIC", "BEARER", "OIDC"}, complete : BOOLEAN],
          safe : BOOLEAN, answer : {"token", "empty"}]

RunNotice == Unevaluated("notice") /\ Judge(Triggers!MessageHolds(case.template, case.row))
RunCondition == Unevaluated("condition") /\ Judge(Triggers!ConditionHolds(case.left, case.right, case.row))
RunChannel == Unevaluated("channel") /\ Judge(Triggers!ChannelHolds(case.channels, "t", case.type))
RunAuthorization == Unevaluated("authorization") /\ Judge(Triggers!AuthorizationHolds(case.auth, case.safe, case.answer))
RunNotices == RunNotice \/ RunCondition \/ RunChannel \/ RunAuthorization

RunFragment == Unevaluated("fragment") /\ Judge(Text!FragmentSafe(case.toks))
RunDefault == Unevaluated("default") /\ Judge(Text!DefaultSafe(case.value, case.toks))
RunTree == Unevaluated("tree") /\ Judge(Text!QueryRenders(case.query))
RunComparison == Unevaluated("comparison") /\ Judge(Text!ComparisonsSplit(case.value, case.cell))
RunAnalytic == Unevaluated("analytic") /\ Judge(Text!AnalyticBinds(case.stored, case.variable, case.given, case.leaf))
RunText == RunFragment \/ RunDefault \/ RunTree \/ RunComparison \/ RunAnalytic \/ RunNotices

\* Query text: admitted fragments stay one operand, admitted trees render with
\* their names meaning what they meant, a saved analytic runs with the values
\* its variables were given, and a notification says what its template says of
\* the row, through a channel of its workspace that is on.
TextFaithful ==
    \A subject \in {"fragment", "default", "tree", "comparison", "analytic", "notice", "condition", "channel",
                    "authorization"} : Evaluated(subject) => result.ok
----------------------------------------------------------------------------
(* Manifests                                                                 *)

NoSecurity ==
    [bad |-> {}, rls |-> TRUE, policies |-> Checks!NoList, masking |-> Checks!NoList, grants |-> Checks!NoList,
     accessPolicies |-> Checks!NoList]
PlainColumn == [name |-> "x", type |-> "TEXT", ref |-> "none", bad |-> {}, primaryKey |-> FALSE]
Resource(type, name) ==
    [type |-> type, name |-> name, bad |-> {}, values |-> Checks!List(<<"l">>), ownedBy |-> Checks!Nothing,
     columns |-> Checks!List(<<PlainColumn>>), identity |-> Checks!Nothing, partitionBy |-> Checks!Nothing,
     constraints |-> Checks!NoList, triggers |-> Checks!NoList, security |-> Checks!Nothing, query |-> Simple("t"),
     indexes |-> Checks!NoList, arguments |-> Checks!NoList, parameters |-> Checks!NoList, returnType |-> "none",
     body |-> "code"]
Schema(name, resources) ==
    [name |-> name, target |-> "none", bad |-> {}, sections |-> Checks!NoSections, resources |-> resources]
Manifest(schemas) ==
    [bad |-> {}, namespace |-> "none", target |-> "none", resources |-> Checks!NoList, schemas |-> schemas,
     extensions |-> Checks!NoList, downstream |-> Checks!NoList, relationships |-> Checks!NoList]
OneSchema(resources) == Manifest(Checks!List(<<Schema("s", Checks!List(resources))>>))
Subsets(flaws) == {{}} \cup {{a} : a \in flaws}
ListsOf(items) == {Checks!NoList, Checks!NullList, Checks!OtherValue, Checks!List(<<>>), Checks!List(<<Checks!NotObject>>)}
                \cup {Checks!List(<<i>>) : i \in items}
Times(n, item) == Checks!List([i \in 1 .. n |-> item])

\* Columns, keys and partitions, one per way to declare them.
KeyedTables ==
    {[Resource("TABLE", "a") EXCEPT !.columns = Checks!List(c), !.identity = i, !.partitionBy = p] :
        c \in {<<>>, <<Checks!NotObject>>}
              \cup {<<[PlainColumn EXCEPT !.primaryKey = k], [PlainColumn EXCEPT !.name = n, !.primaryKey = l]>> :
                        n \in {"x", "y", "1bad", "none"}, k, l \in BOOLEAN},
        i \in {Checks!Nothing, Checks!NotObject}
              \cup {[type |-> t, columns |-> Checks!List(l)] : t \in {"PRIMARY_KEY", "SERIAL"},
                        l \in {<<>>, <<"x">>, <<"x", "y">>, <<"z">>, <<"1bad">>}},
        p \in {Checks!Nothing, Checks!NotObject} \cup [type : {"RANGE", "HASH"}, column : {"y", "none"}]}
ColumnTables ==
    {[Resource("TABLE", "a") EXCEPT !.columns = Checks!List(<<c>>)] :
        c \in [name : {"x"}, type : {"TEXT", "ENUM", "enum", "e", "other"}, ref : {"none", "e", "f", "1bad"},
               bad : Subsets(DOMAIN Checks!ColumnCodes), primaryKey : {FALSE}]}
Constraints ==
    [name : {"k", "1bad"}, type : {"CHECK", "EXCLUDE", "FOREIGN_KEY", "UNIQUE"}, bad : Subsets({"keys", "expression", "using"}),
     columns : {Checks!NoList} \cup {Checks!List(<<c>>) : c \in [name : {"x", "z", "none"}, operator : {"=", "bad"}]}]
GuardedTables ==
    {[Resource("TABLE", "a") EXCEPT !.constraints = k, !.triggers = t] :
        k \in ListsOf(Constraints), t \in {Checks!NoList, Checks!OtherValue} \cup {Checks!List(<<x>>) : x \in {"valid", "free sql", "invalid"}}}
    \cup {[Resource("TABLE", "a") EXCEPT !.constraints = Times(n, [name |-> "k", type |-> t, bad |-> {}, columns |-> Checks!NoList])] :
             n \in 2 .. ManifestLimits.constraints + 1, t \in {"CHECK", "FOREIGN_KEY"}}
    \cup {[Resource("TABLE", "a") EXCEPT !.triggers = Times(ManifestLimits.triggers + 1, "valid"), !.bad = b,
                                        !.columns = Checks!List([i \in 1 .. n |-> [PlainColumn EXCEPT !.name = <<"x", "y", "z", "w">>[i]]])] :
             b \in Subsets(DOMAIN Checks!TableCodes \cup {"keys"}), n \in ManifestLimits.columns .. ManifestLimits.columns + 1}
Roles == {Checks!NoList, Checks!List(<<>>)} \cup {Checks!List(<<r>>) : r \in {"reader", "postgres", "PUBLIC", "1bad"}}
Policies == [name : {"p", "1bad"}, bad : Subsets({"keys", "using"}), roles : Roles \cup {Checks!One("reader"), Checks!One("postgres")}]
ManifestMasks == [column : {"x", "1bad"}, bad : Subsets({"keys", "expression"}), roles : Roles \cup {Checks!One("reader"), Checks!One("postgres")}]
ManifestGrants ==
    [bad : Subsets({"keys"}), role : {"none", "reader", "postgres", "PUBLIC"}, roles : Roles \cup {Checks!OtherValue},
     privileges : {Checks!NoList} \cup {Checks!List(<<p>>) : p \in {"SELECT", "EXECUTE"}}]
AccessPolicies ==
    [bad : Subsets({"keys", "name"}), rowFilter : {Checks!NoList, Checks!List(<<"x">>), Checks!List(<<"none">>)},
     masking : {Checks!NoList, Checks!List(<<"1bad">>)}]
SecuredTables ==
    {[Resource("TABLE", "a") EXCEPT !.security = s] :
        s \in {Checks!NotObject} \cup {[NoSecurity EXCEPT !.policies = p, !.rls = r, !.bad = b] :
                                          p \in ListsOf(Policies), r \in BOOLEAN, b \in Subsets({"keys", "enable_rls"})}
              \cup {[NoSecurity EXCEPT !.masking = k] : k \in ListsOf(ManifestMasks)}
              \cup {[NoSecurity EXCEPT !.grants = g] : g \in ListsOf(ManifestGrants)}
              \cup {[NoSecurity EXCEPT !.accessPolicies = p] : p \in ListsOf(AccessPolicies)}}
OtherVariants ==
    {[Resource(t, "a") EXCEPT !.query = q] : t \in Checks!Views, q \in Scoped \cup Clauses \cup Derived \cup {Text!None, From("bad!")}}
    \cup {[Resource(t, "a") EXCEPT !.indexes = x, !.bad = b] : t \in Checks!Views, b \in Subsets(DOMAIN Checks!ViewCodes),
             x \in ListsOf({[columns |-> Checks!List(l)] : l \in {<<>>, <<"x">>, <<"1bad">>}})}
    \cup {[Resource(t, "a") EXCEPT !.body = b, !.bad = f, !.returnType = g] :
             t \in Checks!Functions, b \in {"none", "code", "dollar quotes"}, f \in Subsets(DOMAIN Checks!FunctionCodes),
             g \in {"none", "TEXT", "other"}}
    \cup {[Resource("FUNCTION", "a") EXCEPT !.arguments = l, !.parameters = p] :
             l \in ListsOf([name : {"n", "1bad"}, type : {"TEXT", "other"}, bad : Subsets({"keys", "mode"})]),
             p \in {Checks!NoList, Times(ManifestLimits.arguments + 1, [name |-> "n", type |-> "TEXT", bad |-> {}])}}
    \cup {[Resource("ENUM", "a") EXCEPT !.values = l] :
             l \in {Checks!NoList, Checks!OtherValue, Times(ManifestLimits.values + 1, "l")}
                   \cup {Checks!List(v) : v \in {<<>>, <<"l">>, <<"">>, <<"l", "m">>, <<"l", "l">>}}}
    \cup {[Resource("SEQUENCE", "a") EXCEPT !.bad = b, !.ownedBy = o] : b \in Subsets(DOMAIN Checks!SequenceCodes),
             o \in {Checks!Nothing, Checks!NotObject} \cup [table : {"a", "1bad"}, column : {"x", "none"}]}

Types == Checks!ResourceTypes \cup {"table", "DOMAIN", "none"}
SchemaNames == {"s", "S", "public", "tenant_x", "1bad", "long"}
Side == [resource : {"a", "long", "1bad"}, field : {"id", "long"}, source : {"none", "A", "bad!"}, bad : {{}}]
Relation(name, cardinality, bridge, from, to) ==
    [name |-> name, cardinality |-> cardinality, bridge |-> bridge, bad |-> {}, from |-> from, to |-> to]
PlainSide == [resource |-> "a", field |-> "id", source |-> "none", bad |-> {}]
ManifestRelationships ==
    {Relation(n, c, b, PlainSide, PlainSide) : n \in {"r", "long", "none"}, c \in {"1:1", "1:M", "M:N", "many"}, b \in {"none", "ab", "1bad"}}
    \cup {Relation("r", c, "ab", f, t) : c \in {"1:M", "M:N"}, f \in Side \cup {Checks!NotObject}, t \in {PlainSide, Checks!NotObject}}
    \cup {[Relation("r", "1:1", "none", [PlainSide EXCEPT !.bad = b], PlainSide) EXCEPT !.bad = c] : b, c \in Subsets({"keys"})}
Manifests ==
    {OneSchema(<<Resource("ENUM", "e"), r>>) : r \in KeyedTables \cup ColumnTables \cup GuardedTables \cup SecuredTables}
    \cup {OneSchema(<<r>>) : r \in OtherVariants \cup {Checks!NotObject} \cup {[Resource("ENUM", "1bad") EXCEPT !.bad = {"keys"}]}}
    \cup {OneSchema(<<Resource(t, "a"), Resource(u, n)>>) : t, u \in Types, n \in {"a", "b"}}
    \cup {Manifest(Checks!List(<<Schema(n, Checks!List(<<>>)), [Schema(o, l) EXCEPT !.target = t, !.bad = b]>>)) :
             n, o \in SchemaNames, l \in {Checks!NoList, Checks!OtherValue, Checks!List(<<Resource("TABLE", "a")>>),
                                         Times(ManifestLimits.resources + 1, Resource("TABLE", "a"))},
             t \in {"none", "A", "bad!"}, b \in Subsets({"keys"})}
    \cup {Manifest(l) : l \in ListsOf({}) \cup {Times(ManifestLimits.schemas + 1, Schema("s", Checks!List(<<>>)))}}
    \cup {[OneSchema(<<>>) EXCEPT !.bad = b, !.target = t, !.resources = r] : b \in SUBSET DOMAIN Checks!DocumentCodes,
             t \in {"none", "bad!"}, r \in {Checks!NoList, Checks!List(<<>>)}}
    \cup {[OneSchema(<<>>) EXCEPT !.extensions = e, !.downstream = d] :
             e \in {Checks!NoList, Checks!OtherValue, Times(ManifestLimits.extensions + 1, "hstore")}
                   \cup {Checks!List(<<x>>) : x \in {"pgcrypto", "postgis", "plperlu"}},
             d \in ListsOf([bad : Subsets({"keys", "type"})]) \cup {Times(ManifestLimits.downstream + 1, [bad |-> {}])}}
    \cup {[OneSchema(<<Resource("TABLE", "a")>>) EXCEPT !.relationships = l] :
             l \in ListsOf(ManifestRelationships) \cup {Times(ManifestLimits.rels + 1, Relation("r", "1:1", "none", PlainSide, PlainSide))}}

SourceNames == {"A", "B", "C"}
Reading ==
    {[OneSchema(<<[Resource(t, "a") EXCEPT !.query = q], [Resource("TABLE", "b") EXCEPT !.triggers = Checks!List(f)]>>)
        EXCEPT !.target = g, !.relationships = Checks!List(r)] :
        t \in Checks!Views, f \in {<<>>, <<"free sql">>}, g \in {"none", "hub", "A"},
        r \in {<<>>, <<Relation("r", "1:M", "none", PlainSide, [PlainSide EXCEPT !.source = "B"])>>},
        q \in {From("B"), From("unknown"), [Simple("t") EXCEPT !.legs = <<From("B"), From("C")>>],
               [Simple("c") EXCEPT !.with = <<Cte(From("C"), Text!None)>>], [Simple("c") EXCEPT !.with = <<Cte(Simple("t"), From("C"))>>]}}
    \cup {OneSchema(<<Resource("FUNCTION", "f"), [Resource("TABLE", "b") EXCEPT !.security = [NoSecurity EXCEPT !.grants = g]]>>) :
             g \in {Checks!NoList, Checks!OtherValue}}

\* Documents before they are normalised: shorthand sections, resources alone.
SectionItems == {<<>>, <<Resource("none", "a")>>, <<Checks!NotObject, Resource("VIEW", "b")>>}
ResourceLists == {Checks!NoList, Checks!NullList, Checks!OtherValue, Checks!List(<<>>), Checks!List(<<Resource("TABLE", "r")>>)}
SchemaDocuments ==
    {Checks!NotObject}
    \cup {[Schema("s", r) EXCEPT !.target = t, !.sections = [Checks!NoSections EXCEPT !["TABLE"] = Checks!List(x), !["VIEW"] = Checks!List(y)]] :
             r \in ResourceLists, t \in {"none", "A"}, x, y \in SectionItems}
Documents ==
    {[Manifest(s) EXCEPT !.namespace = n, !.target = t, !.resources = r] :
        n \in {"none", "n"}, t \in {"none", "A"}, r \in ResourceLists,
        s \in {Checks!NoList, Checks!NullList, Checks!OtherValue} \cup {Checks!List(<<d>>) : d \in SchemaDocuments}}

\* A text is read as JSON, or holds a fence, or is YAML; only YAML shares nodes.
ManifestTexts ==
    {t \in [isText : BOOLEAN, bytes : ManifestLimits.bytes .. ManifestLimits.bytes + 1, nul : BOOLEAN, looksJson : BOOLEAN,
            json : {"error", "object", "other"}, fence : {"none", "error", "object", "other"}, yaml : {"error", "object", "other"},
            tree : {"plain"} \cup DOMAIN Checks!TreeCode] :
        /\ t.json = "object" => t.looksJson
        /\ t.tree = "shared" => t.json = "error" /\ t.fence = "none"}

\* Tables "a" and "b" with a key and a reference to one, in up to two schemas.
ColumnTypes == [id : [type : {"UUID", "INTEGER"}, key : BOOLEAN], ref : [type : {"UUID"}, key : {FALSE}]]
SchemaTables == UNION {[d -> ColumnTypes] : d \in SUBSET {"a", "b"}}
HomeTables == UNION {[d -> {c \in ColumnTypes : c.id.key}] : d \in SUBSET {"a", "b"}}
Ends(fields, sources) == [resource : {"a", "b"}, field : fields, source : sources]
Databases ==
    {[fks |-> {}, bridges |-> b] : b \in {{}, {[name |-> "ab", columns |-> [c \in {<<"a", "id">>} |-> "UUID"]]}}}
    \cup {[fks |-> {Checks!Reference(n, "x", <<"y">>, PlainSide)}, bridges |-> {}] :
             n \in {<<"fk", "r">>, <<"fk", "r", "from">>, <<"fk", "other">>}}
RelationshipInputs ==
    [subject : {"relationship"}, schemas : {<<s>> : s \in SchemaTables} \cup (HomeTables \X HomeTables), db : Databases,
     rel : [name : {"r"}, cardinality : {"1:1", "M:N"}, bridge : {"ab", "b"}, from : Ends({"id"}, {"none", "A"}),
            to : Ends({"id", "ref"}, {"none"})]]

ManifestInputs ==
    [subject : {"manifest"}, m : Manifests]
    \cup [subject : {"apply"}, m : Reading, options : [rights : Subsets({"admin", "owner"}), force : BOOLEAN], flag : {TRUE},
          plan : [highRisk : {0}, creates : {{}, {"s"}}] \cup [highRisk : {1}, creates : {{}}],
          status : {[n \in SourceNames |-> IF n \in down THEN "ERROR" ELSE "ACTIVE"] : down \in Subsets(SourceNames)}]
    \cup [subject : {"document"}, m : Documents, override : {"none", "O"}]
    \cup [subject : {"text"}, text : ManifestTexts]

RunManifest == Unevaluated("manifest") /\ Judge(Checks!AcceptedDeploys(case.m))
RunApply == Unevaluated("apply") /\ Judge(Checks!ApplyChecked(case.m, case.options, case.flag, case.status, case.plan))
RunDocument == Unevaluated("document") /\ Judge(Checks!NormalizeKeeps(case.m, case.override))
RunParse == Unevaluated("text") /\ Judge(Checks!ParseSound(case.text))
RunRelationship ==
    Unevaluated("relationship") /\ Judge(Checks!RelationshipHolds(case.rel, case.schemas, case.db))
RunManifests == RunManifest \/ RunApply \/ RunDocument \/ RunParse \/ RunRelationship

\* Manifests: normalising loses nothing that is declared, what is accepted
\* deploys in one apply, columns settle, a table cut off on its source is
\* completed where its engine allows it, a trigger that was accepted compiles to
\* the same thing on both of its roads, a relationship between tables of the hub
\* refuses orphans, and what is applied was planned and reads sources that are up.
DefinitionsDeploy ==
    \A subject \in {"plan", "column", "trigger", "remote table", "manifest", "apply", "document", "text",
                    "relationship"} : Evaluated(subject) => result.ok

----------------------------------------------------------------------------
(* The catalog                                                               *)

Cat == INSTANCE Catalog
Access == INSTANCE AccessRules
Address == INSTANCE SourceAddresses
Rules == INSTANCE WorkspaceRules

\* Objects a schema can hold together: names are shared by routines only.
Objects(kinds) ==
    {objs \in SUBSET [name : Cat!Names, kind : kinds] :
        \A p, q \in objs : p # q /\ p.name = q.name => Cardinality({p.kind, q.kind} \cap Cat!Routines) = 1}
Catalogs == {<<>>} \cup [{"a"} -> [kind : {"TABLE", "VIEW"}, ast : {"none", "TABLE"}]]
CrawledKinds(engine) ==
    CASE engine = "POSTGRES" -> {"TABLE", "SEQUENCE", "FUNCTION", "ENUM"}
      [] engine \in {"MYSQL", "ORACLE"} -> {"TABLE", "VIEW", "PROCEDURE"}
      [] engine = "SNOWFLAKE" -> {"TABLE", "MATERIALIZED_VIEW", "FUNCTION"}
      [] engine = "MONGODB" -> {"TABLE", "VIEW"}
      [] OTHER -> {"TABLE"}
Crawled(engine, states) ==
    [engine : {engine}, state : states, optional : BOOLEAN,
     schemas : {<<[objs |-> o, relFails |-> f]>> : o \in Objects(CrawledKinds(engine)), f \in BOOLEAN}
               \cup {<<[objs |-> {[name |-> "b", kind |-> "TABLE"]}, relFails |-> f], [objs |-> {}, relFails |-> g]>> :
                       f, g \in BOOLEAN}]
Sources == UNION {Crawled(e, {"up"}) : e \in Cat!Engines \ {"HUB"}}
Others == {[engine |-> "MYSQL", state |-> s, optional |-> TRUE, schemas |-> <<[objs |-> {}, relFails |-> FALSE]>>] :
              s \in {"up", "missing", "local", "dummy", "down"}}
TableColumns ==
    {cols \in SUBSET {c \in Cat!Columns : c.pk => c.notNull} : Cardinality({c.name : c \in cols}) = Cardinality(cols)}
Relationships == {{}} \cup {{[from |-> f, to |-> t, cardinality |-> c]} : f, t \in Cat!Names, c \in {"1:M", "M:M"}}

CatalogInputs ==
    [subject : {"crawl"}, source : Sources \cup Others, catalog : Catalogs]
    \cup [subject : {"workspace"}, sources : Others \X Others, rows : SUBSET {"local", "none"},
          objs : Objects({"TABLE", "FUNCTION"})]
    \cup [subject : {"export"}, kind : Cat!Kinds, ast : {"none", "TABLE"}, engine : Cat!Engines, cols : TableColumns,
          reachable : BOOLEAN]
    \cup [subject : {"closure"}, names : SUBSET Cat!Names, rels : Relationships, refs : SUBSET {"own", "other"},
          single : BOOLEAN]
    \cup [subject : {"applied"}, catalog : Catalogs, kind : {"TABLE", "VIEW", "ENUM"}, objs : Objects({"TABLE", "FUNCTION"}),
          crawled : BOOLEAN]
    \cup [subject : {"details"}, kind : Cat!Kinds, stored : {"nothing", "AST", "AST and SQL"}, recorded : BOOLEAN,
          engine : Cat!Engines, cols : {{}} \cup {{c} : c \in {d \in Cat!Columns : d.name = "x" /\ d.pk}}, reachable : BOOLEAN]
    \cup [subject : {"migration"},
          hub : {h \in [schema : BOOLEAN, base : BOOLEAN, table : SUBSET {"x", "y"},
                         view : {"none", "VIEW", "MATERIALIZED"}, function : BOOLEAN, failed : {FALSE}] :
                    /\ h.table # {} \/ h.function => h.schema
                    /\ h.view # "none" => h.table # {}},
          m : [columns : SUBSET {"x", "y"}, view : {"none", "VIEW", "MATERIALIZED"}, function : BOOLEAN]]

\* Databases of one or two schemas, a reserved one beside them.  Two schemas
\* of an INCREMENTAL job have no table of one name: those would share a mark.
CopyTables == {[kind |-> "TABLE", rows |-> r, counts |-> TRUE] : r \in {{}, {1, 2}}}
                \cup {[kind |-> "TABLE", rows |-> {3}, counts |-> FALSE], [kind |-> "VIEW", rows |-> {1}, counts |-> TRUE]}
CopySchemas(table) == {<<>>} \cup [{table} -> CopyTables]
CopyDatabases ==
    {[s \in {"a"} |-> f] : f \in CopySchemas("t")}
    \cup {[s \in {"a", "b"} |-> IF s = "a" THEN f ELSE g] : f \in CopySchemas("t"), g \in CopySchemas("u")}
    \cup {[s \in {"a", "pg_catalog"} |-> IF s = "a" THEN f ELSE [t \in {"u"} |-> [kind |-> "TABLE", rows |-> {1}, counts |-> TRUE]]] :
             f \in CopySchemas("t")}
    \cup {[s \in {"a"} |-> [t \in {"t", Cat!Outbox} |-> [kind |-> "TABLE", rows |-> {1}, counts |-> TRUE]]]}
CopySource(engine, state, db) == [engine |-> engine, state |-> state, db |-> db]
CopySettings == {<<>>} \cup [{"pageSize"} -> {0, 2}] \cup [{"pageSize", "maxRows"} -> {0, 3}]
CopyRuns == [status : Cat!Statuses, rows : {0, 6}, total : {1, 8}, started : BOOLEAN, elapsed : {0, 3}]

ReplicaInputs ==
    [subject : {"types"}, pk : BOOLEAN, kind : {"PG", "MYSQL", "ORACLE", "SNOWFLAKE"},
     raw : {"bigint", "bigserial", "smallint", "integer", "serial", "long", "interval", "numeric", "double", "float", "money",
            "boolean", "timestamp", "datetime", "date", "time", "uuid", "jsonb", "object", "nested", "bytea", "blob", "inet", "text"}]
    \cup [subject : {"copy config"}, stored : CopySettings, body : CopySettings]
    \cup [subject : {"copy limits"}, db : CopyDatabases, state : {"up", "down"},
          limits : [tables : {-1, 0, 1}, rows : {-1, 1, 2}, perTable : {-1, 0, 2}]]
    \cup [subject : {"restored"}, strategy : {"FULL", "INCREMENTAL"}, schema : {"none", "r"}, db : CopyDatabases,
          from : {"POSTGRES", "MYSQL", "MONGODB", "HUB"}, to : {"POSTGRES", "MYSQL", "ORACLE"}, state : {"up", "down"},
          before : {<<>>, [s \in {"public"} |-> <<>>]}]
    \cup [subject : {"restored"}, strategy : {"FULL"}, schema : {"none", "r"}, db : [{"a", "b"} -> [{"t"} -> CopyTables]],
          from : {"POSTGRES", "MYSQL"}, to : {"POSTGRES", "MYSQL"}, state : {"up"}, before : {<<>>}]
    \cup [subject : {"scheduled"}, job : [every : {1, 3}, ends : [1 .. 6 -> BOOLEAN]]]
    \cup [subject : {"dashboard"}, runs : {<<>>} \cup [1 .. 1 -> CopyRuns] \cup [1 .. 2 -> CopyRuns]]
    \cup [subject : {"descriptor"}, kind : Cat!Kinds, definition : BOOLEAN, cols : TableColumns]

RunCrawl ==
    Unevaluated("crawl")
    /\ Judge(Cat!CrawlLists(case.source, [i \in DOMAIN case.source.schemas |-> case.catalog]))
RunWorkspace ==
    Unevaluated("workspace")
    /\ Judge(Cat!TenantCrawlContinues(case.sources, <<<< <<>> >>, << <<>> >>>>,
                                      [rows |-> case.rows, objs |-> case.objs, catalog |-> <<>>]))
RunExport ==
    Unevaluated("export")
    /\ Judge(Cat!ExportExact([n \in {"a"} |-> [kind |-> case.kind, ast |-> case.ast]], case.engine, case.cols,
                             case.reachable, {}, {}, FALSE))
RunClosure ==
    Unevaluated("closure")
    /\ Judge(Cat!ExportExact([n \in case.names |-> [kind |-> "TABLE", ast |-> "none"]], "HUB", {}, TRUE,
                             case.rels, case.refs, case.single))
RunApplied ==
    Unevaluated("applied")
    /\ Judge(Cat!AppliedIsExported(case.catalog, {[name |-> "b", kind |-> case.kind]}, case.objs, case.crawled))
RunDetails ==
    Unevaluated("details")
    /\ Judge(Cat!DetailsComplete(case.kind,
                                 [ast |-> IF case.stored = "nothing" THEN "none" ELSE "manifest",
                                  sql |-> case.stored = "AST and SQL",
                                  astCols |-> IF case.recorded /\ case.stored # "nothing" THEN case.cols ELSE {}],
                                 case.engine, case.cols, case.reachable))
RunMigration == Unevaluated("migration") /\ Judge(Cat!PlanConverges(case.hub, case.m))

ForeignRows == [tenant : {<<"a">>, <<"a", "_", "b">>}, source : {<<"c">>, <<"b", "_", "c">>, <<"b", "_", "_", "c">>}, type : {"postgres", "mysql"}]
ForeignHub(rows, legacy) ==
    LET servers == {Cat!FdwLegacyServerName(r.tenant, r.source) : r \in {x \in rows : x.type = "postgres" /\ legacy}}
    IN  [rows |-> rows, servers |-> servers, registry |-> Cat!BackfillRegistry(rows, servers), failed |-> FALSE,
         tables |-> {[tenant |-> r.tenant, table |-> "x", server |-> Cat!FdwLegacyServerName(r.tenant, r.source)] :
                        r \in {y \in rows : y.type = "postgres" /\ legacy /\ Cat!LegacyOwners(rows, y.tenant, y.source) = {y}}}]
ForeignSteps ==
    [op : {"register"}, tenant : {<<"a">>, <<"a", "_", "b">>}, source : {<<"c">>, <<"b", "_", "c">>, <<"b", "_", "_", "c">>},
     remote : {{"x", "users"}, {"y"}}, reachable : {TRUE}, valid : {TRUE}]
    \cup [op : {"register"}, tenant : {<<"a">>}, source : {<<"c">>}, remote : {{"y"}}, reachable : BOOLEAN, valid : BOOLEAN]
    \cup [op : {"register"}, tenant : {<<"a", "_", "_", "b">>}, source : {<<"c">>}, remote : {{"y"}}, reachable : {TRUE}, valid : {TRUE}]
    \cup [op : {"remove"}, tenant : {<<"a">>, <<"a", "_", "b">>}, source : {<<"c">>, <<"b", "_", "c">>}]
ForeignInputs ==
    [subject : {"foreign"}, legacy : BOOLEAN, steps : ForeignSteps \X ForeignSteps,
     rows : {rows \in SUBSET {r \in ForeignRows : r.source # <<"b", "_", "_", "c">>} :
                Cardinality(rows) <= 2 /\ \A r, q \in rows : r.tenant = q.tenant /\ r.source = q.source => r = q}]
RunForeign ==
    Unevaluated("foreign")
    /\ LET hub0 == ForeignHub(case.rows, case.legacy)
           hub1 == Cat!ForeignStep(hub0, case.steps[1])
       IN  Judge(Cat!ForeignHolds(hub0, case.steps[1]) /\ Cat!ForeignHolds(hub1, case.steps[2]))

RunTypes == Unevaluated("types") /\ Judge(Cat!TypesHold(case.raw, case.kind, case.pk))
RunCopyConfig ==
    Unevaluated("copy config")
    /\ Judge(Cat!ConfigHolds(case.stored, case.body, [k \in {"pageSize", "maxRows"} |-> 1000]))
RunCopyLimits ==
    Unevaluated("copy limits")
    /\ Judge(Cat!LimitsKept(case.limits, [n \in {"s"} |-> CopySource("POSTGRES", case.state, case.db)], "s"))
RunRestored ==
    Unevaluated("restored")
    /\ Judge(Cat!RestoreHolds([source |-> "s", dest |-> "d", schema |-> case.schema, strategy |-> case.strategy],
                              [n \in {"s", "d"} |-> IF n = "s" THEN CopySource(case.from, "up", case.db)
                                                    ELSE CopySource(case.to, case.state, case.before)]))
RunScheduled == Unevaluated("scheduled") /\ Judge(Cat!ScheduleHolds(case.job, 6))
RunDashboard == Unevaluated("dashboard") /\ Judge(Cat!AnalyticsHold(case.runs))
RunDescriptor == Unevaluated("descriptor") /\ Judge(Cat!AstHolds(case.kind, case.definition, case.cols))
RunReplica == RunTypes \/ RunCopyConfig \/ RunCopyLimits \/ RunRestored \/ RunScheduled \/ RunDashboard \/ RunDescriptor
              \/ RunForeign

RunCatalog == RunReplica \/ RunCrawl \/ RunWorkspace \/ RunExport \/ RunClosure \/ RunApplied \/ RunDetails \/ RunMigration

\* The catalog: a crawl lists what its source holds and keeps what an apply
\* recorded, an export gives both back, and a migrated plan is not planned
\* again; a replication run copies what its preview, its limits and its
\* dashboard speak of, and a restore brings it back; registering or removing
\* one source leaves the foreign servers of the others alone.
CatalogFaithful ==
    \A subject \in {"crawl", "workspace", "export", "closure", "applied", "details", "migration", "types", "copy config",
                    "copy limits", "restored", "scheduled", "dashboard", "descriptor", "foreign"} :
        Evaluated(subject) => result.ok

----------------------------------------------------------------------------
(* Access                                                                     *)

\* A clause's value, a literal as the set it is written as; a list stays one.
Literal == [session |-> "none", lit |-> {0}]
Of(name) == [session |-> name, lit |-> {}]
ClauseSet(columns, ops, values) == [column : columns, op : ops, value : values]
PolicyClauses(columns) ==
    ClauseSet(columns, {"EQ", "NEQ", "GT", "GTE", "LT", "LTE"}, {Literal, Of("region")})
    \cup ClauseSet(columns, {"", "IS_NULL", "IS_NOT_NULL", "BETWEEN", "LIKE"}, {Literal}) \cup ClauseSet(columns, {"EQ"}, {Of("unknown")})
    \cup ClauseSet(columns, {"IN"}, {[Literal EXCEPT !.lit = {Access!Null, 0}]})
FewClauses(columns) ==
    ClauseSet(columns, {"EQ", "IN", "IS_NOT_NULL"}, {Literal}) \cup ClauseSet(columns, {"NEQ", "GT"}, {Of("region")})
Typed(clause) ==
    [clause EXCEPT !.value.lit = IF clause.op \in {"IN", "LIKE"} THEN @ ELSE IF @ = {} THEN 0 ELSE CHOOSE v \in @ : TRUE]
Policy(roles, rows, masks) == [name |-> "p", roles |-> roles, rows |-> [i \in DOMAIN rows |-> Typed(rows[i])], masks |-> masks]
RowPolicies ==
    [roles : {{}, {"VIEWER"}}, more : {<<>>} \cup {<<c>> : c \in FewClauses({"x"})},
     rows : {<<c>> : c \in PolicyClauses({"x", "y"}) \cup ClauseSet({""}, {"EQ"}, {Literal})}]
    \cup [roles : {{}, {"VIEWER"}}, more : {<<>>}, rows : PolicyClauses({"x"}) \X FewClauses({"x", "y"})]
Sessions == [role : {"VIEWER", "USER"}, region : {Access!Null, 1}]
Condition(op, v) == [bareNull |-> FALSE, ops |-> [o \in {op} |-> v]]
CallerFilters ==
    {<<>>} \cup [{"x"} -> {Condition("$eq", 1), Condition("$ne", 0), [bareNull |-> TRUE, ops |-> [o \in {"$eq"} |-> Access!Null]]}]
    \cup [{"y"} -> {Condition("$eq", 1)}]
Masks == [column : {"x", "y"}, roles : {{}, {"VIEWER"}},
          strategy : {Access!ManifestStrategy(e) : e \in {{"null", "hash"}, {"hash"}, {"last4"}, {"x"}}} \cup {"ROT13"}]
StoredPolicies == [tenant : {"t", "u"}, table : {"a", "b"}, name : {"p", "q"}, roles : {{}}, rows : {<<1>>}, masks : {<<>>}]
PolicyBodies == [name : {"p", ""}, table : {"a", ""}, roles : {{}, {"VIEWER"}}, rows : {<<>>, <<1>>}, masks : {<<>>, <<1>>}]

\* The workspace and the platform in order, but for one or two conditions.
InOrder == [status |-> "ACTIVE", feature |-> TRUE, allowTokens |-> TRUE, maintenance |-> FALSE, ipAllowed |-> TRUE,
            owner |-> FALSE, answers |-> TRUE, licence |-> "ok", manifests |-> "ok"]
Disorders ==
    {<<"status", s>> : s \in {"SUSPENDED", "missing", "DELETED"}} \cup {<<"licence", l>> : l \in {"expired", "spent"}}
    \cup {<<"manifests", m>> : m \in {"no", "small"}} \cup {<<f, ~ InOrder[f]>> : f \in {"feature", "allowTokens", "maintenance", "ipAllowed", "owner", "answers"}}
Circumstances ==
    {[f \in DOMAIN InOrder |-> IF \E d \in ds : d[1] = f THEN (CHOOSE d \in ds : d[1] = f)[2] ELSE InOrder[f]] :
        ds \in {{}} \cup {{d} : d \in Disorders}
               \cup {{d, <<"owner", TRUE>>} : d \in Disorders} \cup {{<<"status", "SUSPENDED">>, d} : d \in Disorders}}
AstRoutes == {<<"queries", "">>, <<"queries", "transpile">>, <<"analytics", "">>, <<"analytics", "refresh-view">>,
              <<"saved-analytics", "">>, <<"data", "">>, <<"data", "fetch">>}
FileRoutes == {<<"metadata", "diff">>, <<"metadata", "apply">>}
Routes == AstRoutes \cup FileRoutes
          \cup ({"query-logs", "triggers", "replication", "auth", "developer-docs", "policies", "system", "plans", "subscriptions",
                 "workspace", "tokens", "metadata", "settings", "admin"} \X {""})
          \cup {<<"metadata", "export">>, <<"settings", "raw">>, <<"admin", "tenants">>, <<"admin", "connections">>}
NoToken == [known |-> "no", scopes |-> {}, days |-> 1, revoked |-> FALSE, tenant |-> "none"]
Tokens == [known : {"yes"}, scopes : {{"query:read"}, {"data:read", "data:write"}, {"metadata:read", "metadata:write", "triggers:write"}},
           days : {1}, revoked : BOOLEAN, tenant : {"t"}] \cup {[NoToken EXCEPT !.known = k] : k \in {"no", "malformed"}}
Users == [kind : {"session"}, role : Access!Roles, tenant : {"t", "none"}]
Callers ==
    [credential : {"none"}, token : {NoToken}, age : {0}, user : {Access!NoUser}, override : {"none"}, actAs : {"none"}]
    \cup [credential : {"token"}, token : Tokens, age : {0}, user : {Access!NoUser}, override : {"u"}, actAs : {"ADMIN"}]
    \cup [credential : {"token"}, token : {t \in Tokens : t.known = "yes" /\ ~ t.revoked}, age : {1}, user : {Access!NoUser}, override : {"u"},
          actAs : {"ADMIN"}]
    \cup [credential : {"session"}, token : {NoToken}, age : {0}, user : Users, override : {"none"}, actAs : {"none"}]
    \cup [credential : {"session"}, token : {NoToken}, age : {0}, user : Users, override : {"u"}, actAs : {"VIEWER"}]
\* What a body carries: its statement, SQL text and a manifest as a file.
Request(caller, route, method, body) ==
    [area |-> route[1], tail |-> route[2], method |-> method, statement |-> body[1], sqlText |-> body[2], file |-> body[3]] @@ caller
Plain == <<"SELECT", FALSE, FALSE>>
Grants == {{}, {[role |-> "VIEWER", privileges |-> {"SELECT", "DELETE"}]}, {[role |-> "USER", privileges |-> {"SELECT"}]}}

TokenInputs ==
    [name : {1}, scopes : {{}, {"query:read"}, {"query:read", "data:write"}, {"everything"}},
     days : {"given"}, n : {0, 1, 30, 31, 365, 366}]
    \cup [name : {0, 1, 100, 101}, scopes : {{"query:read"}}, days : {"default"}, n : {0}]
TokenLimits ==
    [systemDays : {30, 400}, workspaceDays : {0, 7}, allowedScopes : {Access!Scopes, {"query:read"}},
     active : {24, 25}, planTokens : {Access!Unlimited, 24, 100}, feature : BOOLEAN, allowTokens : BOOLEAN,
     status : {"ACTIVE", "SUSPENDED"}, answers : {TRUE}]
TokenUsers == [kind : {"session"}, role : {"USER"}, tenant : {"t", "none"}] \cup {[kind |-> "token", role |-> "USER", tenant |-> "t"]}

AccessInputs ==
    [subject : {"policy"}, policies : RowPolicies, session : Sessions, existing : CallerFilters]
    \cup [subject : {"mask"}, masks : {<<>>} \cup {<<m>> : m \in Masks} \cup Masks \X Masks,
          len : {0, 3, 4, 5, 8}, session : Sessions]
    \cup [subject : {"store"}, store : {{p, q} : p, q \in StoredPolicies} \cup {{}}, policy : PolicyBodies]
    \cup [subject : {"request"}, caller : Callers, route : Routes, method : {"GET", "POST"}, body : {Plain}, env : Circumstances]
    \cup [subject : {"request"}, caller : Callers, route : AstRoutes, method : {"POST"},
          body : {<<"SELECT", TRUE, FALSE>>, <<"CALL", FALSE, FALSE>>}, env : Circumstances]
    \cup [subject : {"request"}, caller : Callers, route : FileRoutes, method : {"POST"}, body : {<<"SELECT", FALSE, TRUE>>}, env : Circumstances]
    \cup [subject : {"token"}, user : TokenUsers, input : TokenInputs, env : TokenLimits]
    \cup [subject : {"failure"}, err : [status : {0, 200, 404, 503}, state : Access!SqlStates, suspended : BOOLEAN,
                                        denied : BOOLEAN, worded : BOOLEAN]]

----------------------------------------------------------------------------
(* Addresses                                                                  *)

Octets == {<<169, 254, 0, 7>>, <<100, 100, 100, 200>>, <<127, 0, 0, 1>>, <<0, 0, 0, 0>>, <<10, 0, 0, 5>>, <<172, 16, 0, 1>>,
           <<172, 32, 0, 1>>, <<192, 168, 0, 9>>, <<100, 64, 0, 1>>, <<100, 128, 0, 1>>, <<93, 0, 0, 34>>}
\* The ways to write an address in fewer than four parts and in IPv6, and some
\* that are none.
Written(o) == {Address!Dotted(o), Address!HostV4(<<o>>), Address!HostV4(<< <<o[1]>>, SubSeq(o, 2, 4) >>),
               Address!HostV4(<< <<o[1]>>, <<o[2]>>, SubSeq(o, 3, 4) >>)}
              \cup (IF o[4] = 0 \/ o[2] # 0 \/ o[3] # 0 THEN {} ELSE {Address!HostV4(<< <<o[1]>>, <<o[4]>> >>)})
V6(head, elided, tail, v4) == Address!HostV6([head |-> head, elided |-> elided, tail |-> tail, v4 |-> v4])
Mapped(o) == {V6(<<0, 0, 0, 0, 0, 65535>>, FALSE, <<>>, o), V6(<<>>, TRUE, <<65535>>, o), V6(<<0, 0>>, TRUE, <<0, 65535>>, o),
              V6(<<>>, TRUE, <<65535, o[1] * 256 + o[2], o[3] * 256 + o[4]>>, <<>>)}
Malformed(o) == {Address!HostV4(<< <<1, o[1]>>, <<o[3]>> >>), Address!HostV4(<< <<1>>, <<1>>, o >>), Address!HostV4(<< <<o[1]>>, <<1>> \o SubSeq(o, 2, 4) >>),
                 Address!HostV4(<< <<1>>, <<1>>, <<1>>, <<1>>, <<o[4]>> >>),
                 V6(<<0, 0, 0, 0, 0, 0, 0>>, FALSE, <<>>, o), V6(<<0, 0, 0>>, TRUE, <<0, 0, 0>>, o), V6(<<0>>, FALSE, <<>>, <<>>)}
Public == Address!Dotted(<<93, 0, 0, 34>>)
Private == Address!Dotted(<<10, 0, 0, 5>>)
Hosts == {Public, Private, Address!Dotted(<<127, 0, 0, 1>>), Address!Dotted(<<169, 254, 0, 7>>), V6(<<>>, TRUE, <<1>>, <<>>)}
         \cup {Address!HostName(n) : n \in {"", "localhost", "datafabric-hub", "metadata", "dbhost", "site"}}
Targets == [host : Hosts, port : {Address!NoPort, 5432, 5434, 70000}]
HostTable == [n \in {"dbhost", "site"} |-> IF n = "dbhost" THEN <<Private>> ELSE <<Public>>]
MixedSite == [HostTable EXCEPT !["site"] = <<Public, Private>>]
Networks ==
    [db : {Address!Target(Private, 5432), Address!Target(Address!HostName("dbhost"), 6000), Address!Target(Address!NoHost, Address!NoPort)},
     url : {<<>>}, allowHub : BOOLEAN, allowPrivate : BOOLEAN,
     dns : {<<>>, MixedSite, [HostTable EXCEPT !["site"] = <<Address!Dotted(<<169, 254, 0, 7>>)>>]}]
    \cup
    [db : {Address!Target(Private, 5432)}, url : {<<Address!Target(Address!HostName("dbhost"), Address!NoPort)>>},
     allowHub : BOOLEAN, allowPrivate : {FALSE}, dns : {<<>>, MixedSite}]
Nothing == [object |-> TRUE, direct |-> <<>>, strings |-> <<>>, hosts |-> <<>>, account |-> "none", socketPath |-> FALSE]
FewTargets == [host : {Private, Address!HostName("site")}, port : {Address!NoPort, 5432}]
Configs ==
    {[Nothing EXCEPT !.direct = <<t>>] : t \in Targets} \cup {[Nothing EXCEPT !.hosts = <<t, u>>] : t, u \in FewTargets}
    \cup {[Nothing EXCEPT !.strings = <<[shape |-> s, hosts |-> <<t, u>>, port |-> 5432, params |-> <<>>]>>] :
             s \in {"url", "key=value", "descriptor"}, t, u \in FewTargets}
    \cup {[Nothing EXCEPT !.strings = <<[shape |-> s, hosts |-> <<t>>, port |-> 0, params |-> <<u.host>>]>>] :
             s \in {"url", "easy", "socket", "unknown"}, t, u \in FewTargets}
    \cup {[Nothing EXCEPT !.direct = <<t>>, !.account = a, !.socketPath = b, !.object = o] :
             t \in FewTargets, a \in {"none", "dotted", "plain"}, b, o \in BOOLEAN}
Webhooks ==
    [length : {9, 2049}, illegal : {FALSE}, protocol : {"https"}, credentials : {FALSE}, host : Hosts \ {Address!NoHost}]
    \cup [length : {0, 9}, illegal : BOOLEAN, protocol : {"http", "ftp"}, credentials : BOOLEAN, host : {Public}]

AddressInputs ==
    [subject : {"class"}, octets : Octets]
    \cup [subject : {"admit"}, config : Configs, network : Networks]
    \cup [subject : {"webhook"}, url : Webhooks, network : Networks]
RunClass == Unevaluated("class") /\ Judge(Address!ClassHolds(case.octets, Written(case.octets), Mapped(case.octets), Malformed(case.octets)))
RunAdmitSource == Unevaluated("admit") /\ Judge(\A admin \in BOOLEAN : Address!SourceHolds(case.config, case.network, admin))
RunWebhook == Unevaluated("webhook") /\ Judge(Address!WebhookHolds(case.url, case.network))
RunAddresses == RunClass \/ RunAdmitSource \/ RunWebhook

----------------------------------------------------------------------------
(* Limits, settings and workspaces                                            *)

Small == {Access!Unlimited, 1}
Plan(limit, feature, days) == [limit |-> limit, feature |-> feature, days |-> days, isDefault |-> FALSE]
Plans == {Plan(l, f[1], f[2]) : l \in {Access!Absent, Access!Unlimited, 0, 3}, f \in {<<"unset", Access!Absent>>, <<"no", 2>>}}
         \cup {Plan(3, "unset", Access!Unlimited)}
PlanTables ==
    {<<>>} \cup {[n \in {"a", "b", "trial"} |-> p] : p \in Plans}
    \cup {[n \in {"a", "b", "c"} |-> IF n = "c" THEN [p EXCEPT !.isDefault = TRUE] ELSE Rules!BuiltinTrial] :
             p \in {Plan(3, "no", 2), Plan(Access!Absent, "unset", Access!Unlimited)}}
Licence(valid, selfHosted, limit, f) == [valid |-> valid, selfHosted |-> selfHosted, limit |-> limit, feature |-> f[1], days |-> f[2]]
Licences == {Licence(FALSE, TRUE, 1, <<"no", Access!Absent>>)}
            \cup {Licence(TRUE, s, l, f) : s \in BOOLEAN, l \in {Access!Absent} \cup Small, f \in {<<"yes", 4>>, <<"no", Access!Absent>>}}
NoSnapshot == [limits |-> <<>>, features |-> <<>>]
Subscribers ==
    [plan : {"none", "a", "gone"}, sub : {"none", "b"}, snapshot : {NoSnapshot}, override : {Access!Absent, Access!Unlimited, 0},
     expiresAt : {Access!Absent, 9}, startedAt : {Access!Absent}, subStart : {6}, createdAt : {5}]
    \cup [plan : {"a"}, sub : {"b"}, snapshot : {NoSnapshot}, override : {2}, expiresAt : {Access!Absent}, startedAt : {8}, subStart : {6},
           createdAt : {Access!Absent}]
    \cup [plan : {"none"}, sub : {"b"}, override : {Access!Absent}, expiresAt : {Access!Absent},
           snapshot : [limits : {<<>>, <<2>>}, features : {<<>>, <<[feature |-> "no", days |-> Access!Unlimited]>>}],
           startedAt : {Access!Absent}, subStart : {6}, createdAt : {5}]
PlanSettings == [defaultPlan : {"none", "b"}, planLimitsEnabled : BOOLEAN]

Ints(S) == {Rules!Json("int", n) : n \in S}
Bools == {Rules!Json("boolean", n) : n \in {0, 1}}
Texts(max) == {Rules!JsonValue("string", 5, n, f) : n \in {0, 2}, f \in BOOLEAN} \cup {Rules!Json("string", max), Rules!Json("string", max + 1), Rules!JsonNull}
Lists(max) == {Rules!JsonValue("list", n, e, f) : n \in {2, max, max + 1}, e \in {0, 1}, f \in BOOLEAN}
Field(k, values) == {[f \in {k} |-> v] : v \in values}
Fields(section) ==
    {<<>>} \cup CASE section = "query" -> Field("maxRows", Ints({0, 1, 10, 11}) \cup Bools) \cup Field("allowStreaming", Bools \cup Ints({1}))
                                          \cup Field("timeoutMs", Ints({99, 100}))
                  [] section = "api" -> Field("maxTokenDays", Ints({0, 1, 7, 8, 366})) \cup Field("allowDeveloperTokens", Bools)
                                        \cup Field("maxRows", Ints({1})) \cup Field("allowedScopes", Lists(7))
                  [] section = "general" -> Field("displayName", Texts(100)) \cup Field("timezone", Texts(64))
                  [] section = "security" -> Field("allowedIps", Lists(50))
                  [] section = "notifications" -> [{"emailOnLimit"} -> Bools] \cup [{"limitWarningPercent", "emailOnLimit"} -> Ints({49, 50, 100}) \cup Bools]
                  [] OTHER -> {}
Bodies(fields) == [object : {TRUE}, fields : fields] \cup [object : {FALSE}, fields : {<<>>}]
StoredSections == {<<>>} \cup {<<r>> : r \in {<<>>} \cup [{"api"} -> Field("maxTokenDays", Ints({7}))] \cup [{"query"} -> Field("allowStreaming", Bools)]}
SystemFields == {<<>>} \cup Field("defaultPlan", Texts(100)) \cup Field("maintenanceMode", Bools \cup {Rules!JsonNull})
                \cup Field("maxTokenDays", Ints({0, 1, 365, 366})) \cup Field("maxWorkspacesPerUser", Ints({-2, -1, 10000}))
                \cup Field("maintenanceMessage", Texts(300)) \cup Field("unknown", Bools)
IpAddresses == {[v6 |-> FALSE, addr |-> <<10, 1, b, 7>>] : b \in {0, 3, 128, 255}} \cup {[v6 |-> FALSE, addr |-> <<>>]}
               \cup {[v6 |-> FALSE, addr |-> a] : a \in {<<138, 1, 3, 7>>, <<10, 1, 3, 6>>}} \cup {[v6 |-> TRUE, addr |-> <<n>>] : n \in {1, 2}}
IpRules == [v6 : {FALSE}, addr : {<<10, 1, 3, 7>>, <<10, 1, 128, 0>>}, bits : {Access!Absent, 0, 1, 8, 17, 24, 25, 31, 32, 33}]
           \cup [v6 : {TRUE}, addr : {<<1>>}, bits : {Access!Absent, 64, 129}]
TenantRows == {[id |-> "t", owner |-> o, name |-> "n", status |-> s] : o \in {"u", "v"}, s \in {"ACTIVE", "SUSPENDED", "active"}}
Persons == [id : {"u"}, role : {"ADMIN", "USER"}] \cup {[id |-> "none", role |-> "USER"]}
Subscription(plan, active) == [plan |-> plan, snapshot |-> TRUE, active |-> active, start |-> 3, end |-> 9]

RuleInputs ==
    [subject : {"limits"}, tenant : Subscribers, plans : PlanTables, licence : Licences, sys : PlanSettings]
    \cup [subject : {"creation"}, sys : [allowCreation : BOOLEAN, perUser : {Access!Unlimited, 0, 2}],
           licence : [valid : BOOLEAN, selfHosted : BOOLEAN, limit : {Access!Absent, Access!Unlimited, 1, 3}],
           plan : {Access!Absent, Access!Unlimited, 0, 2}, others : {0, 2}]
    \cup UNION {[subject : {"settings"}, rows : StoredSections, section : {s}, body : Bodies(Fields(s)),
                  ceilings : [maxTokenDays : {7, 365}, maxQueryRows : {Access!Unlimited, 10}]] :
                    s \in {"general", "query", "security", "api", "notifications", "unknown"}}
    \cup [subject : {"system"}, stored : {<<>>} \cup Field("maintenanceMode", Bools \cup {Rules!JsonNull}) \cup Field("defaultPlan", {Rules!JsonNull}),
           body : Bodies(SystemFields), planActive : BOOLEAN]
    \cup [subject : {"ip"}, ip : IpAddresses, rules : {{r, q} : r, q \in IpRules}]
    \cup [subject : {"tenants"}, user : Persons, own : TenantRows, id : {"t", "s", "other"}, name : {"undefined", "", "m"},
           status : {"undefined", "", "ACTIVE", "SUSPENDED", "suspended", "gone"}]
    \cup [subject : {"subscription"}, user : Persons, licence : [valid : BOOLEAN, selfHosted : BOOLEAN],
           sub : {<<>>} \cup {<<Subscription(p, a)>> : p \in {"selfhost", "free"}, a \in BOOLEAN},
           plan : [exists : BOOLEAN, name : {"selfhost", "pro"}, status : {"active", "hidden"}, custom : BOOLEAN],
           body : [unknown : BOOLEAN, id : BOOLEAN]]
    \cup [subject : {"login page"}, user : Persons,
           licence : [valid : {TRUE}, selfHosted : BOOLEAN, branding : {"no", "yes"}, sso : {"no", "yes"}, remove : {"no", "yes"}]
                     \cup [valid : {FALSE}, selfHosted : {TRUE}, branding : {"no"}, sso : {"no"}, remove : {"yes"}],
           sub : {<<Subscription(p, TRUE)>> : p \in {"selfhost", "free"}}, env : [answers : BOOLEAN, issuer : {"", "env"}, client : {"env"}],
           body : [title : {"", "own"}, passwords : BOOLEAN, sso : BOOLEAN, issuer : {"", "own"}, client : {"", "own"}, secret : {"", "own"}]]
    \cup [subject : {"reset"}, frequency : {"none", "daily", "weekly", "monthly"}, hour : {0, 2, 23}, now : 0 .. 167]
    \cup [subject : {"downstreams"}, rows : {{}} \cup {{r} : r \in [type : {"ELASTICSEARCH", "KAFKA"}, status : {"ACTIVE", "INACTIVE"}]},
           connected : SUBSET {"ELASTICSEARCH", "SNOWFLAKE"}]

PageEnvs == [owner : BOOLEAN, answers : {TRUE}, exists : {TRUE}] \cup [owner : {TRUE}, answers : BOOLEAN, exists : {FALSE}]
PageInputs ==
    [subject : {"workspace page"}, user : [kind : {"session"}, role : {"ADMIN", "USER", "DEVELOPER", "none"}, tenant : {"t", "none"}]
                                          \cup {[kind |-> "token", role |-> "USER", tenant |-> "t"], Access!NoUser},
     env : PageEnvs, stored : {"none", "ADMIN", "DEVELOPER", "ANALYST", "VIEWER", "USER"}, header : {"none", "u"},
     query : {"none", "t", "u"}, body : [unknown : BOOLEAN, letters : {0, 7, 100}, blanks : {0, 1}]]
StartupInputs ==
    [subject : {"startup"}, issuer : {"shipped", "env"}, secret : {"shipped", "env", "other"},
     settings : [login : {<<>>} \cup {<<p>> : p \in [title : {"", "own"}, passwords : {TRUE}, sso : BOOLEAN, issuer : {"shipped", "own"},
                                                      client : {"", "own"}, secret : {"shipped", "own", "none"}]},
                 licence : {"none", "own"}, instance : {"none", "known"}]]
RunStartup == Unevaluated("startup") /\ Judge(Rules!StartupHolds(case.settings, case.issuer, case.secret))
RunWorkspacePage ==
    Unevaluated("workspace page")
    /\ Judge(Rules!WorkspacePageHolds(case.user, case.env, case.stored, case.header, case.query,
                                       [t \in {"t", "u"} |-> 3], case.body))
RunLimits ==
    Unevaluated("limits")
    /\ Judge(\A now \in {7, 8, 12} : Rules!LimitsHold(case.tenant, case.plans, case.licence, case.sys, now))
RunCreation == Unevaluated("creation") /\ Judge(Rules!CreationHolds(case.sys, case.licence, case.plan, case.others))
RunSettings == Unevaluated("settings") /\ Judge(Rules!SettingsHold(case.rows, case.section, case.body, case.ceilings))
RunSystem == Unevaluated("system") /\ Judge(Rules!SystemHolds(case.stored, case.body, case.planActive))
RunIp == Unevaluated("ip") /\ Judge(Access!IpHolds(case.ip, case.rules))
RunTenants ==
    Unevaluated("tenants")
    /\ Judge(Rules!TenantsHold(case.user, {case.own, [case.own EXCEPT !.id = "s", !.owner = "v"]}, case.id, case.name, case.status))
RunSubscription ==
    Unevaluated("subscription") /\ Judge(Rules!SubscriptionHolds(case.user, case.licence, case.sub, case.plan, case.body, 5))
RunLogin == Unevaluated("login page") /\ Judge(Rules!LoginHolds(case.user, case.licence, case.sub, case.env, case.body))
RunReset == Unevaluated("reset") /\ Judge(Rules!ResetHolds(case.frequency, case.hour, case.now))
RunDownstreams == Unevaluated("downstreams") /\ Judge(Rules!DownstreamHolds(case.rows, case.connected))
RunRules ==
    RunLimits \/ RunCreation \/ RunSettings \/ RunSystem \/ RunIp \/ RunTenants \/ RunSubscription \/ RunLogin
    \/ RunReset \/ RunDownstreams \/ RunWorkspacePage \/ RunStartup

RunPolicy ==
    Unevaluated("policy")
    /\ LET p == case.policies
           policies == <<Policy(p.roles, p.rows, <<>>), Policy({"VIEWER"}, p.more, <<>>)>>
       IN  Judge(\A granted \in Grants \ {{[role |-> "USER", privileges |-> {"SELECT"}]}} :
                    Access!PolicyHolds(policies, granted, case.session, case.existing))
RunMask == Unevaluated("mask") /\ Judge(Access!MaskHolds(case.len, <<Policy({}, <<>>, case.masks)>>, case.session))
RunStore == Unevaluated("store") /\ Judge(Access!StoreHolds(case.store, "t", case.policy))
RunRequest ==
    Unevaluated("request")
    /\ LET r == Request(case.caller, case.route, case.method, case.body)
       IN  Judge(\A named \in {"none", "u"}, granted \in Grants : Access!RequestHolds(r, case.env, named, granted))
RunToken ==
    Unevaluated("token")
    /\ Judge(/\ \A age \in {0, 1, 7, 29, 30, 365} : Access!TokenHolds(case.user, case.input, case.env, age)
             /\ Access!TokenHolds(case.user, case.input, [case.env EXCEPT !.answers = FALSE], 0))
RunFailure == Unevaluated("failure") /\ Judge(Access!ErrorHolds(case.err))
RunAccess == RunPolicy \/ RunMask \/ RunStore \/ RunRequest \/ RunToken \/ RunFailure \/ RunAddresses \/ RunRules

\* Access: a caller reaches only what its credential, its workspace and the
\* route admit; where a leg is fetched directly it sees the rows the policies
\* leave, and no masked column under its own name (legs that are streamed, and
\* aggregates under a name of their own, are outside of that); a developer token
\* works exactly as long as it was given; a source or a webhook is
\* admitted by each of its addresses; limits, settings and statuses are those
\* of the plan, the licence and whoever may change them.
AccessSound ==
    \A subject \in {"policy", "mask", "store", "request", "token", "failure", "class", "admit", "webhook", "limits",
                     "creation", "settings", "system", "ip", "tenants", "subscription", "login page", "reset", "downstreams",
                     "workspace page", "startup"} :
        Evaluated(subject) => result.ok

----------------------------------------------------------------------------
(* All cases                                                                 *)

Init ==
    /\ case \in QueryInputs \cup DefinitionInputs \cup RoutingInputs \cup SourceInputs
                \cup CatalogInputs \cup TextInputs \cup ManifestInputs \cup AccessInputs
                \cup AddressInputs \cup RuleInputs \cup StatementInputs \cup LogInputs
                \cup ReplicaInputs \cup ForeignInputs \cup NoticeInputs \cup RelationshipInputs \cup PageInputs \cup StartupInputs
    /\ result = Pending
Next ==
    \/ RunQuery
    \/ RunDefinition
    \/ RunRouting
    \/ RunSource
    \/ RunCatalog
    \/ RunText
    \/ RunManifests
    \/ RunAccess
Spec == Init /\ [][Next]_vars
=============================================================================
