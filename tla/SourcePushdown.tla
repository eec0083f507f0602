--------------------------- MODULE SourcePushdown ----------------------------
(* What a single source is asked and what it answers: paging, filters, ids    *)
(* and aggregates of the connectors (factory.ts), and joins of two tables of  *)
(* one source, compiled to SQL or to a MongoDB pipeline (pushdown.ts).        *)
EXTENDS Federation

Failed == [failed |-> TRUE]

----------------------------------------------------------------------------
(* Joins inside one source.  A query joins a and b on k, with a WHERE list,   *)
(* and selects the rows, DISTINCT a.k, or a.k with COUNT(b.v).                *)

JoinTypes == {"INNER", "LEFT", "RIGHT", "FULL"}
JoinOperators == {"EQ", "NE", "GT", "LIKE", "NIN", "IS_NULL"}

PredicateTrue(w, actual) ==
    CASE w.op = "LIKE" -> actual = w.val
      [] w.op = "NIN" -> actual \notin {Null, w.val}
      [] OTHER -> SqlTrue(w.op, actual, w.val)

Matches(a, tb) == {b \in tb : a.k # Null /\ b.k = a.k}
Alone(alias, row) == [x \in {alias} |-> row]
Both(a, b) == [x \in {"a", "b"} |-> IF x = "a" THEN a ELSE b]

SqlJoined(ta, tb, type) ==
    UNION {{Both(a, b) : b \in Matches(a, tb)} : a \in ta}
    \cup (IF type \in {"LEFT", "FULL"} THEN {Alone("a", a) : a \in {x \in ta : Matches(x, tb) = {}}} ELSE {})
    \cup (IF type \in {"RIGHT", "FULL"}
          THEN {Alone("b", b) : b \in {y \in tb : \A a \in ta : y \notin Matches(a, tb)}} ELSE {})

\* The rows an answer selects from, and the part of them it returns.
Window(answer) ==
    LET n == Cardinality(answer.rows)
        first == IF answer.offset < n THEN answer.offset ELSE n
    IN  <<first, IF answer.limit = NoLimit \/ first + answer.limit > n THEN n - first ELSE answer.limit>>
SameAnswer(x, y) == x.rows = y.rows /\ Window(x) = Window(y)

HavingTrue(op, n) == CASE op = "GT" -> n > 1 [] op = "NIN" -> n # 1 [] OTHER -> TRUE
\* Rows are told apart by both sides here, so a set of joined rows can be counted.
\* Some of them are counted: those with a value, or all documents.
Selected(rows, q, distinct, counted, having) ==
    CASE q.select = "rows" -> rows
      [] q.select = "distinct" -> distinct
      [] OTHER -> LET key(r) == SqlColumn(r, <<"a", "k">>)
                      count(g) == Cardinality({r \in counted : key(r) = g})
                  IN  {<<g, count(g)>> : g \in {h \in {key(r) : r \in rows} : HavingTrue(having, count(h))}}

\* The common table expression that may stand for b: SELECT * FROM b WHERE v = 1.
CteRows(tb, q) == IF q.cte THEN {b \in tb : b.v = 1} ELSE tb

SqlAnswer(ta, tb, q) ==
    LET rows == {r \in SqlJoined(ta, CteRows(tb, q), q.type) :
                    \A i \in DOMAIN q.where : PredicateTrue(q.where[i], SqlColumn(r, <<q.where[i].leg, q.where[i].col>>))}
        nonNull == {r \in rows : SqlColumn(r, <<"b", "v">>) # Null}
    IN  [rows |-> Selected(rows, q, {SqlColumn(r, <<"a", "k">>) : r \in rows}, nonNull, q.having),
         limit |-> q.limit, offset |-> q.offset]

\* toJoinSql: the query in the dialect of the source.  HAVING names the alias of
\* the aggregate, which only MySQL resolves; MySQL has no FULL JOIN and no
\* OFFSET without LIMIT.
ToJoinSql(ta, tb, q, dialect) ==
    IF \/ dialect # "mysql" /\ q.having # "none"
       \/ dialect = "mysql" /\ (q.type = "FULL" \/ (q.limit = NoLimit /\ q.offset > 0))
    THEN Failed ELSE SqlAnswer(ta, tb, q)

\* $lookup: equality, null with null too.  The local field is a path in the
\* FROM document; an ON written the other way round names a field that is not
\* there yet.
Lookup(a, tb, q) == {b \in tb : b.k = IF q.reversed THEN Null ELSE a.k}

\* $unwind: documents without a match survive a LEFT join only.
Unwind(a, found, type) ==
    IF found = {} /\ type = "LEFT" THEN {Alone("a", a)} ELSE {Both(a, b) : b \in found}

\* The $match object: one entry per path, operators it does not know left out.
\* The WHERE of a CTE joins the list with the paths it has, those of the FROM.
MongoMatches(q) ==
    LET known == SelectSeq((IF q.cte THEN <<Predicate("a", "v", "EQ", 1)>> ELSE << >>) \o q.where,
                           LAMBDA w : w.op \notin {"LIKE", "NIN"})
    IN  {known[i] : i \in {j \in DOMAIN known :
            \A n \in (j + 1) .. Len(known) : known[n].leg # known[j].leg \/ known[n].col # known[j].col}}
MongoMatch(w, actual) ==
    IF w.op = "IS_NULL" THEN actual = Null ELSE MongoKeeps([op |-> w.op, val |-> w.val], actual)

\* toMongoJoin: COUNT counts documents; an unknown HAVING operator is left out;
\* DISTINCT groups by the qualified name, a path no document has; LIMIT 0 and
\* OFFSET are ignored.
ToMongoJoin(ta, tb, q) ==
    LET rows == {r \in UNION {Unwind(a, Lookup(a, tb, q), q.type) : a \in ta} :
                    \A w \in MongoMatches(q) : MongoMatch(w, SqlColumn(r, <<w.leg, w.col>>))}
    IN  [rows |-> Selected(rows, q, IF rows = {} THEN {} ELSE {Null}, rows,
                           IF q.having = "NIN" THEN "none" ELSE q.having),
         limit |-> IF q.limit > 0 THEN q.limit ELSE NoLimit, offset |-> 0]

\* What the pipeline can express.
MongoExpresses(ta, tb, q) ==
    LET full == \A r \in ta \cup tb : r.k # Null /\ r.v # Null
    IN  /\ q.type \in {"INNER", "LEFT"} /\ ~q.reversed /\ ~q.cte
        /\ \A r \in ta \cup tb : r.k # Null
        /\ \A i \in DOMAIN q.where :
              /\ q.where[i].op \notin {"LIKE", "NIN"}
              /\ q.where[i].op = "NE" => q.type = "INNER" /\ full
              /\ \A j \in DOMAIN q.where \ {i} :
                    q.where[j].leg # q.where[i].leg \/ q.where[j].col # q.where[i].col
        /\ q.select = "count" => q.type = "INNER" /\ full
        /\ q.select # "distinct" /\ q.having # "NIN" /\ q.limit # 0 /\ q.offset = 0

\* The pipeline answers what the SQL of the same query answers.
CoLocatedAgree(ta, tb, q) ==
    LET sql == ToJoinSql(ta, tb, q, "mysql")
    IN  ~MongoExpresses(ta, tb, q) \/ SameAnswer(ToMongoJoin(ta, tb, q), sql)

JoinTables == {{}, {[k |-> 1, v |-> 1]}, {[k |-> 2, v |-> 1]}, {[k |-> 1, v |-> Null]},
               {[k |-> 1, v |-> 1], [k |-> Null, v |-> 1]},
               {[k |-> 1, v |-> 1], [k |-> 2, v |-> 1]},
               {[k |-> 1, v |-> 1], [k |-> 1, v |-> 2]}}
JoinPredicates == {Predicate(at[1], at[2], op, IF op = "IS_NULL" THEN Undef ELSE 1) :
                      at \in {<<"a", "v">>, <<"b", "v">>, <<"b", "k">>}, op \in JoinOperators}
JoinWheres == {<< >>} \cup {<<w>> : w \in JoinPredicates}
              \cup {<<v, w>> : v \in {Predicate("b", "v", "EQ", 1), Predicate("b", "v", "GT", 1)}, w \in JoinPredicates}
JoinQueries ==
    [type : JoinTypes, reversed : BOOLEAN, cte : BOOLEAN, where : {<< >>, <<Predicate("b", "v", "EQ", 1)>>},
     select : {"rows", "distinct"}, having : {"none"}, limit : {NoLimit, 0, 1}, offset : {0, 1}]
    \cup [type : JoinTypes, reversed : BOOLEAN, cte : BOOLEAN, where : {<< >>}, select : {"count"}, having : {"none", "GT", "NIN"}, limit : {NoLimit, 0, 1}, offset : {0, 1}]
    \cup [type : {"INNER", "LEFT"}, reversed : {FALSE}, cte : {FALSE}, where : JoinWheres, select : {"rows", "count"},
          having : {"none"}, limit : {NoLimit, 1}, offset : {0}]

----------------------------------------------------------------------------
(* Pages of one table: connector.query and connector.queryStream.  A row is a *)
(* number; without an order the rows come as they are stored.                 *)

Engines == {"POSTGRES", "MYSQL", "SNOWFLAKE", "ORACLE", "MONGODB", "ELASTICSEARCH"}
EsDefaultSize == 2
EsWindow == 3
Smaller(a, b) == IF a < b THEN a ELSE b

\* toSql: LIMIT n OFFSET m, or OFFSET m ROWS FETCH NEXT n.
SqlPage(engine, rows, order, limit, offset) ==
    IF engine = "MYSQL" /\ limit = NoLimit /\ offset > 0 THEN Failed
    ELSE [rows |-> ApplyOrderLimit(rows, order, limit, offset)]

\* find().sort().skip().limit(): a limit of 0 is no limit.
MongoPage(rows, order, limit, offset) ==
    [rows |-> ApplyOrderLimit(rows, order, IF limit = 0 THEN NoLimit ELSE limit, offset)]

\* _search: a default size, and from + size within the window.
EsPage(rows, order, limit, offset) ==
    LET want == IF limit = NoLimit THEN EsDefaultSize ELSE limit
    IN  IF offset > EsWindow THEN Failed
        ELSE [rows |-> ApplyOrderLimit(rows, order, Smaller(want, EsWindow - offset), offset)]

\* The scroll: page after page until the limit or the end; no offset.
EsScroll(rows, order, limit) == [rows |-> ApplyOrderLimit(rows, order, limit, 0)]

QueryPage(engine, rows, order, limit, offset) ==
    CASE engine = "MONGODB" -> MongoPage(rows, order, limit, offset)
      [] engine = "ELASTICSEARCH" -> EsPage(rows, order, limit, offset)
      [] OTHER -> SqlPage(engine, rows, order, limit, offset)
StreamPage(engine, rows, order, limit, offset) ==
    IF engine = "ELASTICSEARCH" THEN EsScroll(rows, order, limit) ELSE QueryPage(engine, rows, order, limit, offset)

\* Every engine returns the page that was asked for, at once or as a stream,
\* except LIMIT 0 on MongoDB, and what lies past Elasticsearch's sizes.
PagesAgree(engine, rows, order, limit, offset) ==
    LET asked == [rows |-> ApplyOrderLimit(rows, order, limit, offset)]
        inWindow == engine # "ELASTICSEARCH"
                    \/ Smaller(Len(rows), IF limit = NoLimit THEN Len(rows) ELSE offset + limit)
                         <= (IF limit = NoLimit THEN EsDefaultSize ELSE EsWindow)
    IN  \/ engine = "MONGODB" /\ limit = 0
        \/ engine = "MYSQL" /\ limit = NoLimit /\ offset > 0
        \/ /\ inWindow /\ offset <= EsWindow => QueryPage(engine, rows, order, limit, offset) = asked
           /\ offset = 0 \/ engine # "ELASTICSEARCH" => StreamPage(engine, rows, order, limit, offset) = asked

----------------------------------------------------------------------------
(* Filters, ids and aggregates                                               *)

\* filterClauses: term, terms and range find no document without the field;
\* must_not finds those.  A null term is refused by the engine.
EsKeeps(e, actual) ==
    CASE e.op = "NE" -> actual # e.val
      [] OTHER -> actual # Null /\ SqlTrue(e.op, actual, e.val)
EngineKeeps(engine, e, actual) ==
    CASE engine = "MONGODB" -> MongoKeeps(e, actual)
      [] engine = "ELASTICSEARCH" -> EsKeeps(e, actual)
      [] OTHER -> SqlKeeps(e, actual)

\* One pushed filter keeps the same rows on every engine; != keeps rows without
\* the value on the document stores, and only there.
EnginesFilterAlike(op, actual, val) ==
    LET keeps(engine) == EngineKeeps(engine, [op |-> op, val |-> val], actual)
    IN  \A x, y \in Engines : keeps(x) = keeps(y) \/ (op = "NE" /\ actual = Null)

\* coerceIds: 24 hex digits become an ObjectId in the filters of reads; updates
\* and deletes take the filter as it is.
IdKinds == {"objectId", "text"}
CoerceId(given) == IF given.kind = "hex" THEN [given EXCEPT !.kind = "objectId"] ELSE given
IdMatches(road, stored, given) == stored = IF road = "query" THEN CoerceId(given) ELSE given
\* What JSON shows of a stored id.
Shown(stored) == IF stored.kind = "objectId" THEN [stored EXCEPT !.kind = "hex"] ELSE stored
ReadsById(stored) == IdMatches("query", stored, Shown(stored))

\* metricAgg and flattenAggs: COUNT is the doc_count of a bucket, which the
\* answer as a whole does not have; terms buckets leave out missing keys.
EsAggregate(func, s, grouped) ==
    CASE func = "COUNT" -> IF grouped THEN Len(s) ELSE NoValue
      [] func = "SUM" -> Total(s)
      [] OTHER -> SqlAggregate(func, s)

\* Without NULLs the three kinds of engine aggregate a group alike.
EnginesAggregateAlike(func, s) ==
    \/ \E i \in DOMAIN s : s[i] = NoValue
    \/ s = << >>
    \/ MongoAggregate(func, s) = SqlAggregate(func, s) /\ EsAggregate(func, s, TRUE) = SqlAggregate(func, s)

----------------------------------------------------------------------------
(* Names, patterns, buckets and the parts of a statement                     *)

\* ident and quoteIdent: unsafe characters go, Oracle's names become capitals.
\* A name is [word, upper, unsafe].
Ident(name) == [name EXCEPT !.unsafe = FALSE]
QuoteIdent(name, dialect) ==
    IF dialect = "oracle" THEN [Ident(name) EXCEPT !.upper = TRUE] ELSE Ident(name)
NamesStayApart(x, y, dialect) ==
    QuoteIdent(x, dialect) = QuoteIdent(y, dialect) =>
        \/ x = y
        \/ x.unsafe \/ y.unsafe
        \/ dialect = "oracle" /\ x.word = y.word

\* SQL_OPERATORS, those that apply to texts.
PatternOps == {"$eq", "$ne", "$like", "$ilike", "$match", "$fuzzy"}
\* splitOps: an object of operators is a list of conditions, a bare value one to
\* be equal to.
SplitOps(ops) == IF ops = << >> THEN <<"$eq">> ELSE ops

\* A text is a word, perhaps with more behind it, perhaps in capitals; a pattern
\* is a word, perhaps with a % behind it.
Texts == [word : {"s", "t"}, more : BOOLEAN, upper : BOOLEAN]
SameText(text, pattern) == ~pattern.more /\ text = pattern
LikeText(text, pattern) == text.word = pattern.word /\ (text.more => pattern.more)

\* toSql: a clause per operator; the % of a searched value stays one.
ClauseTrue(op, text, pattern) ==
    CASE op = "$like" -> LikeText(text, pattern) /\ text.upper = pattern.upper
      [] op = "$ilike" -> LikeText(text, pattern)
      [] op \in {"$match", "$fuzzy"} -> text.word = pattern.word
      [] op = "$ne" -> ~SameText(text, pattern)
      [] OTHER -> SameText(text, pattern)
SqlText(ops, text, patterns) == \A i \in DOMAIN ops : ClauseTrue(ops[i], text, patterns[i])

\* mongoMatch: $like is anchored, its % becomes .*; that of a searched value is
\* looked for.  A field has one $regex, that of its last pattern.
Regex(op, pattern) ==
    [word |-> pattern.word, anchored |-> op \in {"$like", "$ilike"}, rest |-> pattern.more, upper |-> pattern.upper,
     ignoresCase |-> op # "$like"]
RegexTrue(r, text) ==
    /\ text.word = r.word /\ (r.ignoresCase \/ text.upper = r.upper)
    /\ IF r.anchored THEN r.rest \/ ~text.more ELSE ~r.rest
PatternAt(ops) == {i \in DOMAIN ops : ops[i] \in {"$like", "$ilike", "$match", "$fuzzy"}}
MongoText(ops, text, patterns) ==
    \A i \in DOMAIN ops :
        CASE i \in PatternAt(ops) -> (\E j \in PatternAt(ops) : j > i) \/ RegexTrue(Regex(ops[i], patterns[i]), text)
          [] ops[i] = "$ne" -> ~SameText(text, patterns[i])
          [] OTHER -> SameText(text, patterns[i])

\* PostgreSQL and MongoDB keep the same texts unless a column has two patterns
\* or a searched value has a %.
TextsFilterAlike(ops, text, patterns) ==
    \/ Cardinality(PatternAt(ops)) > 1
    \/ \E i \in DOMAIN ops : ops[i] \in {"$match", "$fuzzy"} /\ patterns[i].more
    \/ SqlText(SplitOps(ops), text, patterns) = MongoText(SplitOps(ops), text, patterns)

\* groupBySql: PostgreSQL and Snowflake cut a time at the interval, MySQL and
\* Oracle at the day whatever it is; toMongoAggregate groups by the time itself.
\* A time is <<month, day, hour>>.
GroupBySql(dialect, interval, t) ==
    LET to == CASE dialect \in {"mysql", "oracle"} -> "day" [] OTHER -> interval
    IN  CASE to = "month" -> <<t[1]>> [] to = "day" -> <<t[1], t[2]>> [] OTHER -> t
MongoBucket(t) == t
Buckets(engine, interval, times) ==
    {IF engine = "mongodb" THEN MongoBucket(t) ELSE GroupBySql(engine, interval, t) : t \in times}

\* percentile_cont of so few values: the greatest.
Percentile(s) == CHOOSE x \in ToSet(s) : \A y \in ToSet(s) : y <= x
\* aggExprSql: MySQL answers a percentile with the average, and what is not
\* known counts rows.
AggExprSql(func, s, dialect) ==
    CASE func = "PERCENTILE" -> IF dialect = "mysql" THEN SqlAggregate("AVG", s) ELSE Percentile(s)
      [] func \in Functions -> SqlAggregate(func, s)
      [] OTHER -> Len(s)

\* Grouping by time counts the same groups on every engine at the interval all
\* of them have, and where no two times share a bucket.
BucketsAgree(interval, times, s) ==
    LET counts(engine) == Cardinality(Buckets(engine, interval, times))
        exact == counts("postgres")
        sameDay == \E t, u \in times : t # u /\ GroupBySql("postgres", "day", t) = GroupBySql("postgres", "day", u)
    IN  /\ counts("snowflake") = exact
        /\ interval = "day" => counts("mysql") = exact /\ counts("oracle") = exact
        /\ interval = "day" /\ ~sameDay => counts("mongodb") = exact
        /\ s = << >> \/ AggExprSql("PERCENTILE", s, "postgres") >= s[1]
        /\ \A func \in Functions : AggExprSql(func, s, "mysql") = AggExprSql(func, s, "postgres")

\* resolveField: the FROM's columns are the document's own, those of a joined
\* leg lie under its alias; both are shown by their bare name.
ResolveField(ref) ==
    [output |-> ref.col, path |-> IF ref.leg \in {"a", "none"} THEN <<ref.col>> ELSE <<ref.leg, ref.col>>]
\* $project: a later item replaces one of the same name; an alias is read from
\* the field of that name, which only a grouped document has.
ProjectedName(item) == IF item.alias # "none" THEN item.alias ELSE item.ref.col
LastMatch(select, n) ==
    CHOOSE i \in DOMAIN select :
        /\ ProjectedName(select[i]) = n
        /\ \A j \in DOMAIN select : ProjectedName(select[j]) = n => j <= i
ProjectedValue(item, doc, grouped) ==
    IF item.alias # "none" /\ ~grouped THEN NoValue ELSE doc[item.ref.leg]
MongoProjected(select, doc, grouped) ==
    LET lastOf(n) == LastMatch(select, n)
    IN  [n \in {ProjectedName(select[i]) : i \in DOMAIN select} |-> ProjectedValue(select[lastOf(n)], doc, grouped)]

\* Every selected column is shown with its value, unless an alias stands on a
\* plain column or two of them share the name they are shown by.
ProjectionKeeps(select, doc, grouped) ==
    \A i \in DOMAIN select :
        \/ select[i].alias # "none" /\ ~grouped
        \/ \E j \in DOMAIN select : j > i /\ ProjectedName(select[j]) = ProjectedName(select[i])
        \/ /\ MongoProjected(select, doc, grouped)[ProjectedName(select[i])] = doc[select[i].ref.leg]
           /\ ResolveField(select[i].ref).path = IF select[i].ref.leg = "b" THEN <<"b", select[i].ref.col>> ELSE <<select[i].ref.col>>

\* toMongo: expressions cannot be projected; when nothing else is, everything
\* is returned; _id is returned when it is asked for.
FindColumns(select, stored) ==
    LET named == {select[i] : i \in {j \in DOMAIN select : select[j] # "f(x)"}}
    IN  IF select = << >> \/ "*" \in ToSet(select) \/ named = {} THEN stored ELSE named \cap stored
FindKeeps(select, stored) ==
    LET got == FindColumns(select, stored)
    IN  /\ ToSet(select) \cap stored \subseteq got
        /\ got = {} => ToSet(select) \cap (stored \cup {"f(x)"}) \in {{}, {"f(x)"}} /\ ToSet(select) # {"f(x)"}
        /\ "_id" \in got => select = << >> \/ {"*", "_id"} \cap ToSet(select) # {} \/ ToSet(select) = {"f(x)"}

FirstOperator(node) ==
    CASE "union" \in node.has -> "union" [] "intersect" \in node.has -> "intersect"
      [] "except" \in node.has -> "except" [] OTHER -> "none"
\* compile: a set operation is written with its legs, its order and its limit
\* alone, the first of several; what cannot be written is refused and goes to the
\* federation engine.
SetOperators == {"union", "intersect", "except"}
Unwritable == {"expression", "search", "window", "unlisted aggregate", "CROSS", "join without on", "unknown operator",
               "derived without alias"}
CompileRefuses(node) ==
    \/ "unionAll" \in node.has
    \/ IF FirstOperator(node) # "none" THEN node.legs < 2
       ELSE "from" \notin node.has \/ node.has \cap Unwritable # {}
Compiled(node) ==
    (IF FirstOperator(node) # "none" THEN node.has \cap {FirstOperator(node), "with", "order", "limit"} ELSE node.has)
    \ (Unwritable \cup {"unionAll"})

\* A statement that is compiled has every part of its query, or the query has
\* other parts beside a set operation, or a second one.
PartsKept(node) ==
    \/ CompileRefuses(node)
    \/ Compiled(node) = node.has /\ (FirstOperator(node) # "none" => node.legs >= 2) /\ node.has \cap ({"from"} \cup SetOperators) # {}
    \/ FirstOperator(node) # "none" /\ node.has \ {FirstOperator(node), "with", "order", "limit", "unionAll"} # {}

----------------------------------------------------------------------------
(* Streams: stream_source.ts                                                 *)

\* isPassThrough: nothing that has to see all rows.
Blocking == {"join", "setop", "with", "group", "recursive", "having", "distinct", "aggregate", "window"}
PassThrough(q) == q.has \cap Blocking = {}

\* tryStream: a scan of a source that the hub has no copy of, if streaming inside
\* is switched on; anything else is computed first.
StreamedEngines == {"POSTGRES", "MYSQL", "SNOWFLAKE", "ORACLE", "ORACLEDB", "MONGODB", "ELASTICSEARCH"}
TryStream(q, leg, internal) ==
    internal /\ q.type # "CALL" /\ PassThrough(q) /\ ~leg.reachable /\ leg.engine \in StreamedEngines

\* wantsStream: the workspace may forbid it, the request may say, or the default.
WantsStream(allowed, flag, defaultOn) ==
    allowed /\ (flag = "true" \/ (flag = "unsaid" /\ defaultOn))

\* astToCanonical: an operator it does not know means equality, a later condition
\* with the same operator replaces an earlier one, one condition that is not on
\* a column drops them all; an order that is not "DESC" ascends; the offset and
\* the names given to columns are left behind.
StreamOp(op) == IF op \in {"EQ", "NE", "GT"} THEN op ELSE "EQ"
StreamFilter(where) ==
    IF \E i \in DOMAIN where : where[i].kind # "column" THEN {}
    ELSE {[op |-> StreamOp(where[i].op), val |-> where[i].val] :
             i \in {j \in DOMAIN where : \A k \in j + 1 .. Len(where) : StreamOp(where[k].op) # StreamOp(where[j].op)}}
StreamOrder(order) == IF order = "desc" THEN "ASC" ELSE order
StreamLimit(q) == IF q.outer # NoLimit THEN q.outer ELSE q.limit
AstToCanonical(q) ==
    [filter |-> StreamFilter(q.where), order |-> StreamOrder(q.order), limit |-> StreamLimit(q), offset |-> 0]

\* hubRowStream and queryStream: the rows that pass, in the order, cut.
RowStream(engine, rows, c) ==
    LET kept == SelectSeq(rows, LAMBDA x : \A e \in c.filter : EngineKeeps(engine, e, x))
    IN  StreamPage(engine, kept, c.order, c.limit, c.offset).rows

\* The same query computed first.
BufferedRows(rows, q) ==
    LET holds(w, x) == SqlTrue(IF w.op = ">" THEN "GT" ELSE w.op, x, w.val)
        kept == SelectSeq(rows, LAMBDA x : \A i \in DOMAIN q.where : holds(q.where[i], x))
        order == IF q.order = "desc" THEN "DESC" ELSE q.order
        answer == CASE "aggregate" \in q.has -> <<Len(kept)>> [] "distinct" \in q.has -> DistinctInOrder(kept) [] OTHER -> kept
    IN  ApplyOrderLimit(answer, order, IF q.limit # NoLimit THEN q.limit ELSE q.outer, q.offset)

\* A streamed scan has the rows of the same query computed first, in the engine's
\* sizes, unless it has an offset, an expression or a text search, two conditions
\* of one operator, an operator written as a sign, "desc" or two limits.
StreamAgrees(engine, rows, q) ==
    \/ ~TryStream(q, [engine |-> engine, reachable |-> FALSE], TRUE)
    \/ q.offset > 0 \/ q.order = "desc"
    \/ q.limit # NoLimit /\ q.outer # NoLimit /\ q.limit # q.outer
    \/ \E i \in DOMAIN q.where : q.where[i].kind # "column" \/ q.where[i].op \notin {"EQ", "NE", "GT"}
    \/ \E i, j \in DOMAIN q.where : i # j /\ q.where[i].op = q.where[j].op
    \/ engine = "MONGODB" /\ StreamLimit(q) = 0
    \/ RowStream(engine, rows, AstToCanonical(q)) = BufferedRows(rows, q)

\* pipeRowStream: rows go out until the end, an error or the caller leaves; the
\* trailer, which the one who left does not get, and the log count what went out.
PipeRowStream(rows, failsAt, leavesAt) ==
    LET upTo == {n \in {Len(rows), failsAt, leavesAt} : n # NoLimit}
        sent == CHOOSE n \in upTo : \A m \in upTo : n <= m
        left == leavesAt # NoLimit /\ leavesAt = sent
        failed == failsAt # NoLimit /\ failsAt = sent
    IN  [sent |-> SubSeq(rows, 1, sent), trailer |-> ~left,
         logged |-> [rows |-> sent, status |-> IF failed THEN "ERROR" ELSE IF left THEN "CANCELLED" ELSE "SUCCESS"]]

\* A stream that is logged as a success sent every row, and whoever stayed to
\* the end was told how many there were.
StreamTold(rows, failsAt, leavesAt) ==
    LET out == PipeRowStream(rows, failsAt, leavesAt)
    IN  /\ out.logged.status = "SUCCESS" <=> out.sent = rows /\ failsAt \notin 0 .. Len(rows) /\ leavesAt \notin 0 .. Len(rows)
        /\ out.trailer \/ leavesAt # NoLimit
        /\ out.logged.rows = Len(out.sent)
=============================================================================
