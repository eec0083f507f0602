----------------------------- MODULE Federation ------------------------------
(* Federated joins of the query engine (federation.ts): how the WHERE of a    *)
(* join is pushed to its legs, how each engine evaluates what was pushed, how *)
(* the driving side is chosen, and how the fetched rows are joined in memory, *)
(* beside the answer SQL gives for the same query.                            *)
(* A row has the columns the queries use: a join key k and a value v.         *)
EXTENDS Integers, Sequences, FiniteSets, SequencesExt, FiniteSetsExt

\* SQL NULL, and JavaScript's undefined (a column of a leg that is not there).
Null == -1
Undef == -2
Value == {1, 2}
Cols == {"k", "v"}
Row == [k : Value \cup {Null}, v : {1, Null}]

\* A predicate of the WHERE list: column <<leg, column>>, operator, value.  The
\* null tests carry no value, and the leg is "none" where the query does not say.
Operators == {"EQ", "NE", "GT", "GTE", "LT", "LTE", "IN", "IS_NULL", "IS_NOT_NULL"}
Predicate(leg, col, op, val) == [leg |-> leg, col |-> col, op |-> op, val |-> val]

\* A leg of a join: its alias, its rows, its engine, its join type and its ON
\* clause (the driving leg has neither).
Leg(alias, table, engine, type, on) ==
    [alias |-> alias, table |-> table, engine |-> engine, type |-> type, on |-> on]
On(leftLeg, op, rightLeg) == [left |-> <<leftLeg, "k">>, op |-> op, right |-> <<rightLeg, "k">>]
NoOn == On("", "", "")

----------------------------------------------------------------------------
(* The reference: SQL's three-valued logic and its joins                     *)

Compares(op, left, right) ==
    CASE op = "NE" -> left # right
      [] op = "GT" -> left > right
      [] op = "GTE" -> left >= right
      [] op = "LT" -> left < right
      [] op = "LTE" -> left <= right
      [] OTHER -> left = right

SqlTrue(op, actual, val) ==
    CASE op = "IS_NULL" -> actual = Null
      [] op = "IS_NOT_NULL" -> actual # Null
      [] OTHER -> actual # Null /\ val # Null /\ Compares(op, actual, val)

\* A joined row maps the aliases it has rows of to those rows.
SqlColumn(r, at) == IF at[1] \in DOMAIN r THEN r[at[1]][at[2]] ELSE Null
Merged(l, r) == [a \in DOMAIN l \cup DOMAIN r |-> IF a \in DOMAIN r THEN r[a] ELSE l[a]]
Qualify(rows, alias) == {[a \in {alias} |-> row] : row \in rows}

SqlJoinStep(acc, leg) ==
    LET right == Qualify(leg.table, leg.alias)
        matching == {<<l, r>> \in acc \X right :
                        SqlTrue(leg.on.op, SqlColumn(l, leg.on.left), SqlColumn(r, leg.on.right))}
    IN  {Merged(p[1], p[2]) : p \in matching}
        \cup (IF leg.type \in {"LEFT", "FULL"} THEN acc \ {p[1] : p \in matching} ELSE {})
        \cup (IF leg.type \in {"RIGHT", "FULL"} THEN right \ {p[2] : p \in matching} ELSE {})

\* All legs in the order written, then the WHERE.
SqlJoin(legs, where) ==
    {r \in FoldLeft(SqlJoinStep, Qualify(legs[1].table, legs[1].alias), Tail(legs)) :
        \A i \in DOMAIN where :
            SqlTrue(where[i].op, SqlColumn(r, <<where[i].leg, where[i].col>>), where[i].val)}

----------------------------------------------------------------------------
(* Pushing predicates                                                        *)

\* AST_OP_TO_CANONICAL: the null tests become comparisons.
CanonicalOp(op) == CASE op = "IS_NULL" -> "EQ" [] op = "IS_NOT_NULL" -> "NE" [] OTHER -> op

\* One entry per column and operator: a later one replaces an earlier one.
AddFilter(filter, entry) == {e \in filter : e.col # entry.col \/ e.op # entry.op} \cup {entry}

\* Each predicate that says its leg goes to that leg; a null test carries no value.
Attributed(where, alias) ==
    LET own == SelectSeq(where, LAMBDA w : w.leg = alias)
    IN  FoldLeft(AddFilter, {},
                 [i \in DOMAIN own |-> [col |-> own[i].col, op |-> CanonicalOp(own[i].op), val |-> own[i].val]])

\* The columns that equi-joins connect with `at` (union-find over the ON
\* clauses, for joins of any type).
EquiClass(legs, at) ==
    LET pairs == {<<legs[i].on.left, legs[i].on.right>> : i \in {j \in 2 .. Len(legs) : legs[j].on.op = "EQ"}}
        grow(s) == s \cup {p[2] : p \in {q \in pairs : q[1] \in s}}
                     \cup {p[1] : p \in {q \in pairs : q[2] \in s}}
    IN  grow(grow({at}))

\* Which legs give a class a constant, and the entries that do; the constant of
\* the class is that of the last of these legs (a class has one column of each).
Constants(leg, filter, class) == {e \in filter : e.op = "EQ" /\ <<leg.alias, e.col>> \in class}
ClassConstant(legs, where, class) ==
    LET given == {i \in DOMAIN legs : Constants(legs[i], Attributed(where, legs[i].alias), class) # {}}
        last == legs[CHOOSE i \in given : \A j \in given : j <= i]
    IN  IF given = {} THEN {}
        ELSE {(CHOOSE e \in Constants(last, Attributed(where, last.alias), class) : TRUE).val}

\* buildLegFilters: the predicates of each leg, and the constant of an equi-join
\* class on the other columns of the class that have no predicate of their own.
BuildLegFilters(legs, where) ==
    LET own(alias) == Attributed(where, alias)
        free(alias) == {c \in Cols : /\ Cardinality(EquiClass(legs, <<alias, c>>)) > 1
                                     /\ \A e \in own(alias) : e.col # c}
        propagated(alias) ==
            UNION {{[col |-> c, op |-> "EQ", val |-> x] :
                        x \in ClassConstant(legs, where, EquiClass(legs, <<alias, c>>))} : c \in free(alias)}
    IN  [alias \in {legs[i].alias : i \in DOMAIN legs} |-> own(alias) \cup propagated(alias)]

\* PushdownCompiler.toSql: what a SQL engine keeps of a table.  A null value of
\* = and != is IS [NOT] NULL; no value is a NULL parameter, which keeps nothing.
SqlKeeps(e, actual) ==
    IF e.val = Undef THEN FALSE
    ELSE IF e.val = Null /\ e.op \in {"EQ", "NE"} THEN (actual = Null) = (e.op = "EQ")
    ELSE SqlTrue(e.op, actual, e.val)

\* mongoMatch: comparisons are type-bracketed, but equality with null and
\* inequality see missing fields.  A value that is not there is null.
MongoKeeps(e, actual) ==
    LET val == IF e.val = Undef THEN Null ELSE e.val
    IN  IF e.op \in {"EQ", "IN", "NE"} THEN Compares(e.op, actual, val) ELSE SqlTrue(e.op, actual, val)

\* The rows an engine keeps under a filter.
KeptRows(leg, filter) ==
    {row \in leg.table : \A e \in filter :
        IF leg.engine = "MONGODB" THEN MongoKeeps(e, row[e.col]) ELSE SqlKeeps(e, row[e.col])}

\* fetchLegDirect: at most the federation's cap of them, which ones is up to the
\* engine; with a warning when the cap is reached.
SomeOf(rows, n) == IF Cardinality(rows) <= n THEN rows ELSE CHOOSE s \in SUBSET rows : Cardinality(s) = n
FetchDirect(rows, cap) == [rows |-> SomeOf(rows, cap), warned |-> Cardinality(rows) >= cap]

\* fetchLegStream: all of them, in batches.
FetchStream(leg, filter) == KeptRows(leg, filter)

----------------------------------------------------------------------------
(* Joining in memory                                                         *)

\* A row that is not of that leg has no such column.
ReadColumn(r, at) == IF at[1] \in DOMAIN r THEN r[at[1]][at[2]] ELSE Undef

\* JavaScript's comparisons: null and undefined are loosely equal, null is 0 to
\* an ordering, and nothing is ordered with undefined.
Nullish(v) == v \in {Null, Undef}
JsNumber(v) == IF v = Null THEN 0 ELSE v
JsCompares(left, op, right) ==
    LET equal == left = right \/ (Nullish(left) /\ Nullish(right))
    IN  CASE op = "NE" -> ~equal
          [] op \in {"GT", "GTE", "LT", "LTE"} ->
                Undef \notin {left, right} /\ Compares(op, JsNumber(left), JsNumber(right))
          [] OTHER -> equal

\* A defect: unmatched rows of the left side are kept by inner joins too.
MergeJoinKeepsAll(left, right, on, keepUnmatchedLeft) ==
    LET matching == {<<l, r>> \in left \X right : ReadColumn(r, on.right) = ReadColumn(l, on.left)}
    IN  {Merged(p[1], p[2]) : p \in matching} \cup (left \ {p[1] : p \in matching})

\* mergeJoin: an equi-join looks the left key up in a Map of the right keys,
\* which tells null and undefined apart and finds each; any other compares
\* every pair (evalOn).
MergeJoin(left, right, on, keepUnmatchedLeft) ==
    LET matching == {<<l, r>> \in left \X right :
                        IF on.op = "EQ" THEN ReadColumn(r, on.right) = ReadColumn(l, on.left)
                        ELSE JsCompares(ReadColumn(l, on.left), on.op, ReadColumn(r, on.right))}
    IN  {Merged(p[1], p[2]) : p \in matching}
        \cup (IF keepUnmatchedLeft THEN left \ {p[1] : p \in matching} ELSE {})

\* A set cut into pieces of at most that size.
Chunks(set, size) ==
    LET s == SetToSeq(set)
    IN  [i \in 1 .. (Len(s) + size - 1) \div size |->
            {s[j] : j \in {x \in DOMAIN s : (x - 1) \div size = i - 1}}]

\* joinChunk, one leg.  An equi-join binds the keys of the rows so far as IN, in
\* batches of at most bindMax; without keys the leg is not fetched.  The IN takes
\* the place of any other predicate on the key column, for which applyWhere makes
\* up.  RIGHT and FULL joins are executed as INNER.
BindJoin(acc, leg, filter, env) ==
    LET key == leg.on.right[2]
        keys == {ReadColumn(l, leg.on.left) : l \in acc.rows} \ {Null, Undef}
        others == KeptRows(leg, {e \in filter : e.col # key})
        bound(batch) == {row \in others : row[key] \in batch}
        parts == IF leg.on.op = "EQ"
                 THEN {FetchDirect(bound(batch), env.cap) : batch \in Range(Chunks(keys, env.bindMax))}
                 ELSE {FetchDirect(KeptRows(leg, filter), env.cap)}
        right == Qualify(UNION {p.rows : p \in parts}, leg.alias)
    IN  [rows |-> MergeJoin(acc.rows, right, leg.on, leg.type = "LEFT"),
         warned |-> acc.warned \/ \E p \in parts : p.warned]

\* applyWhere: no operator of the null tests is known, so they compare with the
\* missing value.
ApplyWhere(rows, where) ==
    {r \in rows : \A i \in DOMAIN where :
        LET w == where[i]
            actual == ReadColumn(r, <<w.leg, w.col>>)
        IN  IF w.op = "IN" THEN actual = w.val ELSE JsCompares(actual, w.op, w.val)}

----------------------------------------------------------------------------
(* executeJoin                                                               *)

AllInnerEqui(legs) == \A i \in 2 .. Len(legs) : legs[i].type = "INNER" /\ legs[i].on.op = "EQ"

\* estimateLegRows: a COUNT, a cache up to a minute old or the catalog, so any
\* number; nothing where the probe failed or is turned off.  Outer and other
\* joins are not probed.
Unknown == -3
BroadcastMax == 2
Estimates(legs) ==
    IF AllInnerEqui(legs) THEN [DOMAIN legs -> {Unknown, 1, BroadcastMax, BroadcastMax + 1}]
    ELSE {[i \in DOMAIN legs |-> Unknown]}

\* The leg with the fewest rows drives, the first of them; of two legs only when
\* both are known.
DrivingLeg(legs, cards) ==
    LET known == {i \in DOMAIN legs : cards[i] # Unknown}
    IN  IF known = {} \/ (Len(legs) = 2 /\ known # {1, 2}) THEN 1
        ELSE CHOOSE i \in known : \A j \in known : cards[i] < cards[j] \/ (cards[i] = cards[j] /\ i <= j)

\* Two legs that are known to be small are both fetched whole and hash-joined.
Broadcasts(legs, cards) ==
    Len(legs) = 2 /\ AllInnerEqui(legs) /\ \A i \in 1 .. 2 : cards[i] \in 0 .. BroadcastMax

Strategies(legs) == {<<DrivingLeg(legs, c), Broadcasts(legs, c)>> : c \in Estimates(legs)}

\* The chosen leg drives; the FROM leg takes its place, with its ON reversed.
Reorder(legs, best) ==
    IF best = 1 THEN legs
    ELSE LET on == legs[best].on
         IN  [legs EXCEPT ![1] = [legs[best] EXCEPT !.type = "NONE", !.on = NoOn],
                          ![best] = [legs[1] EXCEPT !.type = "INNER",
                                                    !.on = [left |-> on.right, op |-> on.op, right |-> on.left]]]

\* The driving rows are joined in windows.  After a full window that brings the
\* output to the cap the join stops with a warning; the last window, which is not
\* full, is cut to the cap without one.
StreamJoin(legs, filters, env) ==
    LET driving == Qualify(FetchStream(legs[1], filters[legs[1].alias]), legs[1].alias)
        joinChunk(rows) == FoldLeft(LAMBDA acc, leg : BindJoin(acc, leg, filters[leg.alias], env),
                                    [rows |-> rows, warned |-> FALSE], Tail(legs))
        step(acc, window) ==
            IF Cardinality(acc.rows) >= env.cap THEN acc
            ELSE LET chunk == joinChunk(window)
                     rows == acc.rows \cup chunk.rows
                     full == Cardinality(window) = env.window
                 IN  [rows |-> IF full THEN rows ELSE SomeOf(rows, env.cap),
                      warned |-> acc.warned \/ chunk.warned \/ (full /\ Cardinality(rows) >= env.cap)]
    IN  FoldLeft(step, [rows |-> {}, warned |-> FALSE], Chunks(driving, env.window))

\* Both sides at once.
BroadcastJoin(left, right, filters, env) ==
    LET l == FetchDirect(KeptRows(left, filters[left.alias]), env.cap)
        r == FetchDirect(KeptRows(right, filters[right.alias]), env.cap)
    IN  [rows |-> MergeJoin(Qualify(l.rows, left.alias), Qualify(r.rows, right.alias), right.on, FALSE),
         warned |-> l.warned \/ r.warned]

\* `joined` is how many rows there were before the WHERE.
ExecuteJoin(legs0, where, strategy, env) ==
    LET legs == Reorder(legs0, strategy[1])
        filters == BuildLegFilters(legs0, where)
        joined == IF strategy[2] THEN BroadcastJoin(legs[1], legs[2], filters, env)
                  ELSE StreamJoin(legs, filters, env)
    IN  [rows |-> ApplyWhere(joined.rows, where), joined |-> Cardinality(joined.rows),
         warned |-> joined.warned \/ \E i \in DOMAIN legs : legs[i].type \in {"RIGHT", "FULL"}]

----------------------------------------------------------------------------
(* Which columns the legs of a join are asked for                            *)

\* A reference as the query writes it: its leg ("none" where it is not said), its
\* column, which may be "*".  An item of the select list is a "column", an
\* "aggregate", or "opaque" (a window, an expression); "none" is no alias.
Ref(leg, col) == [leg |-> leg, col |-> col]
LegNames == {"a", "b"}
SelectAliases(q) == {q.select[i].alias : i \in DOMAIN q.select} \ {"none"}
IsSelectAlias(q, ref) == ref.leg = "none" /\ ref.col \in SelectAliases(q)

\* The references that are followed: names of the select list are not columns.
ClauseRefs(q) == {r \in q.where \cup q.order \cup q.having : ~IsSelectAlias(q, r)}
FollowedRefs(q) ==
    q.on \cup ClauseRefs(q)
    \cup {q.select[i].ref : i \in {j \in DOMAIN q.select : q.select[j].kind # "aggregate" \/ q.select[j].ref.col # "*"}}

\* joinLegProjections: everything, unless every reference says its leg; columns
\* of a leg of which all are wanted are not counted.
JoinLegProjections(q, columns) ==
    LET refs == FollowedRefs(q)
        unsure == \/ q.select = << >> \/ q.opaqueWhere
                  \/ \E i \in DOMAIN q.select : q.select[i].kind = "opaque"
                  \/ \E r \in refs : r.leg \notin LegNames
        whole(l) == unsure \/ \E r \in refs : r.leg = l /\ r.col = "*"
    IN  [l \in LegNames |-> IF whole(l) THEN columns[l] ELSE {r.col : r \in {x \in refs : x.leg = l}}]

\* applyProjection: the column a reference of the select list is read from, the
\* first of that name when it does not say its leg or its leg was not asked for it.
ApplyProjection(q, fetched) ==
    [i \in {j \in DOMAIN q.select : q.select[j].kind = "column" /\ q.select[j].ref.col # "*"} |->
        LET ref == q.select[i].ref
            holders == {l \in LegNames : ref.col \in fetched[l]}
        IN  CASE ref.leg \in holders -> ref
              [] holders = {} -> Ref("none", ref.col)
              [] OTHER -> Ref(IF "a" \in holders THEN "a" ELSE "b", ref.col)]

\* Every column the fabric reads after the join was fetched, and what is selected
\* is the column that was named.  (Not so for an unqualified name of the WHERE
\* that is also a name of the select list: it is taken for that one.)
ProjectionSuffices(q, columns) ==
    LET fetched == JoinLegProjections(q, columns)
        meant(r) == {l \in LegNames : r.col \in columns[l] /\ r.leg \in {l, "none"}}
        read == q.on \cup q.where \cup {r \in q.order \cup q.having : ~IsSelectAlias(q, r)}
        output == ApplyProjection(q, fetched)
    IN  /\ \A r \in read : IsSelectAlias(q, r) \/ \A l \in meant(r) : r.col \in fetched[l]
        /\ \A i \in DOMAIN output :
             LET ref == q.select[i].ref
             IN  meant(ref) # {} => output[i].col = ref.col /\ output[i].leg \in meant(ref)

----------------------------------------------------------------------------
(* The cases: two legs joined on their keys, with up to one predicate; three  *)
(* legs in a chain or a star, with predicates on two of the joined columns.   *)

SmallTables == {t \in SUBSET Row : Cardinality(t) <= 2}
Wheres == {<< >>} \cup
    {<<Predicate(l, c, op, IF op \in {"IS_NULL", "IS_NOT_NULL"} THEN Undef ELSE 1)>> :
        l \in {"a", "b", "none"}, c \in Cols, op \in Operators}

TwoLegs(ta, tb, engine, type, op) ==
    <<Leg("a", ta, "POSTGRES", "NONE", NoOn), Leg("b", tb, engine, type, On("a", op, "b"))>>

Keys == {{[k |-> x, v |-> 1]} : x \in Value} \cup {{[k |-> x, v |-> 1] : x \in Value}}
ThreeLegs(ta, tb, tc, hub, type) ==
    <<Leg("a", ta, "POSTGRES", "NONE", NoOn), Leg("b", tb, "POSTGRES", type, On("a", "EQ", "b")),
      Leg("c", tc, "POSTGRES", type, On(hub, "EQ", "c"))>>
TwoConstants == {<<Predicate(l, "k", "EQ", x), Predicate(m, "k", "EQ", y)>> :
                    l \in {"a", "b", "c"}, m \in {"a", "b", "c"}, x \in Value, y \in Value}

NoNullKeys(legs) == \A i \in DOMAIN legs : \A row \in legs[i].table : row.k # Null

\* A predicate that does not say its leg finds no column in a joined row.  What
\* the null tests of a join mean is lost on the way (they are pushed without a
\* value and not known to applyWhere); <> differs on NULLs that reach the
\* in-memory check: from an engine that lets them through, or from the missing
\* side of an outer join.
SafePredicate(legs, w) ==
    /\ w.leg # "none"
    /\ w.op \notin {"IS_NULL", "IS_NOT_NULL"}
    /\ w.op = "NE" => \A i \in DOMAIN legs : legs[i].type # "LEFT" /\ legs[i].engine # "MONGODB"

\* In memory, NULL keys equal each other when both sides are fetched whole, and
\* are numbers to the other comparisons.
SafeKeys(legs, broadcast) ==
    NoNullKeys(legs) \/ (~broadcast /\ \A i \in 2 .. Len(legs) : legs[i].on.op = "EQ")

\* Each leg is joined to one before it, by a column of its own.
JoinedInOrder(legs) ==
    \A i \in 2 .. Len(legs) : /\ legs[i].on.left[1] \in {legs[j].alias : j \in 1 .. i - 1}
                              /\ legs[i].on.right[1] = legs[i].alias

----------------------------------------------------------------------------
(* Set operations and aggregation across sources (federation.ts executeSetOp  *)
(* and fanAggregate, aggregate.ts).  Legs stream their rows; a row of a set   *)
(* operation is a number standing for its JSON text, a row of an aggregate    *)
(* has a group g and a nullable column x.                                     *)
NoValue == -1
NoLimit == -1

----------------------------------------------------------------------------
(* executeSetOp                                                              *)

\* How many rows of a leg are read: the FABRIC_FED_MAX_ROWS_PER_LEG setting or,
\* where it has its default value, the LIMIT of the whole operation.
Unbounded == 1000
LegCap(envCap, limit) ==
    IF envCap # NoLimit THEN envCap ELSE IF limit > 0 THEN limit ELSE Unbounded

\* The streaming loop: rows up to the cap, and a warning when it is reached.
ReadLeg(leg, cap) == SubSeq(leg, 1, IF Len(leg) < cap THEN Len(leg) ELSE cap)
LegWarns(leg, cap) == Len(leg) >= cap

\* A small LIMIT keeps everything in one partition; otherwise the estimates
\* (which may be stale) decide.
PartitionCounts(limit) == IF limit > 0 THEN {1} ELSE {1, 2}
PartitionOf(row, n) == (row % n) + 1

DistinctInOrder(s) == FoldLeft(LAMBDA acc, x : IF Contains(acc, x) THEN acc ELSE Append(acc, x), << >>, s)

\* The rows of one partition: sets per leg, then the operation.
CombinePartition(op, parts) ==
    LET first == DistinctInOrder(parts[1])
        inRest(x) == {i \in 2 .. Len(parts) : Contains(parts[i], x)}
    IN  CASE op = "UNION" -> DistinctInOrder(FlattenSeq(parts))
          [] op = "INTERSECT" -> SelectSeq(first, LAMBDA x : inRest(x) = 2 .. Len(parts))
          [] OTHER -> SelectSeq(first, LAMBDA x : inRest(x) = {})

\* applyOrderLimit: stable sort, then OFFSET and LIMIT (LIMIT 0 is a limit).
Ordered(rows, order) ==
    CASE order = "none" -> rows
      [] order = "ASC" -> SortSeq(rows, LAMBDA a, b : a < b)
      [] OTHER -> SortSeq(rows, LAMBDA a, b : a > b)
ApplyOrderLimit(rows, order, limit, offset) ==
    LET sorted == Ordered(rows, order)
        last == IF limit = NoLimit \/ offset + limit > Len(sorted) THEN Len(sorted) ELSE offset + limit
    IN  SubSeq(sorted, offset + 1, last)

ExecuteSetOp(op, legs, order, limit, offset, envCap, partitions) ==
    LET cap == LegCap(envCap, limit)
        part(p) == [i \in DOMAIN legs |->
                        SelectSeq(ReadLeg(legs[i], cap), LAMBDA x : PartitionOf(x, partitions) = p)]
    IN  [rows |-> ApplyOrderLimit(FlattenSeq([p \in 1 .. partitions |-> CombinePartition(op, part(p))]),
                                  order, limit, offset),
         warned |-> \E i \in DOMAIN legs : LegWarns(legs[i], cap)]

\* The reference.
SqlSetOp(op, legs) ==
    LET rest == {ToSet(legs[i]) : i \in 2 .. Len(legs)}
    IN  CASE op = "UNION" -> UNION {ToSet(legs[i]) : i \in DOMAIN legs}
          [] op = "INTERSECT" -> {x \in ToSet(legs[1]) : \A s \in rest : x \in s}
          [] OTHER -> ToSet(legs[1]) \ UNION rest

\* Whether `rows` is an answer to the operation with its ORDER BY, OFFSET and
\* LIMIT: without an order any rows of the right number will do.
AnswersSetOp(rows, op, legs, order, limit, offset) ==
    LET all == SqlSetOp(op, legs)
        available == IF Cardinality(all) > offset THEN Cardinality(all) - offset ELSE 0
    IN  /\ ToSet(rows) \subseteq all
        /\ Cardinality(ToSet(rows)) = Len(rows)
        /\ Len(rows) = IF limit # NoLimit /\ limit < available THEN limit ELSE available
        /\ order # "none" =>
              \A x \in all, i \in DOMAIN rows :
                 LET before == {y \in all : IF order = "ASC" THEN y < rows[i] ELSE y > rows[i]}
                 IN  Cardinality(before) = offset + i - 1

\* projectRowToAlias: a leg's row under the names its select list gives.  A row
\* is compared by name, where SQL compares by position.
OutputName(item) == IF item.alias # "none" THEN item.alias ELSE item.column
ProjectRowToAlias(row, select) ==
    {[name |-> OutputName(select[i]),
      value |-> IF OutputName(select[i]) \in DOMAIN row THEN row[OutputName(select[i])] ELSE row[select[i].column]] :
        i \in DOMAIN select}

\* Two legs' rows are the same row exactly when their values are, provided both
\* select lists give the same names and none is the name of another column.
RowsCompareByValue(row, other, select, selectOther) ==
    LET values(r, list) == [i \in DOMAIN list |-> r[list[i].column]]
        names(list) == [i \in DOMAIN list |-> OutputName(list[i])]
        shadows(list) == \E i \in DOMAIN list : list[i].alias \in DOMAIN row \ {list[i].column}
    IN  /\ names(select) = names(selectOther) /\ ~shadows(select) /\ ~shadows(selectOther)
        /\ Cardinality(ToSet(names(select))) = Len(select)
        => (ProjectRowToAlias(row, select) = ProjectRowToAlias(other, selectOther)
              <=> values(row, select) = values(other, selectOther))

----------------------------------------------------------------------------
(* execute: the order of the steps of a federated query                      *)

\* A row is the group it belongs to, an aggregated row stands for its group;
\* HAVING keeps the groups above a bound.
Sliced(rows, q) == ApplyOrderLimit(rows, q.order, q.limit, q.offset)
Grouped(rows) == DistinctInOrder(rows)
ApplyHavingTo(rows, q) == IF q.having = NoValue THEN rows ELSE SelectSeq(rows, LAMBDA g : g > q.having)

\* A set operation, and partial aggregates merged, are cut before an outer
\* aggregate sees them; a single source sorts and cuts its own answer.
ExecuteSteps(q, rows) ==
    CASE q.shape \in {"setop", "fan"} ->
           LET combined == Sliced(DistinctInOrder(rows), q)
           IN  IF q.aggregate THEN Sliced(Grouped(combined), q) ELSE combined
      [] q.shape = "join" /\ q.aggregate -> Sliced(Grouped(rows), q)
      [] q.shape = "join" -> Sliced(IF q.distinct THEN DistinctInOrder(rows) ELSE rows, q)
      [] OTHER -> Ordered(Sliced(IF q.aggregate \/ q.distinct THEN DistinctInOrder(rows) ELSE rows, q), q.order)

\* The federation road filters the groups of what execute returned.
FederationRoad(q, rows) == ApplyHavingTo(ExecuteSteps(q, rows), q)

\* Combine or group, filter the groups, order, then cut: once, and at the end,
\* unless a LIMIT or OFFSET comes with a HAVING or with an aggregate over a set
\* operation, which see only the rows that were left.
StepsInOrder(q, rows) ==
    LET several == q.shape \in {"setop", "fan"}
        combined == IF several \/ q.aggregate \/ q.distinct THEN DistinctInOrder(rows) ELSE rows
        cuts == q.limit # NoLimit \/ q.offset > 0
    IN  (cuts /\ (q.having # NoValue \/ (several /\ q.aggregate)))
        \/ FederationRoad(q, rows) = Sliced(ApplyHavingTo(combined, q), q)

----------------------------------------------------------------------------
(* Aggregates                                                                *)

Functions == {"COUNT", "SUM", "MIN", "MAX", "AVG", "COUNT_DISTINCT"}
Numeric(v) == IF v = NoValue THEN 0 ELSE v
Total(s) == FoldLeft(LAMBDA acc, v : acc + Numeric(v), 0, s)
NonNull(s) == SelectSeq(s, LAMBDA v : v # NoValue)
Least(s) == IF s = << >> THEN NoValue ELSE Min(ToSet(s))
Greatest(s) == IF s = << >> THEN NoValue ELSE Max(ToSet(s))

\* parseAggregates: the groups and the aggregates of a select list.  An item is a
\* "name", a "column" (an object without an aggregate, which is passed over), a
\* "star", or an "aggregate"; any DISTINCT makes it a distinct count.  An aggregate
\* without an alias is named for its function and its column.
ParsedAggregate(item) ==
    [func |-> IF item.distinct THEN "COUNT_DISTINCT" ELSE item.func, column |-> item.column,
     alias |-> IF item.alias # "none" THEN <<item.alias>> ELSE <<item.func, item.column>>]
ParseAggregates(select, groupBy) ==
    LET aggregates == SelectSeq(select, LAMBDA item : item.kind = "aggregate")
        names == SelectSeq(select, LAMBDA item : item.kind = "name")
    IN  [isAggregate |-> aggregates # << >> \/ groupBy # << >>,
         groups |-> IF select = << >> THEN groupBy
                    ELSE DistinctInOrder(groupBy \o [i \in DOMAIN names |-> names[i].column]),
         aggregates |-> [i \in DOMAIN aggregates |-> ParsedAggregate(aggregates[i])]]

\* The fields of the answer: no group twice, none of the names left out, and no
\* two aggregates in one field unless the query names them so, or counts a column
\* both with and without DISTINCT, which get the same name.  (DISTINCT of another
\* function is not SQL's.)
AggregatesNamed(select, groupBy) ==
    LET plan == ParseAggregates(select, groupBy)
        asked == {select[i].column : i \in {j \in DOMAIN select : select[j].kind = "name"}} \cup ToSet(groupBy)
        clash(a, b) == a.alias = b.alias /\ <<a.func, a.column>> # <<b.func, b.column>>
    IN  plan.isAggregate =>
        /\ ToSet(plan.groups) = asked
        /\ select = << >> \/ IsInjective(plan.groups)
        /\ \A i, j \in DOMAIN plan.aggregates :
              LET a == plan.aggregates[i]
                  b == plan.aggregates[j]
              IN  clash(a, b) =>
                    Len(a.alias) = 1 \/ (a.column = b.column /\ "COUNT_DISTINCT" \in {a.func, b.func})

\* The column of one group.
Column(rows, g) == LET own == SelectSeq(rows, LAMBDA r : r.g = g) IN [i \in DOMAIN own |-> own[i].x]
Groups(rows) == {rows[i].g : i \in DOMAIN rows}

\* An average is kept as the fraction <<sum, count>>; NULL is <<0, 0>>.
Fraction(sum, count) == IF count = 0 THEN <<0, 0>> ELSE <<sum, count>>

\* SQL's aggregates: the reference.
SqlAggregate(func, s) ==
    CASE func = "COUNT" -> Len(NonNull(s))
      [] func = "SUM" -> IF NonNull(s) = << >> THEN NoValue ELSE Total(s)
      [] func = "MIN" -> Least(NonNull(s))
      [] func = "MAX" -> Greatest(NonNull(s))
      [] func = "COUNT_DISTINCT" -> Cardinality(ToSet(NonNull(s)))
      [] OTHER -> Fraction(Total(s), Len(NonNull(s)))

\* toMongoAggregate: COUNT is $sum: 1 whatever the column, $addToSet keeps null,
\* $sum of nothing is 0.
MongoAggregate(func, s) ==
    CASE func = "COUNT" -> Len(s)
      [] func = "SUM" -> Total(s)
      [] func = "COUNT_DISTINCT" -> Cardinality(ToSet(s))
      [] OTHER -> SqlAggregate(func, s)

\* aggExprSql / toMongoAggregate of the partial aggregates of partialSpec: AVG
\* is sent as SUM and COUNT.
PartialAggregate(engine, func, s) ==
    LET agg(f) == IF engine = "MONGODB" THEN MongoAggregate(f, s) ELSE SqlAggregate(f, s)
    IN  IF func = "AVG" THEN [sum |-> agg("SUM"), count |-> agg("COUNT")] ELSE [value |-> agg(func)]

\* The partial rows of a source: one per group it has.
PartialRows(leg, func) ==
    [i \in 1 .. Cardinality(Groups(leg.rows)) |->
        LET g == SetToSeq(Groups(leg.rows))[i]
        IN  [g |-> g, part |-> PartialAggregate(leg.engine, func, Column(leg.rows, g))]]

\* mergePartials: the partial rows of one group, in the order they came.
MergePartials(func, parts) ==
    LET step(pick(_, _)) ==
            FoldLeft(LAMBDA acc, p : IF acc = << >> THEN <<p.value>>
                                     ELSE <<pick(Numeric(acc[1]), Numeric(p.value))>>, << >>, parts)[1]
    IN  CASE func = "AVG" ->
                Fraction(FoldLeft(LAMBDA acc, p : acc + Numeric(p.sum), 0, parts),
                         FoldLeft(LAMBDA acc, p : acc + Numeric(p.count), 0, parts))
          [] func = "MIN" -> step(LAMBDA a, b : IF a < b THEN a ELSE b)
          [] func = "MAX" -> step(LAMBDA a, b : IF a > b THEN a ELSE b)
          [] OTHER -> FoldLeft(LAMBDA acc, p : acc + Numeric(p.value), 0, parts)

\* fanAggregate: every source aggregates its own rows, the groups are merged.
FanAggregate(func, legs) ==
    LET all == FlattenSeq([i \in DOMAIN legs |-> PartialRows(legs[i], func)])
        own(g) == LET rows == SelectSeq(all, LAMBDA r : r.g = g) IN [i \in DOMAIN rows |-> rows[i].part]
    IN  [g \in {all[i].g : i \in DOMAIN all} |-> MergePartials(func, own(g))]

\* aggregateRaw: over rows already in the fabric (after a join, a set
\* operation or a recursion); a NULL counts as 0 except to COUNT.
AggregateRaw(func, rows) ==
    LET of(s) ==
            CASE func = "COUNT" -> Len(NonNull(s))
              [] func = "SUM" -> Total(s)
              [] func = "MIN" -> Min({Numeric(s[i]) : i \in DOMAIN s})
              [] func = "MAX" -> Max({Numeric(s[i]) : i \in DOMAIN s})
              [] func = "COUNT_DISTINCT" -> Cardinality(ToSet(s))
              [] OTHER -> Fraction(Total(s), Len(s))
    IN  [g \in Groups(rows) |-> of(Column(rows, g))]

AllRows(legs) == FlattenSeq([i \in DOMAIN legs |-> legs[i].rows])
SqlGroups(func, rows) == [g \in Groups(rows) |-> SqlAggregate(func, Column(rows, g))]

\* Where the partial aggregates are enough to give SQL's answer.
MergeableExactly(func, legs) ==
    LET rows == AllRows(legs)
        noNulls == \A i \in DOMAIN rows : rows[i].x # NoValue
        sqlOnly == \A i \in DOMAIN legs : legs[i].engine # "MONGODB"
    IN  CASE func \in {"COUNT", "AVG"} -> noNulls \/ sqlOnly
          [] func = "COUNT_DISTINCT" -> FALSE
          [] OTHER -> noNulls
=============================================================================
