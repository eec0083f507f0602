------------------------------ MODULE QueryText ------------------------------
(* Queries as text: the scanners that admit SQL fragments, the validation of  *)
(* query trees and their rendering as SQL, and saved analytics with their     *)
(* variables.                                                                *)
EXTENDS Integers, Sequences, FiniteSets

----------------------------------------------------------------------------
(* Fragments, as sequences of token classes                                  *)

Words == {"name", "fn", "banned", "and", "select", "delete", "new", "int", "double", "precision", "nextval"}
Tokens == Words \cup {"(", ")", ".", ":", "lit", "a.lit", "quoted"}

At(toks, i) == IF i \in DOMAIN toks THEN toks[i] ELSE "end"
Called(toks, i) == At(toks, i + 1) = "("

\* How many words after a cast are its type: the longest type spelled so.
CastWords(toks, i) ==
    IF At(toks, i) = "double" /\ At(toks, i + 1) = "precision" THEN 2
    ELSE IF At(toks, i) \in {"int", "double"} THEN 1 ELSE 0

WordAllowedAnywhere(toks, i) == toks[i] \notin {"select", "delete"}

\* A word of a manifest's expression.
WordAllowed(toks, i) ==
    /\ toks[i] \notin {"select", "delete"}
    /\ Called(toks, i) => /\ toks[i] # "banned"
                          /\ toks[i] = "nextval" => At(toks, i + 2) = "lit"

\* Expressions of manifests: one pass, with the depth of parentheses.
AssertSafeExpression(toks) ==
    LET n == Len(toks)
        scan[i \in 1 .. n + 1, depth \in 0 .. n] ==
            CASE i > n -> depth = 0
              [] i <= n /\ toks[i] = "(" -> scan[i + 1, depth + 1]
              [] i <= n /\ toks[i] = ")" -> depth > 0 /\ scan[i + 1, depth - 1]
              [] i <= n /\ toks[i] = "." -> At(toks, i - 1) = "new" /\ scan[i + 1, depth]
              [] i <= n /\ toks[i] = ":" ->
                    /\ At(toks, i + 1) = ":" /\ CastWords(toks, i + 2) > 0
                    /\ scan[i + 2 + CastWords(toks, i + 2), depth]
              [] i <= n /\ toks[i] \in Words -> WordAllowed(toks, i) /\ scan[i + 1, depth]
              [] OTHER -> scan[i + 1, depth]
    IN  n > 0 /\ scan[1, 0]

Count(toks, t, k) == Cardinality({i \in 1 .. k : toks[i] = t})
Balanced(toks) ==
    /\ \A k \in DOMAIN toks : Count(toks, ")", k) <= Count(toks, "(", k)
    /\ Count(toks, "(", Len(toks)) = Count(toks, ")", Len(toks))

\* Fragments of queries: no character a cast needs, one pass over the words.
\* The word after a dot is a member of a qualifier that was looked at.
GuardExpression(toks) ==
    /\ toks # <<>> /\ Balanced(toks)
    /\ \A i \in DOMAIN toks :
        /\ toks[i] # ":"
        /\ toks[i] = "quoted" => ~Called(toks, i)
        /\ toks[i] \in Words /\ At(toks, i - 1) # "." =>
              /\ toks[i] # "delete"
              /\ IF Called(toks, i) THEN toks[i] \in {"fn", "and"} ELSE toks[i] # "select"

\* What an expression of a manifest may be: parentheses in balance, members of
\* the trigger's rows only, casts to known types only, no statement and no
\* refused function.
PlainExpression(toks) ==
    /\ toks # <<>> /\ Balanced(toks)
    /\ \A i \in DOMAIN toks :
        /\ toks[i] \notin {"select", "delete"}
        /\ toks[i] = "." => At(toks, i - 1) = "new"
        /\ toks[i] = ":" => \/ At(toks, i + 1) = ":" /\ At(toks, i + 2) \in {"int", "double"}
                            \/ At(toks, i - 1) = ":" /\ At(toks, i + 1) \in {"int", "double"}
        /\ toks[i] = "banned" => ~Called(toks, i)
        /\ toks[i] = "nextval" /\ Called(toks, i) => At(toks, i + 2) = "lit"

Wrapped(toks) == <<"(">> \o toks \o <<")">>

\* Admitted text stays one operand where the platform puts it: between
\* parentheses and beside other conditions.
FragmentSafe(toks) ==
    /\ AssertSafeExpression(toks) <=> PlainExpression(toks)
    /\ AssertSafeExpression(toks) => AssertSafeExpression(Wrapped(toks))
    /\ GuardExpression(toks) => GuardExpression(Wrapped(toks))
    /\ GuardExpression(toks) /\ (\A i \in DOMAIN toks : toks[i] # ".") => AssertSafeExpression(toks)

\* A default: a number, a known word and plain text become literals; a quoted
\* or called form must be an expression.
RenderDefault(d, toks) ==
    CASE d = "number" -> "literal"
      [] d = "keyword" -> "keyword"
      [] d = "text" -> "literal"
      [] d = "expression" -> IF AssertSafeExpression(toks) THEN "expression" ELSE "refused"
      [] d = "object" -> "refused"
DefaultSafe(d, toks) == RenderDefault(d, toks) = "expression" => Balanced(toks) /\ d = "expression"

----------------------------------------------------------------------------
(* Query trees                                                               *)

Strict(name) == name \in {"t", "c", "x"}
Relaxed(name) == name # "bad"              \* also "odd name"
ColumnField(column) == column # "bad"      \* a path, or an expression "x+1"

Operators == {"EQ", "NE", "GT", "IN", "NIN", "IS_NULL", "LIKE", "MATCH", "CONTAINS"}
MappedOperators == (Operators \ {"MATCH", "CONTAINS"}) \cup {"NOT_LIKE"}
Aggregates == {"COUNT", "COUNT_DISTINCT"}
WindowFns == {"RANK", "LAG"}
RenderedWindows == {"RANK"}

None == [set |-> "absent"]
Present(q) == q.set # "absent"

SelectValid(item) ==
    CASE item.kind = "column" -> ColumnField(item.fn)
      [] item.kind = "expression" -> item.fn # "bad"
      [] item.kind = "aggregate" -> item.fn \in Aggregates
      [] item.kind = "window" -> item.fn \in WindowFns
JoinValid(j) ==
    /\ Relaxed(j.name) /\ j.type \in {"INNER", "LEFT", "LEFT OUTER", "CROSS"}
    /\ j.on = "columns" => j.op \in Operators \cup {"none"}
WhereValid(w) ==
    IF w.kind = "compare" THEN ColumnField(w.column) /\ w.op \in Operators \cup {"none"} ELSE ColumnField(w.column)

RECURSIVE ValidateAst(_)
\* Every clause is looked at, the operator of HAVING excepted.
ValidateAst(q) ==
    /\ Present(q)
    /\ IF Present(q.from.query) THEN ValidateAst(q.from.query) ELSE Relaxed(q.from.name)
    /\ \A i \in DOMAIN q.joins : JoinValid(q.joins[i])
    /\ \A i \in DOMAIN q.select : SelectValid(q.select[i])
    /\ \A i \in DOMAIN q.where : WhereValid(q.where[i])
    /\ \A i \in DOMAIN q.having : Relaxed(q.having[i].column)
    /\ q.limit # "bad"
    /\ \A i \in DOMAIN q.legs : ValidateAst(q.legs[i])
    /\ \A i \in DOMAIN q.with :
        /\ Strict(q.with[i].name) /\ ValidateAst(q.with[i].base)
        /\ Present(q.with[i].unionAll) => ValidateAst(q.with[i].unionAll)

SelectRenders(item) ==
    CASE item.kind = "column" -> Strict(item.fn)
      [] item.kind = "expression" -> item.fn # "bad"
      [] item.kind = "aggregate" -> item.fn \in Aggregates
      [] item.kind = "window" -> item.fn \in RenderedWindows
JoinRenders(j) ==
    /\ Strict(j.name) /\ j.type \in {"INNER", "LEFT", "CROSS"}
    /\ j.on = "columns" /\ j.op \in MappedOperators
WhereRenders(w) ==
    CASE w.kind = "compare" -> Strict(w.column) /\ w.op \in MappedOperators
      [] w.kind = "search" -> Strict(w.column)
      [] w.kind = "expression" -> w.column # "bad"
HavingRenders(h) == (h.op = "none" \/ h.op \in MappedOperators) /\ (h.column = "alias" \/ Strict(h.column))

\* A name is a CTE's when one of the enclosing WITH clauses renders it.
Reference(name, ctes) == [name |-> name, as |-> IF name \in ctes THEN "cte" ELSE "table"]
CteNames(q, i) == {q.with[k].name : k \in 1 .. i}

RECURSIVE ToSql(_, _)
\* A set operation renders its legs, order and limit and nothing beside them.
ToSql(q, ctes) ==
    LET scope == ctes \cup CteNames(q, Len(q.with))
        parts == {ToSql(q.with[i].base, ctes \cup CteNames(q, i)) : i \in DOMAIN q.with}
                 \cup {ToSql(q.with[i].unionAll, ctes \cup CteNames(q, i)) :
                          i \in {k \in DOMAIN q.with : Present(q.with[k].unionAll)}}
                 \cup (IF Present(q.from.query) THEN {ToSql(q.from.query, scope)} ELSE {})
        legs == {ToSql(q.legs[i], ctes) : i \in DOMAIN q.legs}
    IN  IF q.legs # <<>>
        THEN [ok |-> q.limit # "bad" /\ \A s \in legs : s.ok, refs |-> UNION {s.refs : s \in legs}]
        ELSE [ok |-> /\ \A s \in parts : s.ok
                     /\ \A i \in DOMAIN q.with : Strict(q.with[i].name)
                     /\ IF Present(q.from.query) THEN q.from.alias ELSE Strict(q.from.name)
                     /\ \A i \in DOMAIN q.joins : JoinRenders(q.joins[i])
                     /\ \A i \in DOMAIN q.select : SelectRenders(q.select[i])
                     /\ \A i \in DOMAIN q.where : WhereRenders(q.where[i])
                     /\ \A i \in DOMAIN q.having : HavingRenders(q.having[i])
                     /\ q.limit # "bad",
              refs |-> UNION {s.refs : s \in parts}
                       \cup (IF Present(q.from.query) THEN {} ELSE {Reference(q.from.name, scope)})
                       \cup {Reference(q.joins[i].name, scope) : i \in DOMAIN q.joins}]

RECURSIVE Meant(_, _)
\* What the names of a tree refer to: the WITH clause covers the legs too.
Meant(q, ctes) ==
    LET scope == ctes \cup CteNames(q, Len(q.with))
        with == UNION {Meant(q.with[i].base, ctes \cup CteNames(q, i))
                       \cup (IF Present(q.with[i].unionAll)
                             THEN Meant(q.with[i].unionAll, ctes \cup CteNames(q, i)) ELSE {}) : i \in DOMAIN q.with}
    IN  with \cup (IF q.legs # <<>> THEN UNION {Meant(q.legs[i], scope) : i \in DOMAIN q.legs}
                   ELSE (IF Present(q.from.query) THEN Meant(q.from.query, scope) ELSE {Reference(q.from.name, scope)})
                        \cup {Reference(q.joins[i].name, scope) : i \in DOMAIN q.joins})

\* Trees that pass validation and that the renderer refuses.
Unmapped == {"none", "MATCH", "CONTAINS"}
RefusedItem(i) == i \in [kind : {"column"}, fn : {"x+1"}] \cup [kind : {"window"}, fn : {"LAG"}]
RefusedJoin(j) == j.name = "odd name" \/ j.type = "LEFT OUTER" \/ j.on # "columns" \/ j.op \in Unmapped
RefusedWhere(w) == (w.kind # "expression" /\ w.column = "x+1") \/ (w.kind = "compare" /\ w.op \in Unmapped)
RefusedHaving(h) == h.column = "odd name" \/ h.op \notin MappedOperators \cup {"none"}

RECURSIVE Unrendered(_)
Unrendered(q) ==
    IF q.legs # <<>> THEN \E i \in DOMAIN q.legs : Unrendered(q.legs[i])
    ELSE \/ IF Present(q.from.query) THEN ~q.from.alias \/ Unrendered(q.from.query) ELSE q.from.name = "odd name"
         \/ \E i \in DOMAIN q.joins : RefusedJoin(q.joins[i])
         \/ \E i \in DOMAIN q.select : RefusedItem(q.select[i])
         \/ \E i \in DOMAIN q.where : RefusedWhere(q.where[i])
         \/ \E i \in DOMAIN q.having : RefusedHaving(q.having[i])
         \/ \E i \in DOMAIN q.with : Unrendered(q.with[i].base)
         \/ \E i \in DOMAIN q.with : Present(q.with[i].unionAll) /\ Unrendered(q.with[i].unionAll)

\* An admitted tree is rendered, but for the listed forms, and its names mean
\* what they meant; a WITH clause beside a set operation is lost.
QueryRenders(q) ==
    ValidateAst(q) =>
        /\ ToSql(q, {}).ok <=> ~Unrendered(q)
        /\ ToSql(q, {}).ok /\ (q.legs = <<>> \/ q.with = <<>>) => ToSql(q, {}).refs = Meant(q, {})

----------------------------------------------------------------------------
(* Comparisons, over cells that may be NULL                                  *)

Null == 0
\* `value` is a set: of one element save for IN and NIN; {Null} is no value.
Comparison(op, value, cell) ==
    CASE op = "IS_NULL" -> cell = Null
      [] op = "IS_NOT_NULL" -> cell # Null
      [] op = "EQ" -> IF value = {Null} THEN cell = Null ELSE cell # Null /\ cell \in value
      [] op = "NE" -> IF value = {Null} THEN cell # Null ELSE cell # Null /\ cell \notin value
      [] op = "GT" -> cell # Null /\ Null \notin value /\ \A v \in value : cell > v
      [] op = "IN" -> cell # Null /\ cell \in value
      [] op = "NIN" -> value = {} \/ (cell # Null /\ Null \notin value /\ cell \notin value)

\* HAVING compares the aggregate behind an alias; a NULL value is then not
\* turned into IS NULL.
HavingRow(alias, op, value, cell) ==
    IF alias /\ op \in {"EQ", "NE"} THEN cell # Null /\ value # {Null} /\ (IF op = "EQ" THEN cell \in value ELSE cell \notin value)
    ELSE Comparison(op, value, cell)

\* A filter and its negation split the rows with a value, and the two forms of
\* one condition agree.
ComparisonsSplit(value, cell) ==
    /\ Cardinality(value) = 1 /\ (cell # Null \/ value = {Null}) =>
          (Comparison("EQ", value, cell) <=> ~Comparison("NE", value, cell))
    /\ cell # Null /\ Null \notin value => (Comparison("IN", value, cell) <=> ~Comparison("NIN", value, cell))
    /\ Comparison("EQ", {Null}, cell) <=> Comparison("IS_NULL", {}, cell)
    /\ \A op \in {"EQ", "NE", "IN", "NIN"} : value # {Null} =>
          (HavingRow(TRUE, op, value, cell) <=> HavingRow(FALSE, op, value, cell))

----------------------------------------------------------------------------
(* Saved analytics                                                           *)

Undefined == "undefined"

\* A value not given, or given as empty text, is the default.
ResolveValue(v, given) ==
    LET val == IF given \in {Undefined, ""} THEN v.default ELSE given
    IN  CASE val \in {Undefined, "null"} -> IF v.required THEN "missing" ELSE val
          [] v.type = "number" -> IF val \in {"1", "2"} THEN val ELSE "NaN"
          [] v.type = "boolean" -> IF val = "true" THEN "true" ELSE "false"
          [] OTHER -> val

\* Binding a leaf: a token that is the whole text takes the typed value, one
\* inside text its spelling, and a token of no variable stays.
BindAst(leaf, values) ==
    CASE leaf.token \notin DOMAIN values -> [kind |-> "text", value |-> "token"]
      [] leaf.whole -> [kind |-> "typed", value |-> values[leaf.token]]
      [] OTHER -> [kind |-> "text", value |-> values[leaf.token]]

\* Running: required values first, then the bound tree runs.
RunAnalytic(stored, variable, given, leaf) ==
    LET value == ResolveValue(variable, given)
    IN  CASE stored = "none" -> [status |-> 404]
          [] stored # "none" /\ value = "missing" -> [status |-> 400]
          [] stored = "SQL" /\ value # "missing" -> [status |-> 500]
          [] OTHER -> [status |-> 200, bound |-> BindAst(leaf, [n \in {variable.name} |-> value])]

\* A filter `x = {{v}}` on the bound tree: a value that is undefined compares
\* as NULL.
BoundFilter(bound, cell) ==
    Comparison("EQ", IF bound.kind = "typed" /\ bound.value \in {Undefined, "null"} THEN {Null}
                     ELSE IF bound.value = "1" THEN {1} ELSE IF bound.value = "2" THEN {2} ELSE {3}, cell)

\* Every token of a declared variable is replaced, a required one by a value,
\* and the filter keeps the rows of the value; a number that is none and an
\* optional value left out are the exceptions.
AnalyticBinds(stored, variable, given, leaf) ==
    LET run == RunAnalytic(stored, variable, given, leaf)
        wanted == IF given \in {Undefined, ""} THEN variable.default ELSE given
    IN  run.status = 200 =>
            /\ leaf.token = variable.name => run.bound.value # "token"
            /\ leaf.token # variable.name => run.bound = [kind |-> "text", value |-> "token"]
            /\ leaf.token = variable.name /\ variable.required => run.bound.value \notin {Undefined, "null", ""}
            /\ leaf.token = variable.name /\ wanted \in {"1", "2"} /\ variable.type # "boolean" =>
                  \A cell \in 0 .. 2 : BoundFilter(run.bound, cell) <=> cell = (IF wanted = "1" THEN 1 ELSE 2)
            /\ leaf.token = variable.name /\ leaf.whole /\ wanted = Undefined =>
                  \A cell \in 0 .. 2 : BoundFilter(run.bound, cell) <=> cell = Null
=============================================================================
