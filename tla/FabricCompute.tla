---------------------------- MODULE FabricCompute ----------------------------
(* What the fabric computes itself because a source cannot: window functions  *)
(* (compensate.ts), hierarchical queries (recursive.ts) and recursive CTEs    *)
(* (query-engine.service.ts).  A row of a window query has a partition p, an  *)
(* order key o and a value x; a row of a hierarchy has an id and a parent.    *)
EXTENDS Integers, Sequences, FiniteSets, SequencesExt, FiniteSetsExt

Missing == -1

----------------------------------------------------------------------------
(* applyWindows                                                              *)

WindowFunctions == {"ROW_NUMBER", "RANK", "DENSE_RANK", "CUME_DIST", "LAG", "LEAD", "SUM", "COUNT"}

\* The rows of a partition after its stable sort by the order key.
Partition(rows, p) == SortSeq(SelectSeq(rows, LAMBDA r : r.p = p), LAMBDA a, b : a.o < b.o)

\* The running pass of the ranking functions: rank, dense rank and previous key.
RankStep(acc, r) ==
    LET i == Len(acc.ranks)
        fresh == acc.prev # r.o
        rank == IF fresh THEN i + 1 ELSE acc.rank
        dense == IF fresh THEN acc.dense + 1 ELSE acc.dense
    IN  [ranks |-> Append(acc.ranks, rank), denses |-> Append(acc.denses, dense),
         rank |-> rank, dense |-> dense, prev |-> r.o]
Ranking(part) ==
    FoldLeft(RankStep, [ranks |-> << >>, denses |-> << >>, rank |-> 0, dense |-> 0, prev |-> Missing], part)

RunningTotal(part, i) == FoldLeft(LAMBDA acc, r : IF r.x = Missing THEN acc ELSE acc + r.x, 0, SubSeq(part, 1, i))
RunningCount(part, i) == Len(SelectSeq(SubSeq(part, 1, i), LAMBDA r : r.x # Missing))

\* The value of a function at every row of a sorted partition; CUME_DIST as the
\* number of rows up to the last peer.
WindowValues(fn, part) ==
    LET ranking == Ranking(part)
        at(j) == IF j \in DOMAIN part THEN part[j].x ELSE Missing
    IN  [i \in DOMAIN part |->
            CASE fn = "ROW_NUMBER" -> i
              [] fn = "RANK" -> ranking.ranks[i]
              [] fn = "DENSE_RANK" -> ranking.denses[i]
              [] fn = "CUME_DIST" -> Max({j \in i .. Len(part) :
                                            \A m \in i .. j : ranking.ranks[m] = ranking.ranks[i]})
              [] fn = "LAG" -> at(i - 1)
              [] fn = "LEAD" -> at(i + 1)
              [] fn = "COUNT" -> RunningCount(part, i)
              [] OTHER -> RunningTotal(part, i)]

\* The reference, by counting rows before and among the peers of row i; the
\* frame of SUM and COUNT is SQL's default, which ends with the last peer.
SqlWindow(fn, part, i) ==
    LET before == {j \in DOMAIN part : part[j].o < part[i].o}
        upTo == {j \in DOMAIN part : part[j].o <= part[i].o}
        present == {j \in upTo : part[j].x # Missing}
    IN  CASE fn = "RANK" -> Cardinality(before) + 1
          [] fn = "DENSE_RANK" -> Cardinality({part[j].o : j \in before}) + 1
          [] fn = "CUME_DIST" -> Cardinality(upTo)
          [] fn = "COUNT" -> Cardinality(present)
          [] OTHER -> MapThenSumSet(LAMBDA j : part[j].x, present)

DistinctOrder(part) == \A i, j \in DOMAIN part : i # j => part[i].o # part[j].o

\* A select list of a query with windows: "name" a bare column, "column" one that
\* may have an alias, "expression" (simple: column, operator, number) and "window".
NoName == "none"

\* windowBaseColumns: what is fetched; the words of an expression are columns.
WindowBaseColumns(select, all) ==
    IF \E i \in DOMAIN select : select[i].kind = "star" THEN all
    ELSE UNION {IF select[i].kind = "window" THEN {select[i].column, select[i].by} \ {NoName} ELSE {select[i].column} :
                  i \in DOMAIN select}

\* extractWindows: the name under which applyWindows adds a value to the rows.
WindowAlias(item) == IF item.alias # NoName THEN item.alias ELSE item.fn
ExtractWindows(select) == {select[i] : i \in {j \in DOMAIN select : select[j].kind = "window"}}
WithWindows(select, all) ==
    LET added == {WindowAlias(w) : w \in ExtractWindows(select)}
        fetched == WindowBaseColumns(select, all)
    IN  [name \in fetched \cup added |-> IF name \in added THEN "window" ELSE name]

\* projectWithWindows: the value under each name of the answer.
ReadCol(row, name) == IF name \in DOMAIN row THEN row[name] ELSE "missing"
ProjectedName(item) ==
    CASE item.kind = "name" -> item.column [] item.kind \in {"window", "expression"} -> item.alias
      [] OTHER -> IF item.alias # NoName THEN item.alias ELSE item.column
ProjectedValue(row, item) ==
    IF item.kind = "expression" THEN (IF item.simple THEN "computed" ELSE "missing") ELSE ReadCol(row, ProjectedName(item))
ProjectWithWindows(select, all) ==
    LET row == WithWindows(select, all) IN
    IF \E i \in DOMAIN select : select[i].kind = "star" THEN row
    ELSE [name \in {ProjectedName(select[i]) : i \in DOMAIN select} \ {NoName} |->
             ProjectedValue(row, select[CHOOSE i \in DOMAIN select :
                 ProjectedName(select[i]) = name /\ \A j \in DOMAIN select : ProjectedName(select[j]) = name => j <= i])]

\* What a window needs is fetched, and each item of the list is in the answer
\* with its value, except a window or an expression without alias (left out), a
\* column under an alias (its value is lost) and an expression that is not
\* simple; two items of one name are one.
SelectKept(select, all) ==
    LET answer == ProjectWithWindows(select, all)
        item(i) == select[i]
        alone(i) == \A j \in DOMAIN select : i # j => ProjectedName(item(j)) # ProjectedName(item(i))
                                                    /\ (item(j).kind = "window" => WindowAlias(item(j)) # ProjectedName(item(i)))
        kept(i) == ProjectedName(item(i)) \in DOMAIN answer /\ answer[ProjectedName(item(i))] # "missing"
        expected(i) == CASE item(i).kind = "window" -> "window" [] item(i).kind = "expression" -> "computed" [] OTHER -> item(i).column
    IN  /\ \A w \in ExtractWindows(select) : {w.column, w.by} \ {NoName} \subseteq WindowBaseColumns(select, all)
        /\ (\A i \in DOMAIN select : item(i).kind # "star") =>
             \A i \in DOMAIN select :
                \/ ProjectedName(item(i)) = NoName \/ ~alone(i)
                \/ item(i).kind = "column" /\ item(i).alias # NoName
                \/ item(i).kind = "expression" /\ ~item(i).simple
                \/ kept(i) /\ answer[ProjectedName(item(i))] = expected(i)

----------------------------------------------------------------------------
(* RecursiveExecutor.run over one table whose every level is one query       *)

\* The column the next level is filtered by, and the one the keys come from.
FilterColumn(direction) == IF direction = "up" THEN "id" ELSE "parent"
KeyColumn(direction) == IF direction = "up" THEN "parent" ELSE "id"

\* One level: rows whose node was not seen before, each node once, cut off at
\* maxRows.  The rows come back in some order: `fetched` is a sequence.
LevelRows(fetched, seen, count, maxRows) ==
    LET step(acc, r) ==
            IF acc.cut \/ r.id \in acc.seen THEN acc
            ELSE [seen |-> acc.seen \cup {r.id}, rows |-> Append(acc.rows, r),
                  cut |-> count + Len(acc.rows) + 1 >= maxRows]
    IN  FoldLeft(step, [seen |-> seen, rows |-> << >>, cut |-> FALSE], fetched)

\* A traversal in progress: what was returned (with depths), the frontier, and
\* the two reasons to stop early.
SeedTraversal(table, seeds) ==
    LET fetched == SetToSeq({r \in table : r.id \in seeds})
        first == LevelRows(fetched, {}, 0, Len(fetched) + 1)
    IN  [out |-> [i \in DOMAIN first.rows |-> [id |-> first.rows[i].id, depth |-> 0]],
         frontier |-> fetched, seen |-> first.seen, depth |-> 0,
         byDepth |-> FALSE, byRows |-> FALSE, done |-> FALSE]

RecursiveLevel(t, table, direction, maxDepth, maxRows) ==
    LET keys == {t.frontier[i][KeyColumn(direction)] : i \in DOMAIN t.frontier} \ {Missing}
        fetched == SetToSeq({r \in table : r[FilterColumn(direction)] \in keys})
        level == LevelRows(fetched, t.seen, Len(t.out), maxRows)
        depth == t.depth + 1
    IN  IF t.done \/ depth > maxDepth \/ keys = {} THEN [t EXCEPT !.done = TRUE]
        ELSE [out |-> t.out \o [i \in DOMAIN level.rows |-> [id |-> level.rows[i].id, depth |-> depth]],
              frontier |-> level.rows, seen |-> level.seen, depth |-> depth,
              byDepth |-> ~level.cut /\ depth = maxDepth /\ level.rows # << >>,
              byRows |-> level.cut, done |-> level.cut]

\* The loop: MaxLevels bounds the number of iterations for the fold.
MaxLevels == 5
RecursiveRun(table, seeds, direction, maxDepth, maxRows) ==
    FoldLeft(LAMBDA t, n : RecursiveLevel(t, table, direction, maxDepth, maxRows),
             SeedTraversal(table, seeds), [n \in 1 .. MaxLevels |-> n])

\* The reference: the nodes within n steps of the seeds.
Neighbours(table, direction, s) ==
    {r.id : r \in {q \in table : \E f \in table : f.id \in s /\ f[KeyColumn(direction)] # Missing
                                    /\ q[FilterColumn(direction)] = f[KeyColumn(direction)]}}
Within(table, seeds, direction, n) ==
    FoldLeft(LAMBDA s, m : s \cup Neighbours(table, direction, s),
             {r.id : r \in {q \in table : q.id \in seeds}}, [m \in 1 .. n |-> m])

----------------------------------------------------------------------------
(* The loop over a recursive CTE: no guard against cycles, at most MaxLevels  *)
(* levels (20 in the code), every path to a node gives a row.                 *)
CteLevel(acc, table) ==
    LET ids == {r.id : r \in acc.frontier}
        next == {r \in table : r.parent \in ids}
    IN  IF acc.frontier = {} THEN acc
        ELSE [levels |-> Append(acc.levels, next), frontier |-> next]
CteRun(table, seeds) ==
    LET base == {r \in table : r.id \in seeds}
    IN  FoldLeft(LAMBDA acc, n : CteLevel(acc, table), [levels |-> <<base>>, frontier |-> base],
                 [n \in 1 .. MaxLevels |-> n]).levels

\* No node is its own ancestor.
Acyclic(table) == \A r \in table :
    r.id \notin Within(table, Neighbours(table, "down", {r.id}), "down", MaxLevels)
=============================================================================
