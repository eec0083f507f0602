--------------------------- MODULE DocumentWrites ----------------------------
(* Writes to a document source (MongoDB, Elasticsearch), whose UNIQUE and     *)
(* FOREIGN KEY constraints the fabric emulates by looking before it writes.   *)
(* One unique column and one reference; 0 is null.  Writes are stamped with   *)
(* their place in the order in which the collection sees them.                *)
EXTENDS Integers, Sequences, FiniteSets

CONSTANTS Writers,     \* requests in flight
          Values,      \* non-null values of both columns
          MaxStamp,    \* bound on collection writes
          MaxBatch     \* rows per create request

VARIABLES docs,      \* [key, ref, at, seen, checked]: values, stamps of write and check
          parents,   \* referenced rows that exist
          gone,      \* per referenced row: stamp of its last deletion, 0 before
          stamp,
          writer     \* per request: [pc, route, rows, seen, next]

vars == <<docs, parents, gone, stamp, writer>>

Nullable == Values \cup {0}
\* The two constraints do not interact: a row has a value in one column.
Row == {r \in [key : Nullable, ref : Nullable] : (r.key = 0) # (r.ref = 0)}
Idle == [pc |-> "idle"]

\* The two roads to a document source: mutate checks everything, the hub's
\* INSERT checks no references, and its UPDATE no constraints at all.
Routes == {"mutate_create", "mutate_update", "hub_insert", "hub_update"}
Creates == {"mutate_create", "hub_insert"}

Init == /\ docs = {} /\ parents = Values /\ gone = [v \in Values |-> 0]
        /\ stamp = 0 /\ writer = [w \in Writers |-> Idle]

----------------------------------------------------------------------------
(* A request: look, row by row, then write                                   *)

\* The hub's UPDATE goes straight to the write.
Start(w, route, rows) ==
    /\ writer[w] = Idle
    /\ route \in Creates \/ Len(rows) = 1
    /\ writer' = [writer EXCEPT ![w] =
         [pc |-> IF route = "hub_update" THEN "write" ELSE "check",
          route |-> route, rows |-> rows, seen |-> stamp, next |-> 1]]
    /\ UNCHANGED <<docs, parents, gone, stamp>>

\* countWhere: is there a document with this value.
Found(key) == \E d \in docs : d.key = key

\* Uniqueness is looked up on the hub's INSERT road only.
ViolatesHubOnly(route, row) ==
    \/ route = "hub_insert" /\ row.key # 0 /\ Found(row.key)
    \/ route # "hub_insert" /\ row.ref # 0 /\ row.ref \notin parents

\* ConstraintService.validate: the lookups of non-null values.
Violates(route, row) ==
    \/ row.key # 0 /\ Found(row.key)
    \/ route # "hub_insert" /\ row.ref # 0 /\ row.ref \notin parents

CheckRow(w) ==
    LET p == writer[w] IN
    /\ p.pc = "check"
    /\ writer' = [writer EXCEPT ![w] =
         IF Violates(p.route, p.rows[p.next]) THEN Idle
         ELSE IF p.next < Len(p.rows) THEN [p EXCEPT !.next = p.next + 1]
         ELSE [p EXCEPT !.pc = "write"]]
    /\ UNCHANGED <<docs, parents, gone, stamp>>

\* A value check (NOT NULL, ENUM, CHECK, the column's type) refuses a row.
Refuse(w) == /\ writer[w].pc = "check" /\ writer' = [writer EXCEPT ![w] = Idle]
             /\ UNCHANGED <<docs, parents, gone, stamp>>

Written(p, row, at) ==
    [key |-> row.key, ref |-> row.ref, at |-> at, seen |-> p.seen,
     checked |-> CASE p.route = "hub_update" -> {}
                   [] p.route = "hub_insert" -> {"unique"}
                   [] OTHER -> {"unique", "ref"}]

\* insertDocs: the whole batch.
InsertDocs(w) ==
    LET p == writer[w] IN
    /\ p.pc = "write" /\ p.route \in Creates /\ stamp + Len(p.rows) <= MaxStamp
    /\ docs' = docs \cup {Written(p, p.rows[i], stamp + i) : i \in DOMAIN p.rows}
    /\ stamp' = stamp + Len(p.rows) /\ writer' = [writer EXCEPT ![w] = Idle]
    /\ UNCHANGED <<parents, gone>>

\* updateDocs of the documents its filter selects (here any one of them).
UpdateDocs(w) ==
    LET p == writer[w] IN
    /\ p.pc = "write" /\ p.route \notin Creates /\ stamp < MaxStamp
    /\ \E d \in docs : docs' = (docs \ {d}) \cup {Written(p, p.rows[1], stamp + 1)}
    /\ stamp' = stamp + 1 /\ writer' = [writer EXCEPT ![w] = Idle]
    /\ UNCHANGED <<parents, gone>>

\* deleteDocs checks nothing, and neither does a delete of a referenced row.
DeleteDocs ==
    /\ \E d \in docs : docs' = docs \ {d}
    /\ UNCHANGED <<parents, gone, stamp, writer>>

DeleteParent(v) ==
    /\ v \in parents /\ stamp < MaxStamp
    /\ parents' = parents \ {v} /\ gone' = [gone EXCEPT ![v] = stamp + 1]
    /\ stamp' = stamp + 1 /\ UNCHANGED <<docs, writer>>

Batches == UNION {[1 .. n -> Row] : n \in 1 .. MaxBatch}

Next ==
    \/ DeleteDocs \/ \E v \in Values : DeleteParent(v)
    \/ \E w \in Writers : \/ \E route \in Routes, rows \in Batches : Start(w, route, rows)
                          \/ CheckRow(w) \/ Refuse(w) \/ InsertDocs(w) \/ UpdateDocs(w)

Spec == Init /\ [][Next]_vars

----------------------------------------------------------------------------
(* Properties                                                                *)

\* A duplicate of a unique value, or a dangling reference, exists only where
\* the conflicting write came after the document's own check had begun (two
\* requests overlapped, or one batch repeated a value), where the referenced
\* row was deleted later, or where the road taken does not check at all.
ConflictsAreRaces ==
    \A d \in docs :
      /\ "unique" \in d.checked =>
           \A e \in docs : e.key = d.key /\ e.key # 0 /\ e.at < d.at => e.at > d.seen
      /\ "ref" \in d.checked =>
           (d.ref # 0 /\ d.ref \notin parents => gone[d.ref] > d.seen)
=============================================================================
