---------------------------- MODULE ManifestApply ----------------------------
(* Applying manifests: the plan is made from what is there, the hub's part    *)
(* and the catalog commit in one transaction, the remote part (collections of *)
(* a document source) follows, one by one, after the commit.                  *)
EXTENDS FiniteSets

CONSTANTS HubTables,     \* tables a manifest may declare in the hub
          Collections,   \* tables it may declare in a document source
          Namesakes,     \* collections whose name another table of the tenant bears
          Applies        \* applies that may overlap

VARIABLES tables,      \* tables of the hub
          catalog,     \* collections with a definition in catalog_tables
          protected,   \* resources whose access policies and grants are stored
          remote,      \* collections that exist
          filled,      \* collections that hold documents
          apply,       \* per apply: [pc, manifest, plan]
          excused,     \* ghost: collections whose creation failed, died or raced,
                       \* that existed before the fabric knew them, or whose
                       \* lookup found a table of the same name instead
          lost         \* ghost: collections dropped with their documents

vars == <<tables, catalog, protected, remote, filled, apply, excused, lost>>

NoApply == [pc |-> "idle"]
Resources == HubTables \cup Collections
Pending(a, c) == apply[a].pc = "dispatch" /\ c \in apply[a].plan
Others(a) == {b \in Applies \ {a} : apply[b] # NoApply}

Init == /\ tables = {} /\ catalog = {} /\ protected = {} /\ lost = {}
        /\ remote \in SUBSET Collections /\ filled = remote /\ excused = remote
        /\ apply = [a \in Applies |-> NoApply]

----------------------------------------------------------------------------
(* compare                                                                   *)

\* diffTable ignores what an earlier apply recorded.
MissingAlways(manifest, found) == ((manifest \cap HubTables) \ tables) \cup (manifest \cap Collections)

\* diffTable: hub tables are looked up in the database itself, collections in
\* the catalog: found are those whose row carries a definition.
Missing(manifest, found) == ((manifest \cap HubTables) \ tables) \cup ((manifest \cap Collections) \ found)

\* The catalog is asked for one row of the tenant with that name, of whatever
\* schema and source and in no order: a namesake's may be another table's, which
\* carries a definition when it was declared and none when it was crawled.
LookedUp(found) == found \ Namesakes = catalog \ Namesakes

\* detectRetiredResources: tables of the schema that the manifest leaves out.
Retired(manifest) == tables \ manifest

\* planPrepared; a retired table is a high risk, refused without force.
Plan(a, manifest, force, found) ==
    /\ apply[a] = NoApply /\ LookedUp(found)
    /\ Retired(manifest) = {} \/ force
    /\ apply' = [apply EXCEPT ![a] = [pc |-> "persist", manifest |-> manifest, plan |-> Missing(manifest, found)]]
    /\ excused' = excused \cup {c \in manifest \cap Collections : (c \in found) # (c \in catalog)}
    /\ UNCHANGED <<tables, catalog, protected, remote, filled, lost>>

----------------------------------------------------------------------------
(* apply                                                                     *)

\* persistMetadataState stores policies and grants over another connection:
\* they stay when the transaction rolls back.
PersistPolicies(a) ==
    /\ apply[a].pc = "persist"
    /\ protected' = protected \cup apply[a].manifest
    /\ apply' = [apply EXCEPT ![a].pc = "commit"]
    /\ UNCHANGED <<tables, catalog, remote, filled, excused, lost>>

\* COMMIT of the hub's DDL and the catalog rows of every declared resource.
Commit(a) ==
    /\ apply[a].pc = "commit"
    /\ tables' = tables \cup (apply[a].plan \cap HubTables)
    /\ catalog' = catalog \cup (apply[a].manifest \cap Collections)
    /\ apply' = [apply EXCEPT ![a].pc = "dispatch", ![a].plan = @ \cap Collections]
    /\ excused' = excused \cup {c \in apply[a].plan \cap Collections : \E b \in Others(a) : c \in apply[b].plan}
    /\ UNCHANGED <<protected, remote, filled, lost>>

\* createCollection drops the collection first, whatever it holds.
Dispatch(a, c) ==
    /\ Pending(a, c)
    /\ remote' = remote \cup {c} /\ filled' = filled \ {c}
    /\ lost' = lost \cup ({c} \cap filled)
    /\ apply' = [apply EXCEPT ![a].plan = @ \ {c}]
    /\ UNCHANGED <<tables, catalog, protected, excused>>

\* The dispatch fails, perhaps after the drop: the result says DEGRADED, and
\* nothing ever tries again.
Degraded(a, c) ==
    /\ Pending(a, c)
    /\ \/ UNCHANGED <<remote, filled, lost>>
       \/ remote' = remote \ {c} /\ filled' = filled \ {c} /\ lost' = lost \cup ({c} \cap filled)
    /\ excused' = excused \cup {c}
    /\ apply' = [apply EXCEPT ![a].plan = @ \ {c}]
    /\ UNCHANGED <<tables, catalog, protected>>

\* Downstream targets, first refreshes of views, the planner's cache.
Finish(a) ==
    /\ apply[a].pc = "dispatch" /\ apply[a].plan = {}
    /\ apply' = [apply EXCEPT ![a] = NoApply]
    /\ UNCHANGED <<tables, catalog, protected, remote, filled, excused, lost>>

\* A statement of the transaction fails, or the process dies at any point.
Fails(a) ==
    /\ apply[a] # NoApply
    /\ excused' = IF apply[a].pc = "dispatch" THEN excused \cup apply[a].plan ELSE excused
    /\ apply' = [apply EXCEPT ![a] = NoApply]
    /\ UNCHANGED <<tables, catalog, protected, remote, filled, lost>>

\* An insert into a collection creates it; one that comes before the pending
\* createCollection is dropped with it.
InsertDocument(c) ==
    /\ c \in catalog /\ filled' = filled \cup {c} /\ remote' = remote \cup {c}
    /\ excused' = excused \cup {d \in {c} : \E a \in Applies : Pending(a, d)}
    /\ UNCHANGED <<tables, catalog, protected, apply, lost>>

ApplyStep(a) ==
    \/ \E manifest \in SUBSET Resources, force \in BOOLEAN, found \in SUBSET Collections :
           Plan(a, manifest, force, found)
    \/ PersistPolicies(a) \/ Commit(a) \/ Finish(a) \/ Fails(a)
    \/ \E c \in Collections : Dispatch(a, c) \/ Degraded(a, c)

Next == (\E c \in Collections : InsertDocument(c)) \/ \E a \in Applies : ApplyStep(a)

Spec == Init /\ [][Next]_vars

----------------------------------------------------------------------------
(* Properties                                                                *)

\* Applying a manifest again never empties a collection, and every collection
\* the catalog defines exists or is about to, unless its creation failed, its
\* apply died, two applies planned it at once, it existed before, documents came
\* before it was created, or its lookup by name alone found another table, one
\* without a definition for a collection that is there or one with a definition
\* for a collection that is missing.
CollectionsIntact ==
    /\ lost \subseteq excused
    /\ \A c \in catalog \ (remote \cup excused) : \E a \in Applies : Pending(a, c)

\* A table that can be queried already has the policies and grants its
\* manifest declares: there is no moment at which it is open.
NewTablesAreProtected == tables \cup catalog \subseteq protected
=============================================================================
