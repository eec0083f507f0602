-------------------------- MODULE TenantNamespaces ---------------------------
(* Tenants own the schemas whose name is their id, or starts with their id    *)
(* and an underscore.  An id is the sequence of its parts between             *)
(* underscores, so tenant a and tenant a_b would share tenant_a_b_x.          *)
EXTENDS Sequences, SequencesExt

CONSTANTS TenantIds,     \* possible ids, sequences of name parts
          Logical,       \* possible logical schema names, sequences of parts
          Transactions   \* requests in flight

VARIABLES tenants,    \* public.tenants
          schemas,    \* physical schemas: [name, owner, orphan]
          tx,         \* per request: the transaction in flight
          lock        \* the holder of the advisory lock, or NoHolder

vars == <<tenants, schemas, tx, lock>>

NoTx == [op |-> "none"]
NoHolder == "nobody"

Init == tenants = {} /\ schemas = {} /\ tx = [r \in Transactions |-> NoTx] /\ lock = NoHolder

\* physicalSchemaName
PhysicalName(id, logical) == id \o logical

\* belongsToTenant
Belongs(name, id) == IsPrefix(id, name)

\* findTenantIdOverlap: one id extends the other.
Overlaps(id) == \E t \in tenants : t # id /\ (IsPrefix(t, id) \/ IsPrefix(id, t))

\* CREATE SCHEMA IF NOT EXISTS; the tenant may be gone by now.
Provide(name, id) ==
    schemas' = IF \E s \in schemas : s.name = name THEN schemas
               ELSE schemas \cup {[name |-> name, owner |-> id, orphan |-> id \notin tenants']}

----------------------------------------------------------------------------
(* createTenant                                                              *)

\* The lock is not taken.
TakeLockNever(r) == UNCHANGED lock

\* pg_advisory_xact_lock, held until the transaction ends.
TakeLock(r) == lock = NoHolder /\ lock' = r

Release(r) == lock' = IF lock = r THEN NoHolder ELSE lock

CheckOverlap(r, id) ==
    /\ tx[r] = NoTx /\ TakeLock(r) /\ ~Overlaps(id)
    /\ tx' = [tx EXCEPT ![r] = [op |-> "create", id |-> id]]
    /\ UNCHANGED <<tenants, schemas>>

\* The row, its namespace and COMMIT; a second row of the same id fails.
CommitTenant(r) ==
    /\ tx[r].op = "create" /\ tx[r].id \notin tenants
    /\ tenants' = tenants \cup {tx[r].id}
    /\ Provide(tx[r].id, tx[r].id)
    /\ tx' = [tx EXCEPT ![r] = NoTx] /\ Release(r)

Rollback(r) ==
    /\ tx[r] # NoTx /\ tx' = [tx EXCEPT ![r] = NoTx] /\ Release(r)
    /\ UNCHANGED <<tenants, schemas>>

----------------------------------------------------------------------------
(* Schemas of a tenant, and deleteTenant                                     *)

StartSchema(r, id, l) ==
    /\ tx[r] = NoTx /\ id \in tenants
    /\ tx' = [tx EXCEPT ![r] = [op |-> "schema", id |-> id, name |-> PhysicalName(id, l)]]
    /\ UNCHANGED <<tenants, schemas, lock>>

CreateSchema(r) ==
    /\ tx[r].op = "schema" /\ UNCHANGED <<tenants, lock>>
    /\ Provide(tx[r].name, tx[r].id) /\ tx' = [tx EXCEPT ![r] = NoTx]

\* The schemas are listed, then dropped with the row in one transaction.
ListSchemas(r, id) ==
    /\ tx[r] = NoTx /\ id \in tenants
    /\ tx' = [tx EXCEPT ![r] = [op |-> "delete", id |-> id,
                                drop |-> {s.name : s \in {x \in schemas : Belongs(x.name, id)}}]]
    /\ UNCHANGED <<tenants, schemas, lock>>

CommitDelete(r) ==
    /\ tx[r].op = "delete"
    /\ tenants' = tenants \ {tx[r].id}
    /\ schemas' = {[s EXCEPT !.orphan = @ \/ s.owner = tx[r].id] :
                     s \in {x \in schemas : x.name \notin tx[r].drop}}
    /\ tx' = [tx EXCEPT ![r] = NoTx] /\ UNCHANGED lock

----------------------------------------------------------------------------
(* The scheduled purge of a workspace, a statement at a time                 *)

\* cleanupUserData and purgeTenant: a workspace that is deleted from here on is purged
\* all the same.  One backend, which purges one workspace after the other.
ListPurge(r, id) ==
    /\ tx[r] = NoTx /\ id \in tenants
    /\ \A q \in Transactions : tx[q].op # "purge"
    /\ tx' = [tx EXCEPT ![r] = [op |-> "purge", id |-> id,
                                drop |-> {s.name : s \in {x \in schemas : Belongs(x.name, id)}}]]
    /\ UNCHANGED <<tenants, schemas, lock>>

\* A step may fail, the others still run; the tenant's own schema is made again.
PurgeSchemas(r, kept, recreated) ==
    LET left == {s \in schemas : s.name \notin tx[r].drop \ kept}
        own == [name |-> tx[r].id, owner |-> tx[r].id, orphan |-> tx[r].id \notin tenants]
    IN  /\ tx[r].op = "purge"
        /\ schemas' = IF recreated /\ (\A s \in left : s.name # tx[r].id) THEN left \cup {own} ELSE left
        /\ tx' = [tx EXCEPT ![r] = NoTx]
        /\ UNCHANGED <<tenants, lock>>

Next == \E r \in Transactions :
    \/ \E id \in TenantIds : CheckOverlap(r, id) \/ ListSchemas(r, id) \/ ListPurge(r, id)
    \/ \E id \in TenantIds, l \in Logical : StartSchema(r, id, l)
    \/ CommitTenant(r) \/ Rollback(r) \/ CreateSchema(r) \/ CommitDelete(r)
    \/ \E kept \in {{}} \cup {{s.name} : s \in schemas}, recreated \in BOOLEAN : PurgeSchemas(r, kept, recreated)

Spec == Init /\ [][Next]_vars

----------------------------------------------------------------------------
(* Properties                                                                *)

\* Whatever is created and deleted concurrently, a schema name belongs to the
\* tenant it was made for and to no other, so deleting one tenant cannot drop
\* another's data.  (Except an orphan, a schema that a deletion did not see:
\* it stays behind and may fall to a later tenant.)
NamespacesDisjoint ==
    \A t \in tenants, s \in schemas : Belongs(s.name, t) => s.owner = t \/ s.orphan
=============================================================================
