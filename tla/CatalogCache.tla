---------------------------- MODULE CatalogCache -----------------------------
(* Cached reads of a workspace's catalog: Redis is filled by whichever        *)
(* process missed, and emptied by the process that changed the catalog, if it *)
(* does so and if its own connection to Redis has not failed.  One key stands *)
(* for all keys of the workspace, a version for what the catalog holds.       *)
EXTENDS Integers

CONSTANTS Servers,      \* processes
          Lookups,      \* reads
          Changes,      \* changes
          MaxStock      \* bound: versions

VARIABLES stock,        \* the committed version
          fate,         \* how each version's change went on to clear the cache
          entry,        \* [v, late], v = 0 when absent
          connected,    \* per process: cacheEnabled()
          lookup,       \* per read: [pc, on, v]
          change        \* per change: [pc, on, v]

vars == <<stock, fate, entry, connected, lookup, change>>

Absent == [v |-> 0, late |-> FALSE]
Idle(p) == [pc |-> "idle", on |-> p, v |-> 0]

Init == /\ stock = 1 /\ fate = [v \in 1 .. MaxStock |-> "none"] /\ entry = Absent
        /\ connected = [p \in Servers |-> TRUE]
        /\ lookup \in [Lookups -> {Idle(p) : p \in Servers}] /\ change \in [Changes -> {Idle(p) : p \in Servers}]

----------------------------------------------------------------------------
(* cached(): look, compute, store                                            *)

CacheGet(l) == IF connected[lookup[l].on] THEN entry ELSE Absent

Hit(l) == lookup[l].pc = "idle" /\ CacheGet(l) # Absent /\ UNCHANGED vars

Miss(l) ==
    /\ lookup[l].pc = "idle" /\ CacheGet(l) = Absent
    /\ lookup' = [lookup EXCEPT ![l] = [pc |-> "computed", on |-> @.on, v |-> stock]]
    /\ UNCHANGED <<stock, fate, entry, connected, change>>

\* The versions whose change has already cleared the cache.
Cleared(from) == {v \in from + 1 .. stock : fate[v] = "cleared"}

CacheSet(l) ==
    /\ lookup[l].pc = "computed" /\ lookup' = [lookup EXCEPT ![l] = Idle(@.on)]
    /\ entry' = IF connected[lookup[l].on] THEN [v |-> lookup[l].v, late |-> Cleared(lookup[l].v) # {}] ELSE entry
    /\ UNCHANGED <<stock, fate, connected, change>>

----------------------------------------------------------------------------
(* Changes of the catalog                                                    *)

Commit(c, next, outcome) ==
    /\ change[c].pc = "idle" /\ stock < MaxStock /\ stock' = stock + 1
    /\ change' = [change EXCEPT ![c] = [pc |-> next, on |-> @.on, v |-> IF next = "idle" THEN 0 ELSE stock + 1]]
    /\ fate' = [fate EXCEPT ![stock + 1] = outcome]
    /\ UNCHANGED <<entry, connected, lookup>>

\* crawlTenant, applyMetadata, connections added, changed or removed, and the
\* end of a SYNC or CDC job clear the cache afterwards.
CrawlTenant(c) == Commit(c, "committed", "pending")
ApplyMetadata(c) == Commit(c, "committed", "pending")
ChangeConnection(c) == Commit(c, "committed", "pending")
RemoveConnection(c) == Commit(c, "committed", "pending")
FinishCopyJob(c) == Commit(c, "committed", "pending")

\* A rollback, a migrated plan and a toggled downstream do not.
RollbackMetadata(c) == Commit(c, "idle", "left")
MigrateMetadata(c) == Commit(c, "idle", "left")
ToggleDownstream(c) == Commit(c, "idle", "left")

\* invalidateTenant: KEYS, then one DEL of what it listed.  Nothing relates two
\* keys: each is listed or not, and deleted by that DEL or not, as the one here is.
Clear(c, value) ==
    /\ change' = [change EXCEPT ![c] = Idle(@.on)]
    /\ fate' = [fate EXCEPT ![change[c].v] = value]

ListKeys(c) ==
    /\ change[c].pc = "committed"
    /\ IF ~connected[change[c].on] THEN Clear(c, "unconnected")
       ELSE IF entry = Absent THEN Clear(c, "cleared")
       ELSE change' = [change EXCEPT ![c] = [@ EXCEPT !.pc = "listed"]] /\ UNCHANGED fate
    /\ UNCHANGED <<stock, entry, connected, lookup>>

\* DEL is never sent.
DeleteKeysNever(c) ==
    /\ change[c].pc = "listed"
    /\ Clear(c, "cleared")
    /\ UNCHANGED <<stock, entry, connected, lookup>>

DeleteKeys(c) ==
    /\ change[c].pc = "listed"
    /\ IF connected[change[c].on] THEN entry' = Absent /\ Clear(c, "cleared")
       ELSE UNCHANGED entry /\ Clear(c, "unconnected")
    /\ UNCHANGED <<stock, connected, lookup>>

Die(c) ==
    /\ change[c].pc \in {"committed", "listed"} /\ Clear(c, "died")
    /\ UNCHANGED <<stock, entry, connected, lookup>>

\* The client gives up on its first error (retryStrategy).
Disconnect(p) ==
    /\ connected[p] /\ connected' = [connected EXCEPT ![p] = FALSE]
    /\ UNCHANGED <<stock, fate, entry, lookup, change>>

Expire == /\ entry # Absent /\ entry' = Absent
          /\ UNCHANGED <<stock, fate, connected, lookup, change>>

Next == \/ Expire
        \/ \E p \in Servers : Disconnect(p)
        \/ \E l \in Lookups : Hit(l) \/ Miss(l) \/ CacheSet(l)
        \/ \E c \in Changes :
              \/ CrawlTenant(c) \/ ApplyMetadata(c) \/ ChangeConnection(c) \/ RemoveConnection(c) \/ FinishCopyJob(c)
              \/ RollbackMetadata(c) \/ MigrateMetadata(c) \/ ToggleDownstream(c)
              \/ ListKeys(c) \/ DeleteKeys(c) \/ Die(c)

----------------------------------------------------------------------------

\* A cached answer that the catalog has moved past was stored by a read that
\* overlapped the change, or some later change is not through with clearing
\* the cache, does not do so, or could not.
StaleIsExcused ==
    entry.v \in 1 .. stock - 1 =>
        entry.late \/ \E v \in entry.v + 1 .. stock : fate[v] # "cleared"
=============================================================================
