---------------------------- MODULE WorkerNodes ------------------------------
(* Citus worker nodes: every operation changes the Citus metadata and the     *)
(* fabric's registry in separate statements.  Citus itself is external: it    *)
(* refuses to remove a node that holds shards and its rebalancer moves shards *)
(* off the nodes that should have none.  liveNodes and citusInfo swallow the  *)
(* error of reading it, which then looks like a cluster without nodes.        *)
EXTENDS FiniteSets

CONSTANTS Hosts,    \* host:port of possible workers
          Admins    \* operations that may be in flight at once

VARIABLES node,         \* pg_dist_node: [member, should, shards] per host
          row,          \* fabric_worker_nodes: status per host, "none" without a row;
                        \* "LIVE" is ACTIVE, INACTIVE or DRAINING, which node tells apart
          distributed,  \* are there distributed tables
          op,           \* per admin: the operation in flight
          torn          \* ghost: an operation died halfway, two overlapped, or a node
                        \* was removed from the registry alone, Citus not being read

vars == <<node, row, distributed, op, torn>>

NoNode == [member |-> FALSE, should |-> FALSE, shards |-> FALSE]
NoOp == [kind |-> "none"]
Live == {h \in Hosts : node[h].member}
Registered == {h \in Hosts : row[h] # "none"}

Init == /\ node = [h \in Hosts |-> NoNode] /\ row = [h \in Hosts |-> "none"]
        /\ distributed = FALSE /\ op = [a \in Admins |-> NoOp] /\ torn = FALSE

\* Operations conflict when they touch the same host; sync touches them all.
Conflicts(a, hosts) ==
    \E b \in Admins \ {a} : op[b] # NoOp /\ (op[b].kind = "sync" \/ op[b].host \in hosts)

\* A misread node, one that is there and was not seen, leaves a gap as well.
Begin(a, o, hosts, misread) ==
    /\ op[a] = NoOp
    /\ op' = [b \in Admins |-> IF b = a THEN o
                                ELSE IF op[b].kind = "sync" THEN [op[b] EXCEPT !.alone = FALSE] ELSE op[b]]
    /\ torn' = (torn \/ Conflicts(a, hosts) \/ misread)

End(a) == op' = [op EXCEPT ![a] = NoOp]

----------------------------------------------------------------------------
(* add                                                                       *)

\* A duplicate host is refused by the unique constraint.
AddRow(a, h, should) ==
    /\ row[h] = "none" /\ row' = [row EXCEPT ![h] = "PENDING"]
    /\ Begin(a, [kind |-> "add", pc |-> "citus", host |-> h, should |-> should], {h}, FALSE)
    /\ UNCHANGED <<node, distributed>>

\* citus_add_node and, for a node without shards, citus_set_node_property; a
\* node that is there already stays as it is.
AddNode(a) ==
    /\ op[a].kind = "add" /\ op[a].pc = "citus"
    /\ node' = [node EXCEPT ![op[a].host] =
                    [@ EXCEPT !.member = TRUE, !.should = op[a].should]]
    /\ op' = [op EXCEPT ![a].pc = "row"] /\ UNCHANGED <<row, distributed, torn>>

AddActivates(a) ==
    /\ op[a].kind = "add" /\ op[a].pc = "row"
    /\ row' = [row EXCEPT ![op[a].host] = IF @ = "none" THEN @ ELSE "LIVE"]
    /\ End(a) /\ UNCHANGED <<node, distributed, torn>>

\* The failed registration is left in place.
AddFailsKeepingRow(a) ==
    /\ op[a].kind = "add" /\ torn' = (torn \/ op[a].pc = "row") /\ row' = row
    /\ End(a) /\ UNCHANGED <<node, distributed>>

\* Whatever failed, the row is deleted again; a node that Citus has already
\* added stays.
AddFails(a) ==
    /\ op[a].kind = "add" /\ torn' = (torn \/ op[a].pc = "row")
    /\ row' = [row EXCEPT ![op[a].host] = "none"]
    /\ End(a) /\ UNCHANGED <<node, distributed>>

----------------------------------------------------------------------------
(* activate, drain and update: setShards                                     *)

StartSetShards(a, h, should) ==
    /\ row[h] # "none" /\ node[h].member
    /\ Begin(a, [kind |-> "shards", pc |-> "citus", host |-> h, should |-> should], {h}, FALSE)
    /\ UNCHANGED <<node, row, distributed>>

SetNodeProperty(a) ==
    /\ op[a].kind = "shards" /\ op[a].pc = "citus" /\ node[op[a].host].member
    /\ node' = [node EXCEPT ![op[a].host].should = op[a].should]
    /\ op' = [op EXCEPT ![a].pc = "row"] /\ UNCHANGED <<row, distributed, torn>>

SetRowStatus(a) ==
    /\ op[a].kind = "shards" /\ op[a].pc = "row"
    /\ row' = [row EXCEPT ![op[a].host] = 
                    IF @ = "none" THEN @ ELSE "LIVE"]
    /\ End(a) /\ UNCHANGED <<node, distributed, torn>>

----------------------------------------------------------------------------
(* remove                                                                    *)

\* Refused for a node with shards.  A node that could not be read counts as one
\* Citus does not know: nothing is refused and citus_remove_node is skipped.  The
\* refusal of the last node under distributed tables is no guard here: when
\* they cannot be counted there are none.
StartRemove(a, h, read) ==
    LET seen == read /\ node[h].member IN
    /\ row[h] # "none" /\ ~(seen /\ node[h].shards)
    /\ Begin(a, [kind |-> "remove", pc |-> IF seen THEN "citus" ELSE "row", host |-> h], {h},
             node[h].member /\ ~seen)
    /\ UNCHANGED <<node, row, distributed>>

RemoveNode(a) ==
    /\ op[a].kind = "remove" /\ op[a].pc = "citus" /\ ~node[op[a].host].shards
    /\ node' = [node EXCEPT ![op[a].host] = NoNode]
    /\ op' = [op EXCEPT ![a].pc = "row"] /\ UNCHANGED <<row, distributed, torn>>

RemoveRow(a) ==
    /\ op[a].kind = "remove" /\ op[a].pc = "row"
    /\ row' = [row EXCEPT ![op[a].host] = "none"]
    /\ End(a) /\ UNCHANGED <<node, distributed, torn>>

----------------------------------------------------------------------------
(* sync: the live nodes, then the rows, then the repairs                     *)

\* An error of listing the nodes is an empty list.
StartSync(a, read) ==
    /\ Begin(a, [kind |-> "sync", pc |-> "rows", live |-> IF read THEN Live ELSE {}, rows |-> {},
                 read |-> read, alone |-> ~Conflicts(a, Hosts)], Hosts, FALSE)
    /\ UNCHANGED <<node, row, distributed>>

SyncReadsRows(a) ==
    /\ op[a].kind = "sync" /\ op[a].pc = "rows"
    /\ op' = [op EXCEPT ![a].pc = "repair", ![a].rows = Registered]
    /\ UNCHANGED <<node, row, distributed, torn>>

\* Unknown nodes are imported under a name made of their number, and skipped
\* when that name is taken; rows without a node are marked; PENDING rows are
\* left alone.
SyncRepairs(a, skipped) ==
    /\ op[a].kind = "sync" /\ op[a].pc = "repair" /\ skipped \subseteq op[a].live \ op[a].rows
    /\ row' = [h \in Hosts |->
                CASE h \in (op[a].live \ op[a].rows) \ skipped /\ row[h] = "none" -> "LIVE"
                  [] h \in op[a].rows \ op[a].live /\ row[h] \notin {"none", "PENDING"} -> "DRIFT"
                  [] OTHER -> row[h]]
    /\ torn' = (torn /\ (~op[a].alone \/ ~op[a].read \/ skipped # {} \/ \E h \in Hosts : row[h] = "PENDING"))
    /\ End(a) /\ UNCHANGED <<node, distributed>>

----------------------------------------------------------------------------
(* distribute, the rebalancer, and failures                                  *)

\* create_distributed_table places shards on the nodes that should have some.
Distribute ==
    /\ \E h \in Live : node[h].should
    /\ distributed' = TRUE
    /\ node' = [h \in Hosts |-> IF node[h].should THEN [node[h] EXCEPT !.shards = TRUE] ELSE node[h]]
    /\ UNCHANGED <<row, op, torn>>

\* citus_rebalance_start: shards leave the nodes that should have none, when
\* another can take them, and reach the new ones.
Rebalance ==
    /\ distributed /\ \E h \in Live : node[h].should
    /\ node' = [h \in Hosts |-> IF node[h].member THEN [node[h] EXCEPT !.shards = node[h].should] ELSE node[h]]
    /\ UNCHANGED <<row, distributed, op, torn>>

\* The process dies, or a statement of an operation other than add fails.
OpDies(a) ==
    /\ op[a] # NoOp /\ End(a) /\ torn' = TRUE
    /\ UNCHANGED <<node, row, distributed>>

OpStep(a) ==
    \/ \E h \in Hosts, s \in BOOLEAN : AddRow(a, h, s) \/ StartSetShards(a, h, s)
    \/ \E h \in Hosts, read \in BOOLEAN : StartRemove(a, h, read)
    \/ AddNode(a) \/ AddActivates(a) \/ AddFails(a) \/ SetNodeProperty(a) \/ SetRowStatus(a)
    \/ RemoveNode(a) \/ RemoveRow(a) \/ SyncReadsRows(a) \/ OpDies(a)
    \/ \E read \in BOOLEAN : StartSync(a, read)
    \/ \E skipped \in SUBSET Hosts : SyncRepairs(a, skipped)

Next == Distribute \/ Rebalance \/ \E a \in Admins : OpStep(a)

Spec == Init /\ [][Next]_vars

----------------------------------------------------------------------------
(* Properties                                                                *)

\* With nothing in flight, the registry and Citus name the same workers and a
\* row without a node says so; only an operation that died halfway, two that
\* overlapped on one host, or a removal that could not read the nodes leave
\* them apart, and the next undisturbed sync that read the nodes, and found
\* the names of its imports free, puts that right.
RegistryAgrees ==
    torn \/ (\E a \in Admins : op[a] # NoOp)
    \/ \A h \in Hosts : IF node[h].member THEN row[h] \notin {"none", "PENDING"}
                        ELSE row[h] \in {"none", "DRIFT"}
=============================================================================
