--------------------------- MODULE ExternalSystems ---------------------------
(* What a workspace is connected to: one remote source by name, registered and *)
(* removed (integration.service.ts), its downstream target, provisioned by     *)
(* applies and toggled (downstream_service.ts), and its notification channels  *)
(* of one type (adminController.ts).                                           *)
EXTENDS Integers, FiniteSets

CONSTANTS Clients, Channels, MaxConnects

VARIABLES
    source,     \* the row of data_sources, or NoSource
    server,     \* the registration whose foreign server exists in the hub, 0 for none
    landed,     \* how many times the source's rows are in the landing table of SyncService
    ownTable,   \* the hub schema holds a table of the tenant's own, named like a remote one
    connects, client,
    mixed,      \* why source and server may disagree: another engine or strategy, or an overlap
    defaults,   \* the channels that are marked as the default of their type
    existing,   \* the channels that exist
    upserted,   \* upserts of a default overlapped
    registry,   \* the status of the downstream target
    wanted,     \* what the latest applied manifest says of it: "none", "on", "off"
    clashed     \* toggles overlapped or a re-apply failed

vars == <<source, server, landed, ownTable, connects, client, mixed, defaults, existing, upserted, registry, wanted, clashed>>
sourceVars == <<source, server, landed, ownTable, connects, mixed>>
channelVars == <<defaults, existing, upserted>>
downstreamVars == <<registry, wanted, clashed>>

Engines == {"postgres", "mongodb"}
\* "DUMMY" is VIRTUAL with the host `dummy`, of which only the row is made.
SyncTypes == {"VIRTUAL", "DUMMY", "SYNC"}
Virtual(sync) == sync \in {"VIRTUAL", "DUMMY"}
NoSource == [id |-> 0, type |-> "none", sync |-> "none", by |-> 0]
Idle == [pc |-> "idle"]

Init ==
    /\ source = NoSource /\ server = 0 /\ landed = 0 /\ ownTable = TRUE /\ connects = 0
    /\ mixed = FALSE
    /\ client = [c \in Clients |-> Idle]
    /\ defaults = {} /\ existing = {} /\ upserted = FALSE
    /\ registry = "none" /\ wanted = "none" /\ clashed = FALSE

Goto(c, pc) == client' = [client EXCEPT ![c].pc = pc]
Done(c) == client' = [client EXCEPT ![c] = Idle]
Busy(pcs) == {c \in Clients : client[c].pc \in pcs}
OnSource == {"tested", "found", "stored", "crawl", "removing"}

----------------------------------------------------------------------------
(* Registering and removing a source                                         *)

\* registerRemoteSource: nothing is stored of a source that cannot be reached or
\* is not allowed (see AccessRules); a dummy host is not tried.
TestConnection(c, engine, sync) ==
    /\ client[c] = Idle
    /\ connects < MaxConnects
    /\ connects' = connects + 1
    /\ client' = [client EXCEPT ![c] = [pc |-> "tested", engine |-> engine, sync |-> sync, by |-> connects + 1]]
    /\ mixed' = (mixed \/ Busy(OnSource) # {})
    /\ UNCHANGED <<source, server, landed, ownTable, channelVars, downstreamVars>>

FindSource(c) ==
    /\ client[c].pc = "tested"
    /\ client' = [client EXCEPT ![c] = [pc |-> "found", engine |-> client[c].engine, sync |-> client[c].sync,
                                         by |-> client[c].by, id |-> source.id]]
    /\ UNCHANGED <<sourceVars, channelVars, downstreamVars>>

\* A defect: the strategy of a known source is only in its config.
UpdatedKeepsSync(row, c) == IF row.id = client[c].id THEN [row EXCEPT !.by = client[c].by] ELSE row

\* The row of a known source gets a new config and strategy, and keeps its engine.
Updated(row, c) ==
    IF row.id = client[c].id THEN [id |-> row.id, type |-> row.type, sync |-> client[c].sync, by |-> client[c].by] ELSE row

\* A source comes back as another engine, or leaves its foreign server behind, with
\* the host `dummy` as well.
Switches(c) == source.type # client[c].engine \/ (source.sync = "VIRTUAL" /\ client[c].sync # "VIRTUAL")

\* The row is updated, or inserted: the name is unique in a workspace.
StoreSource(c) ==
    LET new == client[c].id = 0
        row == [id |-> client[c].by, type |-> client[c].engine, sync |-> client[c].sync, by |-> client[c].by]
    IN  /\ client[c].pc = "found"
        /\ source' = IF ~ new THEN Updated(source, c) ELSE IF source = NoSource THEN row ELSE source
        /\ IF new /\ source # NoSource THEN Done(c) ELSE Goto(c, "stored")
        /\ mixed' = (mixed \/ (~ new /\ Switches(c)))
        /\ UNCHANGED <<server, landed, ownTable, connects, channelVars, downstreamVars>>

\* A VIRTUAL Postgres source gets a foreign server in place of the one it had, but
\* not for the host `dummy`; the request succeeds all the same.
RegisterServer(c) ==
    /\ client[c].pc = "stored" /\ Virtual(client[c].sync)
    /\ server' = IF client[c].engine = "postgres" /\ client[c].sync = "VIRTUAL" THEN client[c].by ELSE server
    /\ Goto(c, "crawl")
    /\ UNCHANGED <<source, landed, ownTable, connects, mixed, channelVars, downstreamVars>>

\* SyncService copies the rows into a landing table without a key, so that every
\* registration adds them once more.
InitializeSync(c) ==
    /\ client[c].pc = "stored" /\ client[c].sync = "SYNC"
    /\ landed' = landed + 1
    /\ Goto(c, "crawl")
    /\ UNCHANGED <<source, server, ownTable, connects, mixed, channelVars, downstreamVars>>

\* The foreign server or the copy fails: the request fails and the row stays.
OrchestrationFails(c) ==
    /\ client[c].pc = "stored"
    /\ Done(c)
    /\ mixed' = TRUE
    /\ UNCHANGED <<source, server, landed, ownTable, connects, channelVars, downstreamVars>>

\* The crawl is best effort, and only of a row that is still there.
CrawlSource(c) == client[c].pc = "crawl" /\ Done(c) /\ UNCHANGED <<sourceVars, channelVars, downstreamVars>>

ReadSource(c) ==
    /\ client[c] = Idle /\ source # NoSource
    /\ client' = [client EXCEPT ![c] = [pc |-> "removing", row |-> source]]
    /\ mixed' = (mixed \/ Busy(OnSource) # {})
    /\ UNCHANGED <<source, server, landed, ownTable, connects, channelVars, downstreamVars>>

\* One transaction, decided by the row read before it: the server of a VIRTUAL
\* Postgres source, the tables in the tenant's schema that carry a name the
\* catalog has for a SYNC one, the catalog, the row.
RemoveSource(c) ==
    LET row == client[c].row
    IN  /\ client[c].pc = "removing"
        /\ server' = IF Virtual(row.sync) /\ row.type = "postgres" THEN 0 ELSE server
        /\ ownTable' = (ownTable /\ row.sync # "SYNC")
        /\ source' = IF source.id = row.id THEN NoSource ELSE source
        /\ Done(c)
        /\ UNCHANGED <<landed, connects, mixed, channelVars, downstreamVars>>
RemoveFails(c) == client[c].pc = "removing" /\ Done(c) /\ UNCHANGED <<sourceVars, channelVars, downstreamVars>>

\* Unless a registration failed, overlapped another request or changed engine or
\* strategy: a foreign server exists exactly for a stored VIRTUAL Postgres source
\* whose host is not `dummy`, with the options of its last registration.
ServersFollowSources ==
    Busy(OnSource) = {} /\ ~ mixed =>
        server = IF source.sync = "VIRTUAL" /\ source.type = "postgres" THEN source.by ELSE 0

----------------------------------------------------------------------------
(* Notification channels                                                     *)

\* The other channels of the type lose the flag first, in a statement of its own.
ClearDefault(c, channel) ==
    /\ client[c] = Idle
    /\ defaults' = {}
    /\ client' = [client EXCEPT ![c] = [pc |-> "cleared", channel |-> channel]]
    /\ upserted' = (upserted \/ Busy({"cleared"}) # {})
    /\ UNCHANGED <<existing, sourceVars, downstreamVars>>

StoreDefault(c) ==
    /\ client[c].pc = "cleared"
    /\ defaults' = defaults \cup {client[c].channel}
    /\ existing' = existing \cup {client[c].channel}
    /\ Done(c)
    /\ UNCHANGED <<upserted, sourceVars, downstreamVars>>
StoreFails(c) == client[c].pc = "cleared" /\ Done(c) /\ UNCHANGED <<sourceVars, channelVars, downstreamVars>>

\* An upsert without the flag takes it from its own channel.
StoreChannel(c, channel) ==
    /\ client[c] = Idle
    /\ defaults' = defaults \ {channel}
    /\ existing' = existing \cup {channel}
    /\ UNCHANGED <<client, upserted, sourceVars, downstreamVars>>
DeleteChannel(c, channel) ==
    /\ client[c] = Idle /\ channel \in existing
    /\ defaults' = defaults \ {channel}
    /\ existing' = existing \ {channel}
    /\ UNCHANGED <<client, upserted, sourceVars, downstreamVars>>

\* A type of channels has at most one default, and it exists.
OneDefault == ~ upserted => Cardinality(defaults) <= 1 /\ defaults \subseteq existing

----------------------------------------------------------------------------
(* Downstream targets                                                        *)

\* toggleDownstream: the registry first, whether or not there is a manifest.
SetStatus(c, on) ==
    /\ client[c] = Idle
    /\ registry' = IF on THEN "ACTIVE" ELSE "DISABLED"
    /\ client' = [client EXCEPT ![c] = [pc |-> "set", on |-> on]]
    /\ clashed' = (clashed \/ Busy({"set", "applied"}) # {})
    /\ UNCHANGED <<wanted, sourceVars, channelVars>>

\* Then the latest manifest, changed and applied again: it becomes the latest.
ReapplyManifest(c) ==
    /\ client[c].pc = "set"
    /\ IF wanted = "none"
       THEN Done(c) /\ UNCHANGED wanted
       ELSE wanted' = (IF client[c].on THEN "on" ELSE "off") /\ Goto(c, "applied")
    /\ UNCHANGED <<registry, clashed, sourceVars, channelVars>>

\* applyMetadata with a manifest of its own.
ApplyManifest(c, on) ==
    /\ client[c] = Idle
    /\ wanted' = IF on THEN "on" ELSE "off"
    /\ client' = [client EXCEPT ![c] = [pc |-> "applied", on |-> on]]
    /\ clashed' = (clashed \/ Busy({"set", "applied"}) # {})
    /\ UNCHANGED <<registry, sourceVars, channelVars>>

\* The apply failed: a warning.
ReapplyFails(c) ==
    /\ client[c].pc \in {"set", "applied"}
    /\ Done(c)
    /\ clashed' = TRUE
    /\ UNCHANGED <<registry, wanted, sourceVars, channelVars>>

\* provision, the last step of the apply: what became of an enabled target is
\* recorded whatever it was.
Outcomes == {"ACTIVE", "DEGRADED", "NOT_CONFIGURED", "UNSUPPORTED", "ERROR"}
Provision(c, outcome) ==
    /\ client[c].pc = "applied"
    /\ registry' = IF client[c].on THEN outcome ELSE "DISABLED"
    /\ Done(c)
    /\ UNCHANGED <<wanted, clashed, sourceVars, channelVars>>

\* Once a manifest was applied, the registry says what the latest one asks for.
RegistryFollowsManifest ==
    Busy({"set", "applied"}) = {} /\ ~ clashed =>
        CASE wanted = "on" -> registry \in Outcomes
          [] wanted = "off" -> registry = "DISABLED"
          [] OTHER -> registry \in {"none", "ACTIVE", "DISABLED"}

----------------------------------------------------------------------------
SourceSteps(c) ==
    \/ \E engine \in Engines, sync \in SyncTypes : TestConnection(c, engine, sync)
    \/ FindSource(c)
    \/ StoreSource(c)
    \/ RegisterServer(c)
    \/ InitializeSync(c)
    \/ OrchestrationFails(c)
    \/ CrawlSource(c)
    \/ ReadSource(c)
    \/ RemoveSource(c)
    \/ RemoveFails(c)
ChannelSteps(c) ==
    \/ \E channel \in Channels : ClearDefault(c, channel) \/ StoreChannel(c, channel) \/ DeleteChannel(c, channel)
    \/ StoreDefault(c)
    \/ StoreFails(c)
DownstreamSteps(c) ==
    \/ \E on \in BOOLEAN : SetStatus(c, on) \/ ApplyManifest(c, on)
    \/ ReapplyManifest(c)
    \/ ReapplyFails(c)
    \/ \E outcome \in Outcomes : Provision(c, outcome)

\* The three parts share nothing, so that one of them moves in a behaviour.
OnlyChannels == source = NoSource /\ connects = 0 /\ registry = "none" /\ wanted = "none"
OnlyDownstream == source = NoSource /\ connects = 0 /\ existing = {} /\ Busy({"cleared"}) = {}
OnlySources == existing = {} /\ Busy({"cleared", "set", "applied"}) = {} /\ registry = "none" /\ wanted = "none"
Next == \E c \in Clients :
    \/ OnlySources /\ SourceSteps(c)
    \/ OnlyChannels /\ ChannelSteps(c)
    \/ OnlyDownstream /\ DownstreamSteps(c)
Spec == Init /\ [][Next]_vars

Connected == ServersFollowSources /\ OneDefault /\ RegistryFollowsManifest
=============================================================================
