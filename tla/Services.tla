------------------------------ MODULE Services -------------------------------
(* The services around the copy engine, one at a time: each has tables of its *)
(* own and is driven by requests of its own, so a behaviour is a behaviour of *)
(* one of them while the others rest.                                         *)
EXTENDS Integers, Sequences, FiniteSets

CONSTANTS
    Rows, Cap, MaxTime, MaxVersions,
    KafkaJobs, SendBatch, MaxCaptured, MaxTopic,
    Requests, EsTicks, ClaimLimit, EsMaxAttempts,
    Writers, Values, MaxStamp, MaxBatch,
    Steps, MaxCount, MaxCalls,
    Refreshers, MaxRows, MaxData,
    HubTables, Collections, Namesakes, Applies,
    Readers, LicenceTtl, LimitsTtl, ComputeTime, MaxNow, MaxVersion,
    Creators, PlanLimit, MaxResources,
    Pods, Windows, MaxTick, MaxBurst,
    Hosts, Admins,
    TenantIds, Logical, Transactions,
    Handlers, MaxPlans, PlanNames, MaxHandled,
    Servers, Lookups, Changes, MaxStock,
    Clients, Channels, MaxConnects,
    Emails, Logins, MaxLogins, MaxMoves,
    GraceDays, MaxDay, Processes, DayHours, WeekDays, MaxHour

\* A sequence steps up, down or not at all.
ASSUME SequenceAssumption == Steps \subseteq Int /\ MaxCount \in Nat

\* A table of the hub is not a collection, also when both have one name.
ASSUME ManifestAssumption == HubTables \cap Collections = {}

\* Somebody asks for resources, and the limit of a plan is a number, or -1 for none.
ASSUME LimitAssumption == IsFiniteSet(Creators) /\ Creators # {} /\ PlanLimit \in Nat \cup {-1}

\* Names are sequences of parts, and no request is called like the lock's absent holder.
ASSUME NamespaceAssumption ==
    /\ TenantIds \subseteq Seq(STRING) /\ Logical \subseteq Seq(STRING)
    /\ "nobody" \notin Transactions

\* Caches live for some time, and both clocks start before their ends.
ASSUME CacheAssumption ==
    /\ LicenceTtl \in Nat \ {0} /\ LimitsTtl \in Nat \ {0} /\ ComputeTime \in Nat
    /\ MaxNow \in Nat \ {0} /\ MaxVersion \in Nat \ {0} /\ MaxStock \in Nat \ {0}

\* The keys of a table are numbered, and an incremental run reads some rows.
ASSUME WatermarkAssumption == IsFiniteSet(Rows) /\ Rows = 1 .. Cardinality(Rows) /\ Cap \in Nat \ {0}

\* A tick claims some jobs.
ASSUME IndexAssumption == ClaimLimit \in Nat \ {0}

\* A batch holds a change.
ASSUME KafkaAssumption == SendBatch \in Nat \ {0}

\* There are some processes, and the request rate is limited over windows of some length.
ASSUME RateAssumption ==
    /\ IsFiniteSet(Pods) /\ DOMAIN Windows \subseteq Nat \ {0}
    /\ \A w \in DOMAIN Windows : Windows[w] \in Nat

\* The plan that an installation starts with has a row.
ASSUME PlanAssumption == MaxPlans \in Nat \ {0}

\* The ids made of a hash are none of the others.
ASSUME AccountAssumption == {"none", "tenant_A", "readable"} \cap Emails = {}

\* A licence is checked for some days.
ASSUME LicenceAssumption == GraceDays \in Nat /\ MaxDay \in Nat

VARIABLES
    service,
    job, table, open, time, versions, copy, mark, load, delta, partial, exposed,
    captured, pruned, offset, topic, snapshot, run, committed, consumed, doc,
    hub, request, jobs, tick, index, unseen, disturbed,
    docs, parents, gone, stamp, writer,
    counter, handed, lastReset,
    data, view, refresh, expected,
    tables, catalog, protected, remote, filled, apply, excused, lost,
    now, version, replacedAt, admin, licence, limits, reader, served,
    used, exempt, creator,
    clock, store, burst, granted,
    node, row, distributed, op, torn,
    tenants, schemas, tx, lock,
    plans, space, subscriber, handler, handled, trials, met,
    stock, fate, entry, connected, lookup, change,
    source, server, landed, ownTable, connects, client, mixed, defaults, existing, upserted,
    registry, wanted, clashed,
    users, workspaces, lastUser, login, started, moves, session, bound, stranded, assigned,
    timer, day, key, daemon, stored, check, checked, rejected, heard, forgot, crossed,
    hour, frequency, last, cleaner, purges, overlapped

Watermark == INSTANCE IncrementalWatermark
Kafka == INSTANCE CdcKafka
SearchIndex == INSTANCE EsMutationQueue
Documents == INSTANCE DocumentWrites
Sequence == INSTANCE FabricSequences
View == INSTANCE MaterializedRefresh
Manifest == INSTANCE ManifestApply
Settings == INSTANCE SettingsCaches
Limit == INSTANCE PlanLimits
Workers == INSTANCE WorkerNodes
Namespaces == INSTANCE TenantNamespaces
Catalogue == INSTANCE WorkspacePlans
Cached == INSTANCE CatalogCache
External == INSTANCE ExternalSystems
Account == INSTANCE Accounts
Daemons == INSTANCE PlatformDaemons

ServiceNames == {"watermark", "kafka", "index", "documents", "sequence", "view",
                 "manifest", "settings", "limit", "rate", "workers", "namespaces", "plans", "cache",
                 "external", "accounts", "daemons"}

watermarkVars == <<job, table, open, time, versions, copy, mark, load, delta, partial, exposed>>
kafkaVars == <<captured, pruned, offset, topic, snapshot, run, committed, consumed, doc>>
indexVars == <<hub, request, jobs, tick, index, unseen, disturbed>>
documentsVars == <<docs, parents, gone, stamp, writer>>
sequenceVars == <<counter, handed, lastReset>>
viewVars == <<data, view, refresh, expected>>
manifestVars == <<tables, catalog, protected, remote, filled, apply, excused, lost>>
settingsVars == <<now, version, replacedAt, admin, licence, limits, reader, served>>
limitVars == <<used, exempt, creator>>
rateVars == <<clock, store, burst, granted>>
workersVars == <<node, row, distributed, op, torn>>
namespacesVars == <<tenants, schemas, tx, lock>>
plansVars == <<plans, space, subscriber, handler, handled, trials, met>>
cacheVars == <<stock, fate, entry, connected, lookup, change>>
externalVars == <<source, server, landed, ownTable, connects, client, mixed, defaults, existing, upserted,
                  registry, wanted, clashed>>
accountsVars == <<users, workspaces, lastUser, login, started, moves, session, bound, stranded, assigned>>
daemonsVars == <<timer, day, key, daemon, stored, check, checked, rejected, heard, forgot, crossed,
                 hour, frequency, last, cleaner, purges, overlapped>>

vars == <<service, watermarkVars, kafkaVars, indexVars, documentsVars, sequenceVars, viewVars,
          manifestVars, settingsVars, limitVars, rateVars, workersVars, namespacesVars, plansVars, cacheVars,
          externalVars, accountsVars, daemonsVars>>

\* A service that is not the one under study keeps one of its initial states.
AtRest == /\ service = "watermark" \/ job = CHOOSE j \in Watermark!Jobs : TRUE
          /\ service = "manifest" \/ remote = {}
          /\ service = "plans" \/ Cardinality({i \in 1 .. MaxPlans : plans[i].name = "none"}) = MaxPlans - 1
          /\ service = "cache" \/ \A p \in {lookup[l].on : l \in Lookups} \cup {change[c].on : c \in Changes} :
                                   p = CHOOSE q \in Servers : TRUE
          /\ service = "daemons" \/ timer = "licence"

Init == /\ service \in ServiceNames
        /\ Watermark!Init
        /\ Kafka!Init
        /\ SearchIndex!Init
        /\ Documents!Init
        /\ Sequence!Init
        /\ View!Init
        /\ Manifest!Init
        /\ Settings!Init
        /\ Limit!LimitInit
        /\ Limit!RateInit
        /\ Workers!Init
        /\ Namespaces!Init
        /\ Catalogue!Init
        /\ Cached!Init
        /\ External!Init
        /\ Account!Init
        /\ Daemons!Init
        /\ AtRest

OthersRest ==
    /\ UNCHANGED service
    /\ IF service = "watermark" THEN TRUE ELSE UNCHANGED watermarkVars
    /\ IF service = "kafka" THEN TRUE ELSE UNCHANGED kafkaVars
    /\ IF service = "index" THEN TRUE ELSE UNCHANGED indexVars
    /\ IF service = "documents" THEN TRUE ELSE UNCHANGED documentsVars
    /\ IF service = "sequence" THEN TRUE ELSE UNCHANGED sequenceVars
    /\ IF service = "view" THEN TRUE ELSE UNCHANGED viewVars
    /\ IF service = "manifest" THEN TRUE ELSE UNCHANGED manifestVars
    /\ IF service = "settings" THEN TRUE ELSE UNCHANGED settingsVars
    /\ IF service = "limit" THEN TRUE ELSE UNCHANGED limitVars
    /\ IF service = "rate" THEN TRUE ELSE UNCHANGED rateVars
    /\ IF service = "workers" THEN TRUE ELSE UNCHANGED workersVars
    /\ IF service = "namespaces" THEN TRUE ELSE UNCHANGED namespacesVars
    /\ IF service = "plans" THEN TRUE ELSE UNCHANGED plansVars
    /\ IF service = "cache" THEN TRUE ELSE UNCHANGED cacheVars
    /\ IF service = "external" THEN TRUE ELSE UNCHANGED externalVars
    /\ IF service = "accounts" THEN TRUE ELSE UNCHANGED accountsVars
    /\ IF service = "daemons" THEN TRUE ELSE UNCHANGED daemonsVars

Next ==
    \/ service = "watermark" /\ OthersRest /\ Watermark!Next
    \/ service = "kafka" /\ OthersRest /\ Kafka!Next
    \/ service = "index" /\ OthersRest /\ SearchIndex!Next
    \/ service = "documents" /\ OthersRest /\ Documents!Next
    \/ service = "sequence" /\ OthersRest /\ Sequence!Next
    \/ service = "view" /\ OthersRest /\ View!Next
    \/ service = "manifest" /\ OthersRest /\ Manifest!Next
    \/ service = "settings" /\ OthersRest /\ Settings!Next
    \/ service = "limit" /\ OthersRest /\ Limit!LimitNext
    \/ service = "rate" /\ OthersRest /\ Limit!RateNext
    \/ service = "workers" /\ OthersRest /\ Workers!Next
    \/ service = "namespaces" /\ OthersRest /\ Namespaces!Next
    \/ service = "plans" /\ OthersRest /\ Catalogue!Next
    \/ service = "cache" /\ OthersRest /\ Cached!Next
    \/ service = "external" /\ OthersRest /\ External!Next
    \/ service = "accounts" /\ OthersRest /\ Account!Next
    \/ service = "daemons" /\ OthersRest /\ Daemons!Next

Spec == Init /\ [][Next]_vars

----------------------------------------------------------------------------
(* What each service promises                                                *)

\* INCREMENTAL replication: the rows at or below the saved watermark are in the
\* replica, current where the tracking column shows updates (runIncremental).
MarkIsCovered == service = "watermark" => Watermark!MarkIsCovered

\* CDC over Kafka: once everything is published and applied, the index is current,
\* whatever was published twice (cdc_kafka.ts).
DrainedIsCurrent == service = "kafka" => Kafka!DrainedIsCurrent

\* Search index: when its queue has drained without a disturbance it shows the
\* hub's last write (es_mutation_worker.ts).
IndexFollowsHub == service = "index" => SearchIndex!IndexFollowsHub

\* Constraints the fabric enforces on document sources fail only through the races
\* its check-then-write leaves open (ConstraintService.validate).
ConflictsAreRaces == service = "documents" => Documents!ConflictsAreRaces

\* Fabric sequences that step do not hand out a number twice between two resets (nextval).
NumbersAreFresh == service = "sequence" => Sequence!NumbersAreFresh

\* A materialized view that nobody is refreshing holds one whole result
\* (refreshMaterializedView).
QuietViewIsWhole == service = "view" => View!QuietViewIsWhole

\* Replaced limits are enforced for a bounded time (LimitsResolver, LicenseManager),
\* cached catalog reads are stale only for the reasons named there (cached), and a
\* licence is granted and revoked as the portal said, for at most the days of grace
\* (LicenseValidationService).
StaleBounded == /\ service = "settings" => Settings!StaleBounded
                /\ service = "cache" => Cached!StaleIsExcused
                /\ service = "daemons" => Daemons!LicenceFollowsPortal

\* The worker registry and Citus agree whenever no operation is in flight or died
\* (worker-node.service.ts).
RegistryAgrees == service = "workers" => Workers!RegistryAgrees

\* No tenant's schemas can be taken for another's (tenant.service.ts).
NamespacesDisjoint == service = "namespaces" => Namespaces!NamespacesDisjoint

\* Applying manifests leaves the documents of a collection alone and never
\* shows a table before its policies are stored (orchestrator.apply).
AppliesAreSafe == service = "manifest" => Manifest!CollectionsIntact /\ Manifest!NewTablesAreProtected

\* Admission: plan limits are passed at most by the requests in flight, request
\* rates at most twofold across a window's boundary (checkRateLimit); one default
\* plan, no workspace loses its plan and no second trial, save for the overlaps
\* named there (systemRoutes, workspaceRoutes); and a plan's cleanup purges at most
\* once a day (CleanupService).
AdmissionBounded == /\ service = "limit" => Limit!OvershootBounded
                    /\ service = "rate" => Limit!RateBounded
                    /\ service = "plans" => Catalogue!PlansHold
                    /\ service = "daemons" => Daemons!PurgedOnceADay

\* Foreign servers, channel defaults and downstream targets follow what was stored
\* of them (registerRemoteSource, upsertChannel, toggleDownstream), users get a
\* workspace and sessions only for their own (ssoCallback, refreshToken).
ConnectionsHold == /\ service = "external" => External!Connected
                   /\ service = "accounts" => Account!AccountsHold
=============================================================================
