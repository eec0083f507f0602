SPECIFICATION Spec
CONSTANTS
    Rows = {1, 2}
    Cap = 1
    MaxTime = 2
    MaxVersions = 3
    KafkaJobs = {1}
    SendBatch = 2
    MaxCaptured = 4
    MaxTopic = 5
    Requests = {1, 2}
    EsTicks = {1, 2}
    ClaimLimit = 2
    EsMaxAttempts = 2
    Writers = {w1, w2}
    Values = {1}
    MaxStamp = 2
    MaxBatch = 2
    Steps = {0, 1, 2}
    MaxCount = 2
    MaxCalls = 5
    Refreshers = {1, 2}
    MaxRows = 2
    MaxData = 2
    HubTables = {"t"}
    Collections = {"c"}
    Namesakes = {"c"}
    Applies = {1, 2}
    Readers = {r1, r2}
    LicenceTtl = 1
    LimitsTtl = 2
    ComputeTime = 1
    MaxNow = 5
    MaxVersion = 2
    Creators = {1, 2, 3}
    PlanLimit = 2
    MaxResources = 7
    Pods = {1, 2}
    Windows <- MCWindows
    MaxTick = 4
    MaxBurst = 3
    Hosts = {h1, h2}
    Admins = {a1, a2}
    TenantIds <- MCTenantIds
    Logical <- MCLogical
    Transactions = {t1, t2}
    Handlers = {q1, q2}
    MaxPlans = 2
    PlanNames <- MCPlanNames
    MaxHandled = 3
    Servers = {1, 2}
    Lookups = {l1}
    Changes = {c1, c2}
    MaxStock = 3
    Clients = {1, 2}
    Channels = {1, 2}
    MaxConnects = 2
    Emails = {e1, e2}
    Logins = {1, 2}
    MaxLogins = 2
    MaxMoves = 2
    GraceDays = 1
    MaxDay = 4
    Processes = {1, 2}
    DayHours = 3
    WeekDays = 2
    MaxHour = 12
INVARIANTS MarkIsCovered DrainedIsCurrent IndexFollowsHub ConflictsAreRaces NumbersAreFresh QuietViewIsWhole StaleBounded RegistryAgrees NamespacesDisjoint AppliesAreSafe AdmissionBounded ConnectionsHold
CHECK_DEADLOCK FALSE
