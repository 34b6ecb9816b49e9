\* Two tenants polled under any one fault; ticks and ingest take time.
CONSTANTS
    t1 = t1  t2 = t2  s1 = s1  s2 = s2
    NoRule = NoRule  NoTenant = NoTenant
    Tenants = {t1, t2}
    Srcs = {s1}
    Thresholds = {2}
    Windows = {5}
    Cooldowns = {2}
    InitRules <- TimingInit
    Interval = 1
    TickBudget = 1
    IngestLag = 1
    WebhookSet = FALSE
    FaultKinds = {"statement", "discover", "connection", "crash"}
    MaxTime = 7
    MaxEvents = 2
    MaxPatches = 0
    MaxFaults = 1
SPECIFICATION Spec
SYMMETRY TenantSymmetry
CHECK_DEADLOCK FALSE
INVARIANTS ScannedInTime BurstDetected
