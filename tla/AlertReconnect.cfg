\* The connection dies once.
CONSTANTS
    t1 = t1  t2 = t2  s1 = s1  s2 = s2
    NoRule = NoRule  NoTenant = NoTenant
    Tenants = {t1, t2}
    Srcs = {s1}
    Thresholds = {2}
    Windows = {5}
    Cooldowns = {2}
    InitRules <- TimingInit
    Interval = 1
    TickBudget = 1
    IngestLag = 0
    WebhookSet = FALSE
    FaultKinds = {"connection"}
    MaxTime = 9
    MaxEvents = 2
    MaxPatches = 0
    MaxFaults = 1
SPECIFICATION Spec
CHECK_DEADLOCK FALSE
INVARIANT RetriedNextTick
