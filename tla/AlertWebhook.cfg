\* The process is killed after a webhook was delivered and before COMMIT.
CONSTANTS
    t1 = t1  t2 = t2  s1 = s1  s2 = s2
    NoRule = NoRule  NoTenant = NoTenant
    Tenants = {t1}
    Srcs = {s1, s2}
    Thresholds = {2}
    Windows = {5}
    Cooldowns = {2}
    InitRules <- TimingInit
    Interval = 1
    TickBudget = 0
    IngestLag = 0
    WebhookSet = TRUE
    FaultKinds = {"crash"}
    MaxTime = 3
    MaxEvents = 2
    MaxPatches = 0
    MaxFaults = 1
SPECIFICATION Spec
CHECK_DEADLOCK FALSE
INVARIANT NoPhantomWebhook
