\* Prompt ticks every 2 units, window of 3: what the documentation says is found.
CONSTANTS
    t1 = t1  t2 = t2  s1 = s1  s2 = s2
    NoRule = NoRule  NoTenant = NoTenant
    Tenants = {t1}
    Srcs = {s1}
    Thresholds = {2}
    Windows = {3}
    Cooldowns = {1}
    InitRules <- SamplingInit
    Interval = 2
    TickBudget = 0
    IngestLag = 0
    WebhookSet = FALSE
    FaultKinds = {}
    MaxTime = 8
    MaxEvents = 2
    MaxPatches = 0
    MaxFaults = 0
SPECIFICATION Spec
CHECK_DEADLOCK FALSE
INVARIANT WindowBurstDetected
