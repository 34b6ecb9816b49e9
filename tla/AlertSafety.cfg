\* Faults, rule changes and webhooks; one tenant-pair, two sources.
CONSTANTS
    t1 = t1  t2 = t2  s1 = s1  s2 = s2
    NoRule = NoRule  NoTenant = NoTenant
    Tenants = {t1}
    Srcs = {s1, s2}
    Thresholds = {1}
    Windows = {1}
    Cooldowns = {1, 2}
    InitRules <- SafetyInit
    Interval = 1
    TickBudget = 0
    IngestLag = 0
    WebhookSet = TRUE
    FaultKinds = {"statement", "discover", "connection", "crash"}
    MaxTime = 2
    MaxEvents = 2
    MaxPatches = 1
    MaxFaults = 1
SPECIFICATION Spec
SYMMETRY Symmetry
CHECK_DEADLOCK FALSE
INVARIANTS TypeOK CooldownRespected TxInv RuleInForce ReceiptsHonest
PROPERTIES ImplementsAlertLog
