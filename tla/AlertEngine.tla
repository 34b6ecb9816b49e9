----------------------------- MODULE AlertEngine -----------------------------
(***************************************************************************)
(* The alert engine (src/alerting/engine.py): one process, one database    *)
(* connection, one scheduler loop.  Every step below is the code between   *)
(* two awaits: a SQL statement, a webhook POST, or a sleep.  The rest of   *)
(* the system moves between any two of them: ingest transactions begin and *)
(* commit failed-login rows, an administrator PATCHes the rule, the clock  *)
(* advances, statements fail, the connection dies, the process is killed.  *)
(*                                                                         *)
(* Abstracted: only rows the failed-login filter of DETECT_SQL accepts are *)
(* events here; a rule is its enabled flag and its three numbers;          *)
(* min/max(event_time), which decide nothing, are left out.                *)
(***************************************************************************)
EXTENDS Integers, FiniteSets

CONSTANTS
    Tenants,         \* tenants with at least one row in `users`
    Srcs,            \* source addresses
    Thresholds, Windows, Cooldowns,  \* the rule values an admin may choose
    InitRules,       \* the rules a tenant may start with
    NoRule, NoTenant,
    Interval,        \* ALERT_POLL_INTERVAL_SECONDS
    TickBudget,      \* bound: longest time one scheduler tick takes
    IngestLag,       \* bound: longest time an ingest transaction stays open
    WebhookSet,      \* ALERT_WEBHOOK_URL is configured
    FaultKinds,      \* the faults this instance exercises
    MaxTime, MaxEvents, MaxPatches, MaxFaults    \* bounds of the instance

Config == [enabled : BOOLEAN, threshold : Thresholds,
           window : Windows, cooldown : Cooldowns]

(***************************************************************************)
(* The CHECK constraints of alert_rules keep the three numbers positive.   *)
(***************************************************************************)
ASSUME RuleAssumption ==
    /\ Thresholds \subseteq Nat \ {0}
    /\ Windows \subseteq Nat \ {0}
    /\ Cooldowns \subseteq Nat \ {0}
    /\ InitRules \subseteq Config \cup {NoRule}
    /\ NoRule \notin Config
    /\ NoTenant \notin Tenants

AllFaults == {"statement", "discover", "connection", "crash"}

ASSUME BoundAssumption ==
    /\ Interval \in Nat \ {0} /\ TickBudget \in Nat /\ IngestLag \in Nat
    /\ MaxTime \in Nat /\ MaxEvents \in Nat
    /\ MaxPatches \in Nat /\ MaxFaults \in Nat
    /\ WebhookSet \in BOOLEAN
    /\ FaultKinds \subseteq AllFaults

VARIABLES
    \* the database
    now,        \* its clock
    ingest,     \* rows inserted by ingest transactions that are still open
    events,     \* committed rows of events
    rules,      \* committed rows of alert_rules, one per tenant or none
    alerts,     \* committed rows of alerts
    nextId,     \* the identity sequence of alerts: never rolled back
    \* the engine
    pc,         \* where the scheduler loop stands
    conn,       \* its only connection: "ok" or "lost"
    todo,       \* tenants of this tick not evaluated yet
    due,        \* asyncio.sleep ends at due; a running tick ends by due
    \* the open transaction of evaluate_tenant
    cur,        \* its tenant, NoTenant when none is open
    start,      \* now() inside it: the time it began
    rule,       \* the rule row it read
    cands,      \* candidates of DETECT_SQL not looked at yet
    rows,       \* alerts inserted and not committed
    \* the outside world and history
    delivered,  \* ids of alerts whose webhook the receiver got
    past,       \* rule rows that were replaced, with the time of it
    since,      \* when the running process began
    scanned,    \* per tenant: start of its last evaluation that committed
    missed,     \* per tenant: faults since both that cost it an evaluation
    faults      \* faults so far, by kind

dbVars    == <<ingest, events, rules, alerts, nextId>>
txVars    == <<cur, start, rule, cands, rows>>
worldVars == <<delivered, past, since, scanned, missed, faults>>
vars == <<now, dbVars, pc, conn, todo, due, txVars, worldVars>>

Statement == {"discover", "tenants", "rule", "detect", "cands", "mark"}
Running   == Statement \cup {"webhook"}

(***************************************************************************)
(* Failed-login rows: n tells rows with equal values apart.  ingested_at   *)
(* is DEFAULT now(), the time the inserting transaction began, so a row    *)
(* may become visible later than its own timestamp.                        *)
(***************************************************************************)
Event == [tenant : Tenants, src : Srcs, at : Nat, n : Nat]

\* The rows row-level security shows a transaction whose app.tenant is t.
Visible(t) == {e \in events : e.tenant = t}

\* Mutation: sources are not grouped.
HitsUngrouped(t, s, from) == {e \in Visible(t) : e.at >= from}

Hits(t, s, from) == {e \in Visible(t) : e.src = s /\ e.at >= from}

Candidate(s) == [src |-> s, count |-> Cardinality(Hits(cur, s, start - rule.window))]

\* Mutation: HAVING count(*) > threshold.
DetectedAbove == {c \in {Candidate(s) : s \in Srcs} : c.count > rule.threshold}
\* Mutation: src_ip IS NOT NULL is dropped.
DetectedNullSrc == {c \in {Candidate(s) : s \in Srcs} \cup
                          {[src |-> "NULL", count |-> Cardinality(events)]} :
                       c.count >= rule.threshold}
\* HAVING count(*) >= threshold, for the sources that have rows at all.
Detected == {c \in {Candidate(s) : s \in Srcs} : c.count >= rule.threshold}

\* Mutation: min(triggered_at) instead of max(triggered_at).
PastCooldownMin(s) ==
    LET own == {a \in alerts \cup rows : a.tenant = cur /\ a.src = s}
    IN  own = {} \/ \E a \in own : a.at <= start - rule.cooldown
\* The rows of alerts the transaction sees: committed ones and its own.
PastCooldown(s) ==
    \A a \in alerts \cup rows :
        a.tenant = cur /\ a.src = s => a.at <= start - rule.cooldown

Alert == [id : Nat, tenant : Tenants, src : Srcs, at : Nat, count : Nat,
          rule : Config, sent : BOOLEAN]
-----------------------------------------------------------------------------
Init ==
    /\ now = 0 /\ ingest = {} /\ events = {} /\ alerts = {} /\ nextId = 1
    /\ rules \in [Tenants -> InitRules]
    /\ pc = "discover" /\ conn = "ok" /\ todo = {} /\ due = TickBudget
    /\ cur = NoTenant /\ start = 0 /\ rule = NoRule /\ cands = {} /\ rows = {}
    /\ delivered = {} /\ past = [t \in Tenants |-> {}]
    /\ since = 0
    /\ scanned = [t \in Tenants |-> 0] /\ missed = [t \in Tenants |-> 0]
    /\ faults = [k \in AllFaults |-> 0]
-----------------------------------------------------------------------------
(* The environment: clock, ingest, administrators.                         *)

\* Time passes, but not past what the engine or an ingest transaction owes.
Clock ==
    /\ now < MaxTime
    /\ pc = "down" \/ now < due
    /\ \A e \in ingest : now < e.at + IngestLag
    /\ now' = now + 1
    /\ UNCHANGED <<dbVars, pc, conn, todo, due, txVars, worldVars>>

BeginIngest(t, s) ==
    /\ Cardinality(events \cup ingest) < MaxEvents
    /\ \E n \in 1..MaxEvents :
         LET e == [tenant |-> t, src |-> s, at |-> now, n |-> n]
         IN  /\ e \notin events \cup ingest
             /\ \A m \in 1..(n-1) : [e EXCEPT !.n = m] \in events \cup ingest
             /\ ingest' = ingest \cup {e}
    /\ UNCHANGED <<now, events, rules, alerts, nextId,
                   pc, conn, todo, due, txVars, worldVars>>

CommitIngest(e) ==
    /\ ingest' = ingest \ {e}
    /\ events' = events \cup {e}
    /\ UNCHANGED <<now, rules, alerts, nextId,
                   pc, conn, todo, due, txVars, worldVars>>

AbortIngest(e) ==
    /\ ingest' = ingest \ {e}
    /\ UNCHANGED <<now, events, rules, alerts, nextId,
                   pc, conn, todo, due, txVars, worldVars>>

\* PATCH /alert-rules/{id}, or POST for a tenant that has no rule yet.
SetRule(t, r) ==
    /\ Cardinality(UNION {past[u] \X {u} : u \in Tenants}) < MaxPatches
    /\ rules[t] # r
    /\ rules' = [rules EXCEPT ![t] = r]
    /\ past' = [past EXCEPT ![t] = @ \cup {[rule |-> rules[t], until |-> now]}]
    /\ UNCHANGED <<now, ingest, events, alerts, nextId, pc, conn, todo, due,
                   txVars, delivered, since, scanned, missed, faults>>
-----------------------------------------------------------------------------
(* main and run_once                                                       *)

NoTx == cur' = NoTenant /\ start' = 0 /\ rule' = NoRule /\ cands' = {} /\ rows' = {}

WakeUp ==
    /\ pc = "sleep" /\ now >= due
    /\ pc' = "discover" /\ due' = now + TickBudget
    /\ UNCHANGED <<now, dbVars, conn, todo, txVars, worldVars>>

DiscoverTenants ==
    /\ pc = "discover" /\ conn = "ok"
    /\ todo' = Tenants /\ pc' = "tenants"
    /\ UNCHANGED <<now, dbVars, conn, due, txVars, worldVars>>

\* The loop over tenants is done, or an exception left it: sleep(interval).
GoToSleep == pc' = "sleep" /\ due' = now + Interval /\ todo' = {}

EndTick ==
    /\ pc = "tenants" /\ todo = {}
    /\ GoToSleep
    /\ UNCHANGED <<now, dbVars, conn, txVars, worldVars>>
-----------------------------------------------------------------------------
(* evaluate_tenant                                                         *)

\* BEGIN and set_config('app.tenant', t, true).
BeginTx(t) ==
    /\ pc = "tenants" /\ conn = "ok" /\ t \in todo
    /\ todo' = todo \ {t} /\ cur' = t /\ start' = now /\ pc' = "rule"
    /\ UNCHANGED <<now, dbVars, conn, due, rule, cands, rows, worldVars>>

Committed ==
    /\ pc' = "tenants"
    /\ scanned' = [scanned EXCEPT ![cur] = start]
    /\ missed' = [missed EXCEPT ![cur] = 0]

Enabled(r) == r # NoRule /\ r.enabled

\* Mutation: a rule is read once, when the process begins.
SelectRuleCached ==
    /\ pc = "rule" /\ conn = "ok"
    /\ \E r \in {rules[cur]} \cup {p.rule : p \in {q \in past[cur] : q.until >= since}} :
         IF Enabled(r)
           THEN /\ rule' = r /\ pc' = "detect"
                /\ UNCHANGED <<cur, start, cands, rows, scanned, missed>>
           ELSE Committed /\ NoTx
    /\ UNCHANGED <<now, dbVars, conn, todo, due, delivered, past, since, faults>>

\* WHERE rule_type = ... AND enabled = true; no row: return, which commits.
SelectRule ==
    /\ pc = "rule" /\ conn = "ok"
    /\ IF Enabled(rules[cur])
         THEN /\ rule' = rules[cur] /\ pc' = "detect"
              /\ UNCHANGED <<cur, start, cands, rows, scanned, missed>>
         ELSE Committed /\ NoTx
    /\ UNCHANGED <<now, dbVars, conn, todo, due, delivered, past, since, faults>>

Detect ==
    /\ pc = "detect" /\ conn = "ok"
    /\ cands' = Detected /\ pc' = "cands"
    /\ UNCHANGED <<now, dbVars, conn, todo, due, cur, start, rule, rows, worldVars>>

SkipCandidate(c) ==
    /\ pc = "cands" /\ conn = "ok" /\ ~PastCooldown(c.src)
    /\ cands' = cands \ {c}
    /\ UNCHANGED <<now, dbVars, pc, conn, todo, due, cur, start, rule, rows, worldVars>>

FireCandidate(c) ==
    /\ pc = "cands" /\ conn = "ok" /\ PastCooldown(c.src)
    /\ cands' = cands \ {c}
    /\ rows' = rows \cup {[id |-> nextId, tenant |-> cur, src |-> c.src, at |-> start,
                           count |-> c.count, rule |-> rule, sent |-> FALSE]}
    /\ nextId' = nextId + 1
    /\ pc' = IF WebhookSet THEN "webhook" ELSE "cands"
    /\ UNCHANGED <<now, ingest, events, rules, alerts, conn, todo, due,
                   cur, start, rule, worldVars>>

AlertId == nextId - 1      \* RETURNING id of the last INSERT

(***************************************************************************)
(* send_webhook, inside the open transaction: a 2xx answer, an answer that *)
(* is lost or not 2xx after the receiver took the POST, or no delivery.    *)
(***************************************************************************)
WebhookAcknowledged ==
    /\ pc = "webhook" /\ pc' = "mark"
    /\ delivered' = delivered \cup {AlertId}
    /\ UNCHANGED <<now, dbVars, conn, todo, due, txVars, past, since, scanned, missed, faults>>

WebhookUnanswered ==
    /\ pc = "webhook" /\ pc' = "cands"
    /\ delivered' = delivered \cup {AlertId}
    /\ UNCHANGED <<now, dbVars, conn, todo, due, txVars, past, since, scanned, missed, faults>>

WebhookFailed ==
    /\ pc = "webhook" /\ pc' = "cands"
    /\ UNCHANGED <<now, dbVars, conn, todo, due, txVars, worldVars>>

\* Mutation: the UPDATE has no WHERE id.
MarkAllSent ==
    /\ pc = "mark" /\ conn = "ok"
    /\ rows' = {[a EXCEPT !.sent = TRUE] : a \in rows}
    /\ pc' = "cands"
    /\ UNCHANGED <<now, dbVars, conn, todo, due, cur, start, rule, cands, worldVars>>

MarkWebhookSent ==
    /\ pc = "mark" /\ conn = "ok"
    /\ rows' = {IF a.id = AlertId THEN [a EXCEPT !.sent = TRUE] ELSE a : a \in rows}
    /\ pc' = "cands"
    /\ UNCHANGED <<now, dbVars, conn, todo, due, cur, start, rule, cands, worldVars>>

CommitTx ==
    /\ pc = "cands" /\ conn = "ok" /\ cands = {}
    /\ alerts' = alerts \cup rows
    /\ Committed /\ NoTx
    /\ UNCHANGED <<now, ingest, events, rules, nextId, conn, todo, due,
                   delivered, past, since, faults>>
-----------------------------------------------------------------------------
(* Faults                                                                  *)

\* Faults that cost an evaluation although the connection works.
Lapses == faults["statement"] + faults["discover"]

Fault(kind) ==
    /\ kind \in FaultKinds /\ Lapses + faults["connection"] + faults["crash"] < MaxFaults
    /\ faults' = [faults EXCEPT ![kind] = @ + 1]

Charge(T) == missed' = [t \in Tenants |-> IF t \in T THEN missed[t] + 1 ELSE missed[t]]

\* Mutation: run_once has no try around each tenant.
StatementFailsTick ==
    /\ cur # NoTenant /\ pc \in Statement /\ conn = "ok"
    /\ Fault("statement") /\ Charge({cur})
    /\ NoTx /\ GoToSleep
    /\ UNCHANGED <<now, dbVars, conn, delivered, past, since, scanned>>

\* A statement of evaluate_tenant raises: rollback, then the next tenant.
StatementFails ==
    /\ cur # NoTenant /\ pc \in Statement /\ conn = "ok"
    /\ Fault("statement") /\ Charge({cur})
    /\ NoTx /\ pc' = "tenants"
    /\ UNCHANGED <<now, dbVars, conn, todo, due, delivered, past, since, scanned>>

\* discover_tenants raises: run_once raises, main logs it and sleeps.
DiscoverFails ==
    /\ pc = "discover" /\ conn = "ok"
    /\ Fault("discover") /\ Charge(Tenants)
    /\ GoToSleep
    /\ UNCHANGED <<now, dbVars, conn, txVars, delivered, past, since, scanned>>

(***************************************************************************)
(* The connection dies; the server rolls the open transaction back.  When  *)
(* COMMIT was on its way (no candidate left) it may have been executed.    *)
(* The engine goes on from where it is and meets the loss at its next      *)
(* statement.                                                              *)
(***************************************************************************)
LoseRows == rows' = {} /\ alerts' = alerts

ConnectionLost ==
    /\ conn = "ok" /\ pc \in Running \cup {"sleep"}
    /\ Fault("connection") /\ Charge(Tenants)
    /\ conn' = "lost"
    /\ \/ LoseRows
       \/ pc = "cands" /\ cands = {} /\ rows' = {} /\ alerts' = alerts \cup rows
    /\ UNCHANGED <<now, ingest, events, rules, nextId, pc, todo, due,
                   cur, start, rule, cands, delivered, past, since, scanned>>

\* Every statement raises now, and so does conn.rollback(): the tick ends.
LostStatementFails ==
    /\ pc \in Statement /\ conn = "lost"
    /\ pc = "tenants" => todo # {}
    /\ GoToSleep /\ NoTx
    /\ UNCHANGED <<now, dbVars, conn, worldVars>>

\* The process is killed at any point; the same two outcomes for its COMMIT.
Crash ==
    /\ pc # "down" /\ Fault("crash")
    /\ pc' = "down" /\ conn' = "ok" /\ todo' = {} /\ due' = now
    /\ \/ alerts' = alerts
       \/ pc = "cands" /\ cands = {} /\ conn = "ok" /\ alerts' = alerts \cup rows
    /\ NoTx
    /\ UNCHANGED <<now, ingest, events, rules, nextId, delivered, past, since, scanned, missed>>

\* restart: unless-stopped; main connects and runs its first tick at once.
Restart ==
    /\ pc = "down"
    /\ pc' = "discover" /\ due' = now + TickBudget
    /\ since' = now /\ missed' = [t \in Tenants |-> 0]
    /\ UNCHANGED <<now, dbVars, conn, todo, txVars, delivered, past, scanned, faults>>
-----------------------------------------------------------------------------
Environment ==
    \/ Clock
    \/ \E t \in Tenants, s \in Srcs : BeginIngest(t, s)
    \/ \E e \in ingest : CommitIngest(e) \/ AbortIngest(e)
    \/ \E t \in Tenants, r \in Config : SetRule(t, r)

Engine ==
    \/ WakeUp \/ DiscoverTenants \/ EndTick
    \/ \E t \in Tenants : BeginTx(t)
    \/ SelectRule \/ Detect
    \/ \E c \in cands : SkipCandidate(c) \/ FireCandidate(c)
    \/ WebhookAcknowledged \/ WebhookUnanswered \/ WebhookFailed
    \/ MarkWebhookSent \/ CommitTx

Faulty ==
    \/ StatementFails \/ DiscoverFails \/ ConnectionLost
    \/ LostStatementFails \/ Crash \/ Restart

Next == Environment \/ Engine \/ Faulty

Spec == Init /\ [][Next]_vars
-----------------------------------------------------------------------------
(* Properties                                                              *)

Log == INSTANCE AlertLog WITH Size <- Cardinality

TypeOK ==
    /\ now \in Nat /\ due \in Nat /\ start \in Nat
    /\ events \subseteq Event /\ IsFiniteSet(events)
    /\ ingest \subseteq Event /\ IsFiniteSet(ingest)
    /\ rules \in [Tenants -> Config \cup {NoRule}]
    /\ alerts \subseteq Alert /\ rows \subseteq Alert /\ nextId \in Nat \ {0}
    /\ pc \in Running \cup {"sleep", "down"} /\ conn \in {"ok", "lost"}
    /\ todo \subseteq Tenants /\ cur \in Tenants \cup {NoTenant}
    /\ rule \in Config \cup {NoRule}
    /\ cands \subseteq [src : Srcs, count : Nat]
    /\ delivered \subseteq Nat
    /\ past \in [Tenants -> SUBSET [rule : Config \cup {NoRule}, until : Nat]]
    /\ scanned \in [Tenants -> Nat] /\ missed \in [Tenants -> Nat]
    /\ since \in Nat /\ faults \in [AllFaults -> Nat]

(***************************************************************************)
(* Two committed alerts for one tenant and source are at least the later   *)
(* one's cooldown apart, whatever crashes, rollbacks and rule changes      *)
(* happened between them (engine.py, PAST_COOLDOWN_SQL; decision #38).     *)
(***************************************************************************)
Apart(a, b) == a.at + b.rule.cooldown <= b.at
CooldownRespected ==
    \A a, b \in alerts :
        a # b /\ a.tenant = b.tenant /\ a.src = b.src => Apart(a, b) \/ Apart(b, a)

(***************************************************************************)
(* What holds between the statements of evaluate_tenant: the transaction   *)
(* is open exactly while the loop stands inside it; what it has read stays *)
(* justified by what is committed; and its rows, of one time and rule,     *)
(* name each source once and respect the cooldown to what is committed, so *)
(* that the COMMIT is safe whenever it comes.                              *)
(***************************************************************************)
Supported(t, s, from, count, r) ==
    r.threshold <= count /\ count <= Cardinality(Log!Matching(events, t, s, from))

TxOpen == cur \in Tenants <=> pc \in {"rule", "detect", "cands", "webhook", "mark"}

TxIdle == cur = NoTenant \/ pc \in {"rule", "detect"} => rows = {} /\ cands = {}

TxRule == pc \in {"detect", "cands", "webhook", "mark"} => rule \in Config /\ rule.enabled

TxCands ==
    \A c \in cands :
        /\ Supported(cur, c.src, start - rule.window, c.count, rule)
        /\ \A d \in cands : c.src = d.src => c = d
        /\ \A a \in rows : c.src # a.src

TxRows ==
    \A a \in rows :
        /\ a.tenant = cur /\ a.at = start /\ a.rule = rule
        /\ Supported(cur, a.src, start - rule.window, a.count, rule)
        /\ \A b \in rows : a.src = b.src => a = b
        /\ \A b \in alerts : a.tenant = b.tenant /\ a.src = b.src => Apart(b, a)

TxInv == TxOpen /\ TxIdle /\ TxRule /\ TxCands /\ TxRows /\ start <= now

(***************************************************************************)
(* An alert is fired on a rule that was switched on and in force at some   *)
(* moment since its triggered_at: never on one replaced before the         *)
(* evaluation began, however the PATCH interleaves with the tick.          *)
(***************************************************************************)
RuleInForce ==
    \A a \in alerts :
        /\ a.rule.enabled
        /\ \/ rules[a.tenant] = a.rule
           \/ \E p \in past[a.tenant] : p.rule = a.rule /\ p.until >= a.at

(***************************************************************************)
(* webhook_sent_at is a receipt: only alerts the receiver got carry it, and*)
(* no two committed alerts share the id the receiver was told.             *)
(***************************************************************************)
ReceiptsHonest ==
    /\ \A a \in alerts : a.sent => a.id \in delivered
    /\ \A a, b \in alerts : a.id = b.id => a = b

(***************************************************************************)
(* The engine implements the abstract log of alerts: a tenant evaluation   *)
(* of many statements, webhooks and failures takes effect atomically, on   *)
(* enough stored events of that tenant, or not at all.                     *)
(***************************************************************************)
ImplementsAlertLog == Log!Spec

(***************************************************************************)
(* The longest time between the beginnings of two evaluations of a tenant: *)
(* the rest of one tick, the sleep, and the next tick up to the tenant.    *)
(***************************************************************************)
ScanGap == 2 * TickBudget + Interval

Later(a, b) == IF a <= b THEN b ELSE a

\* When tenant t is to be evaluated next: within one gap of its last
\* evaluation or of the process's start, and one more for each fault since.
Deadline(t) == Later(scanned[t], since) + ScanGap * (1 + missed[t])

Connected == pc # "down" /\ conn = "ok"

(***************************************************************************)
(* "re-evaluating every known tenant on a fixed interval" (engine.py:9-13),*)
(* through failing statements, kills and restarts: whenever the engine has *)
(* its connection, each tenant was evaluated by its deadline, and a fault  *)
(* of another tenant has moved nothing.                                    *)
(***************************************************************************)
ScannedInTime == Connected => \A t \in Tenants : now <= Deadline(t)

\* As documented: "will retry next tick" (engine.py:204), whatever failed.
RetriedNextTick == pc # "down" => \A t \in Tenants : now <= Deadline(t)

(***************************************************************************)
(* A burst: at least threshold failed logins of one source, from f to l.   *)
(* An evaluation counts all of it if it begins once the rows of l's time   *)
(* are committed and l has the process up, and while f is in the window.   *)
(* If the rule has been what it is since then, and one evaluation was due  *)
(* in between, the burst has an alert or falls into the cooldown of one.   *)
(***************************************************************************)
BurstsWithin(margin) ==
    Connected => \A t \in Tenants, s \in Srcs : Enabled(rules[t]) =>
        LET r == rules[t] IN
        \A f, l \in events :
            LET burst    == {e \in Hits(t, s, f.at) : e.at <= l.at}
                complete == l.at + IngestLag
                ready    == Later(complete, since)
            IN  /\ f \in burst /\ l \in burst /\ Cardinality(burst) >= r.threshold
                /\ \A p \in past[t] : p.until <= complete
                /\ ready + margin <= f.at + r.window
                /\ now > ready + ScanGap * (1 + Lapses)
                => \E a \in alerts : a.tenant = t /\ a.src = s
                                     /\ a.at > complete - r.cooldown

\* Detection is certain if the burst stays in the window for one scan gap,
\* and one more for every lapse: no evaluation, rule change or restart
\* steps over it.
BurstDetected == BurstsWithin(ScanGap * (1 + Lapses))

\* As documented: any threshold failed logins within window_seconds
\* (alerting/README.md:9-10), found one poll later (DECISIONS.md:1085).
WindowBurstDetected == BurstsWithin(0)

(***************************************************************************)
(* "the alert row itself is already durably stored" (webhook.py:25-26): an *)
(* alert whose webhook was delivered is stored, or its transaction is open.*)
(***************************************************************************)
NoPhantomWebhook == delivered \subseteq {a.id : a \in alerts \cup rows}
=============================================================================
