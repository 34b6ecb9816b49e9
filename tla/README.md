# Formal verification of the log management system

TLA+ models of this repository's concurrent parts, the TLC runs that check
them on small instances, and TLAPS proofs of what matters most for every
instance. `PROJECT.json` maps each definition to the lines it models, lists the
runs, the deliberately broken variants ("mutants") each property catches, the
findings, the hazards and the theorems.

    tlc -workers 2 -config AlertSafety.cfg MCAlertEngine.tla     # a run
    tlapm AlertEngineProofs.tla                                  # the proofs

## The system

Devices send logs; the system normalizes them into one table, `events`, shared
by all tenants and separated by PostgreSQL row-level security; users search it;
an engine raises alerts on it.

| Component | State it keeps | Operations | Talks to |
|---|---|---|---|
| Syslog listener (`ingest/syslog_server.py`) | bounded `asyncio.Queue`, one task per TCP connection, a writer task, one DB connection | datagram, line, put/get, write, writer's death | devices; `events` |
| Ingest writes (`ingest/db.py`) | one transaction per event | BEGIN, `set_config`, INSERT, COMMIT | listener, batch loader, `POST /ingest` |
| Batch loader (`ingest/batch_loader.py`) | file position | load, resolve tenant, rebase, write each | `events` |
| Normalizers, parsers, times (`ingest/normalizers`, `syslog_parser.py`, `timeutil.py`) | none | pure conversions with a fallback | ingest paths |
| Partition maintenance (`db/init/02..04`, `make partitions`) | daily partitions, their policies, `events_default` | route a row, create the window, drop expired | `events`; run by hand or cron |
| Alert engine (`alerting/engine.py`, `webhook.py`) | one connection, the open transaction, the tick's tenants | discover, select rule, detect, cooldown, insert, webhook, mark, commit | `users`, `alert_rules`, `events`, `alerts`; webhook receiver |
| Backend pool and tenant scope (`backend/db.py`) | connections, `app.tenant` on each, waiters | take, scope, commit or roll back, give back | every API |
| APIs (`backend/routers`) | none outside the pool | ingest, search, stats, alerts, alert rules, login, health | pool |
| Authentication (`security.py`, `deps.py`) | none: a signed token | issue, verify, require role | APIs |
| Accounts (`create_user.py`, `db/init/05`) | the `users` table | create, refuse a taken name | login, engine |
| Sample client (`samples/post_logs.py`) | token, position in its samples | log in, post each, print each outcome | login, `POST /ingest` |
| Frontend (`frontend/src`) | token, claims, page results, rule form | login, logout, search, page, edit rule | APIs |
| Configuration, deployment (`config.py`, `docker-compose.yml`) | environment | validate, restart | all |

What is hard here: four independent writers and readers meet only in the
database. The engine and the listener each live on one connection that is made
once. Everything between two `await`s can interleave; commits can run without
being heard of; the tenant of a pooled connection is session state; partitions
depend on a call nobody schedules and on timestamps that devices choose; the
browser's requests overtake each other.

What makes each component correct, in one line each:

- listener: bounded memory, no lost wakeup, TCP lines only given up by failed
  writes, per-sender order, at most once;
- engine: cooldown between alerts, alerts only on stored events under a rule in
  force, atomic evaluations, every tenant scanned in time, bursts found;
- pool: a request sees and writes its own tenant only, connections are
  exclusive and blank when handed over, every request is answered, an
  acknowledged event is read;
- partitions: rows are where routing says, every table has its policy, the
  lookahead covers today, retention takes what is too old and nothing else;
- batch loader: what is stored is a prefix of the file under the records' own
  tenants, the report counts it, and a rebased sample lands in daily partitions;
- accounts, tokens and clients: what is stored goes back to an administrator's
  login, and what the client prints of a sample is true;
- search: pages miss or repeat an event only where OFFSET must;
- frontend: what is shown belongs to the session and the query on screen;
- pure code: an event that no normalizer takes falls back, severities stay in the
  table's range, an RFC3164 time gets its year.

## Modules

| Module | What it is |
|---|---|
| `AlertLog` | abstract: a log of alerts that grows by atomic, justified evaluations |
| `AlertEngine` | the engine, statement by statement, with its environment and faults |
| `AlertEngineProofs` | all its untimed safety properties and the refinement of `AlertLog` |
| `AlertTimingProofs` | the two timed ones: `ScannedInTime` and `BurstDetected`, through every fault |
| `IngestLog` | abstract: a table that grows in order, each message at most once |
| `SyslogServer` | the listener, its tasks and its queue's futures |
| `SyslogServerProofs` | its safety properties and the refinement of `IngestLog` |
| `Partitions` | routing and maintenance of the daily partitions |
| `PartitionsProofs` | all five of its properties |
| `EventTimes` | calendar and the year of an RFC3164 time; pure |
| `Normalizers` | the dispatcher, the seven normalizers, the fallback; pure |
| `Ingestion` | composition: `Partitions`, both of these, the batch loader, lines and POSTs |
| `IngestionProofs` | the table under ingestion, the loader, the visible seed, the calendar and the year of a line |
| `TenantStores` | abstract: one independent store per tenant |
| `TenantPool` | the backend's requests over pooled connections |
| `TenantPoolProofs` | its safety properties and the refinement of `TenantStores` |
| `Api` | accounts, tokens, the posting client, the reader's pages |
| `ApiProofs` | all four of its properties |
| `Frontend` | one browser tab: the session and the pages that fetch |
| `FrontendProofs` | the four invariants of its run |
| `MC...` | small instances for TLC |

### AlertEngine

A step is what runs between two awaits. `pc` names the next statement:
`discover` (`discover_tenants`), `tenants` (the loop of `run_once`), `rule`,
`detect`, `cands` (the candidate loop of `evaluate_tenant`: `SkipCandidate`,
`FireCandidate`, and `CommitTx` once it is empty), `webhook` and `mark`, `sleep`,
`down`. `cur`, `start`, `rule`, `cands`, `rows` are the open transaction: `start`
is its `now()`, `rows` the alerts it has inserted and not committed. Isolation is
READ COMMITTED, as in the code: each statement sees what is committed then plus
its own rows. `ingest` holds rows whose transaction is still open; their time is
that transaction's beginning, so they can appear late. `SetRule` is POST or PATCH
of the API, at any moment.

Faults: a statement raises (`StatementFails`: that tenant's turn is lost, the
next one goes on), discovery raises, the connection is lost (in COMMIT, with
both outcomes), the process is killed and restarted. `faults` counts each kind.
The webhook is answered, unanswered after it arrived, or not delivered. `since`
(when the running process began), `scanned`, `missed`, `past` and `delivered` are
history for the properties: a tenant's `Deadline` is one scan gap after its last
evaluation or the process's start, whichever is later, and a gap more for every
fault since that cost it a turn; `Lapses` counts the statements and discoveries that
raised.

The candidates of one evaluation are modelled as a set, since SQL fixes no
order, and tenants are taken in any order: `SELECT DISTINCT` promises none.

### SyslogServer

`queue`, `putters` and `tcp[c] \in {"reading", "waiting", "woken", "closed"}`
are asyncio's queue with the future each blocked `put` waits on. A woken putter
runs later than the `get` that woke it: a datagram or another connection may take
the slot first, and the `while self.full()` of `put` sends it back to wait. A
line is "text", "empty", "long" (breaks `readline`) or "rejected" (the database
refuses its event: it holds a NUL byte, or an event text too long for its index). The database can die between two writes or
after a COMMIT whose answer is lost; the writer task can be cancelled.

### Partitions

Days are integers. `Insert(d)` routes a row of any day within `MaxSkew` of
today, because the sender chooses `event_time`. `MakePartitions` is both
functions in the single transaction of `make partitions`; `MakePartitionsFails`
is the call that `CREATE TABLE ... PARTITION OF` aborts because
`events_default` holds a row of the range. `NewDay` may happen without any call.
Assumptions: the daily seed and every later call use one window (the functions'
defaults, which `.env.example` repeats), and `DaysBack <= RetainDays`.

### EventTimes, Normalizers, Ingestion

`EventTimes` counts ticks from the start of year 0 and has leap years. `Stamp` is
what a line says of its time (`Mon DD HH:MM:SS`), `InYear` is `strptime` with
`replace(year=...)`, `NoTime` the ValueError, and `ParseRfc3164` the function of
`timeutil.py`. Its reference, `YearInferred`, says for every instant a device can
have meant what the receiver must make of it: up to `Tolerance` (five minutes) ahead of
its clock, less than a year less that behind, and not past its own New Year. A line that
a fast clock stamps `Jan 1` before the receiver's New Year is outside of that, because the
code tries it in the receiver's year and stores it a year back.

`Normalizers` is the table of `normalizers/__init__.py`: for each normalizer the
form it reads, the keys it indexes (absent ones raise) and the keys it hands on to
the event model, whose conversion of a "bad" value raises. `Recognised` is "does
not raise", `Normalize` falls back otherwise. Of the columns that keys fill, two are
told apart: `event_type` and `user` stand in B-tree indexes, so a "long" text bound for
them (`LongIndexed`) is one no index entry has room for; a fallback leaves them alone.
`unfit` is what `json.load` and `Jsonb` let through and jsonb refuses: a NUL, a lone
surrogate, `NaN`, an infinity (`1e400` is read as one). It goes to `raw` with a recognised
event and with a fallback alike. `Refused` of `Ingestion` is these two with the
table's constraints.

`Ingestion` EXTENDS `Partitions`, whose actions it uses unchanged, and gives each
way in. The loader is a process: `Read` (the whole file is resolved and normalized
first, so a source that cannot be hashed ends the run with nothing stored),
`Rebase`, one `Write` or `WriteRefused` per event in file order, `Report`, and
`Kill` at any point; `events` is its list, `written` what it has committed of the
present load. `Post` and `SyslogLine` are single steps here, since their queue and
pool are modelled elsewhere; `HandleMessage` and `ParseSyslogLine` are
`syslog_server.py`'s and `syslog_parser.py`'s. `Clock`, `Maintain` and the other
writers run between any two steps of the loader.

### Api

`users` and `CreateUser` are `create_user.py` under the table's constraints, with
an INSERT whose acknowledgement is lost. `LoginAnswer`, `TokenOf`, `Status` are
`login`, `create_access_token` and `require_role`. `post_logs.py` is `PostLogin`,
`Send`, `Unreachable`, `Dies` (a timeout, which is no `URLError` and ends the
script); the backend goes on with what it has: `Admit` checks token and role once,
before the request waits for its connection, `Store` and `StoreFails` come later.
A COMMIT may be answered with 500 or with nothing. `GET /search` is `Newest` (ties
in any order), `Fetch` (`LIMIT limit + 1 OFFSET offset`), `Page`; a reader walks
from `Search` through `NextPage` while `Arrive` and `Retire` change the table.
`journal`, `base`, `shown`, `twice`, `came` and `gone` are history.

### TenantPool

A request is `new`, `waiting` for a connection, `held`, `scoped` (BEGIN and
`set_config` done), `inserted` (`POST /ingest` before COMMIT), `ran`, and then
replied to and given back, in either order: FastAPI 0.106 to 0.117 run the exit of
a `yield` dependency before the reply is sent, 0.118 and later after it, and
`requirements.txt` asks for 0.110 or later. For the reads and for `POST /ingest`
the order changes nothing, which the run shows; the alert-rule writes commit in
that exit, so with the later versions a 201 can precede its COMMIT.
`setting[c]` is `app.tenant` on connection `c`; `SettingEnds`, part of every end
of a transaction, blanks it. The pool is a FIFO of connections, as psycopg_pool's. Connections are
lost silently (`Break`) or during COMMIT; the pool discards a connection on which
a statement failed and replaces it.

### Frontend

`token`, `claims` and `loading` are AuthContext's state (`sessionStorage` and the
token state change together); `page` is the route, "blank" while `ProtectedRoute`
renders nothing; `view` is the mounted page's state: the filters or range chosen,
the result shown, `busy` and `failed`. `flight` holds the requests without an
answer. A request carries the token read when it was sent, and `live`, which a
page's unmounting or the dashboard's `cancelled` flag takes away (`Detached`). A login in
flight is live while the `LoginPage` that sent it is mounted, since its `submitting` is
state of that mount: `BackToLogin` is the browser's Back from /login, which
`ProtectedRoute` turns into a new `LoginPage` that can send another. The abandoned
login still runs to its `setToken` (`LoginAccepted`), on the login page or under the pages
that another one opened. `opened` (the session with which the login page was left) and
`rivalled` (whether another login was in flight then) are history for `ShownIsOwn`.
`Unauthorized` may answer any request, of whatever session, and runs `logout`, as
the handler registered in `api/client.js` does. A reload forgets what is in flight.
The search page has no flag: its older answers still land, as in the code.

## Runs

| Run | Expect | What it asks |
|---|---|---|
| `AlertSafety` | pass | cooldown, transaction invariant, rule in force, receipts, refinement of `AlertLog`; all faults, one PATCH, webhook on |
| `AlertTiming` | pass | `ScannedInTime`, `BurstDetected`; two tenants, slow ticks, late commits, any one fault, restarts included |
| `AlertSampling` | violation | bursts as wide as the window, as documented |
| `AlertReconnect` | violation | `RetriedNextTick`: a running process meets its deadlines, as documented |
| `AlertWebhook` | violation | webhooks only for stored alerts, as documented |
| `Syslog` | pass | bound, wakeups, backpressure, refinement of `IngestLog`, every line settles; every kind of line and fault |
| `Partitions` | pass | over `MCIngestion`: routing, policies, lookahead, retention, a load's prefix, its report, the visible seed, the year of a line |
| `PartitionsBlocked` | violation | maintenance is safe to call repeatedly, as documented |
| `Api` | pass | stored events go back to an administrator's login, the client's report is true, pages are complete and repeat only with reason |
| `TenantPool` | pass | isolation, blank hand-over, exclusive use, read-your-ack, one rule, no circular wait, refinement of `TenantStores`, every request answered |
| `Frontend` | pass | own rows only, a current dashboard, no endless "Loading" |
| `FrontendClaims` | violation | the claims shown are the session's, as documented |

Bounds, and why they are enough:

- AlertEngine: two events reach a threshold of one twice and a threshold of two
  once; two sources distinguish grouping; cooldowns {1, 2} with one PATCH let a
  cooldown shrink between two alerts; clock values 0 to 2 hold three ticks and a
  cooldown. `AlertTiming` runs seven units: a window of 5, gap 3, so a burst, the
  scan that finds it and the deadline after a fault or a restart all fit: a process
  that comes up at 2 still has to find a burst of time 0. One fault and no PATCH keep
  it to four million states; more of them, in any order, is what the proof is for, and so
  is the extra gap per lapse, which a window of 5 hardly leaves room for.
  `TickBudget` and
  `IngestLag` bound how long a tick and an ingest transaction may take; the
  properties are stated in terms of them.
- SyslogServer: a queue of one makes every put contend; two connections and the
  datagram sender are the fewest with which a woken putter can lose its slot to
  either kind.
- Partitions: window [-1, +2], retention 2, skew 3, days 0 to 4: rows before, in
  and beyond the window, skipped maintenance longer than the lookahead, days that
  expire. `PartitionsBlocked` has the same window without the loader. Two ticks
  make a day, three days a year, and every second year has a day more, so a run
  meets New Year, a leap day and the year without one. Lines are up to 5 ticks
  late and 2 early (`Tolerance` is 1: within it and beyond). The eleven loads of
  `MCIngestion` are one per way through `main`: rebased and recognised, tenant and
  source from the command line, a `--tenant` that the table refuses, a skipped record
  before one that jsonb refuses, an unrecognised long text that is stored before a
  record's own refused tenant, something unfit in a fallback, a recognised long text after
  a good record, a source that cannot be hashed, a time without a zone, a value that falls
  back, no record with a tenant. With `MaxRows = 2` rows present no new load, line
  or POST begins; a load in progress goes on.
- Api: the budgets in `MCBudgets`, of which an instance has one, chosen at the
  start, give three account commands with a posting run and three units of time; a
  rerun of the client; a walk with four arrivals and two retirements; a walk that
  outlives its token; and a little of everything. A page has one row and a token
  lasts two units, so two pages, ties and an expiry in the middle all occur.
- TenantPool: three requests over two connections give a waiter, a direct
  hand-over and a reused connection; two tenants; one lost connection. `Mix` in
  `MCTenantPool` says which kinds each request may be of.
- Frontend: three sessions, so that one's answers can arrive in the other, and two
  logins can overlap after a first session or before a third; two queries; eight requests,
  of which a login takes three: one session's page and claims under way while the next
  logs in and opens a page, or while an overlapping login replaces the token.

Deadlock is checked in the `Partitions` runs, where a call or an insert is always
possible. Elsewhere it is off: the engine's clock is bounded, devices and the
tab send a bounded number of messages, each request arrives once and a budget of
`Api` is spent, so those instances do stop. Symmetry is used where only invariants and
safety are checked, over values that no definition singles out: the sources of
`AlertSafety`, the tenants of `AlertTiming`.

### Fairness

The event loop runs every callback that is ready: weak fairness of each handler
and of the writer. In `TenantPool` it is that of `Proceed`, the handler without
`Refuse`: what a request is refused for is settled by its input, and a request that
waits for a lock may not count on it. The pool's background worker is fair too, and
keeps replacing lost connections. Nothing is assumed of the network, of clients or of
faults, and no timeout is fair: `EveryRequestAnswered` holds without
`PoolTimeout`. `Frontend` is checked without fairness: an answer may never come.
Requests cannot wait for each other in a cycle, because each locks
one row at most: `NoWaitCycle`, an invariant and proved. Both liveness properties have the form
`[]<>(everything taken so far is settled)`: requests and lines keep arriving, so
this asks that the system catches up again and again. `EveryLineSettles` holds
because an instance sends finitely many datagrams; an endless stream of them may
take every slot that a woken putter was promised. Timing of the engine is a safety property over an explicit clock
(`ScannedInTime`, `BurstDetected`), not fairness.

### What the violations show

1. *A phantom webhook* (`AlertWebhook`): it is sent inside the transaction; a kill
   before COMMIT leaves the receiver with an alert that is not stored, which
   `webhook.py` and `engine.py` say cannot be.
2. *A missed burst* (`AlertSampling`): a window that slides is sampled at ticks,
   so threshold events almost a whole window apart may never be in one sample.
   `BurstDetected` says when detection is certain: the burst stays in the window for
   a scan gap, and one more per lapse, after it is complete (the ingest lag) and the
   process is up.
3. *No reconnect* (`AlertReconnect`): the engine connects once; afterwards "will
   retry next tick" retries a dead connection for ever. `RetriedNextTick` is
   `ScannedInTime` without its condition `Connected`.
4. *Blocked maintenance* (`PartitionsBlocked`): a row ahead of the lookahead blocks
   its day's partition, and with it the whole call, when that day comes.
5. *Stale claims* (`FrontendClaims`): `setClaims` takes the answer to GET /auth/me
   whenever it comes, after a logout or over the next user's session.

Two more disagreements show in the passing runs, whose models have them. A NUL byte,
`NaN` or a lone surrogate passes the normalizer's fallback and is refused by the database,
and so is a recognised event whose type or user is too long for the index, so an input
*is* dropped, against `ingest/README.md:14` (`SyslogServer`'s "rejected" lines,
`Refused` of `Ingestion`). And `normalize` looks its hint up outside the `try`: a
`source` that is a list or an object raises instead of falling back, which is a 500
of `POST /ingest` and ends a load (`Unhashable`).

One thing the `Frontend` run shows that no line of the repository denies: when two logins
overlap, the second answer puts its token under the pages that the first one opened, and
the rows on screen stay those of the first session until the pages fetch again.
`ShownIsOwn` states how far this goes: only with such an overlap, only over sessions since
the pages were opened, and never over the end of a session.

## Proofs

`AlertEngineProofs`, from `RuleAssumption` and `BoundAssumption` alone, for any
sets of tenants and sources and any bounds. The inductive invariant is
`IInv == TypeOK /\ TxInv /\ CooldownRespected`. The cooldown by itself is not
inductive: `CommitTx` adds rows that were checked earlier, so what was checked must
be kept as an invariant while candidates remain. `TxInv` says that the
transaction's rows share its time and rule, name each source once (a second
candidate of the same source would break the cooldown with the first) and are
`Apart` from every committed alert, and that candidates not yet looked at name
other sources. One step per action; the actions that touch neither alerts nor the
transaction go together. Refinement (`Refinement`: the specification implements
`AlertLog`) uses `IInv`: every committing step adds alerts that `AlertLog` allows,
every other step stutters there or stores an event. Cardinality facts come from
`FiniteSetTheorems`; a candidate's count stays supported since committed events
only grow.

`AlertTimingProofs`, from the same assumptions and for every fault of the model,
proves the two timed properties. Neither has a hypothesis on faults: both speak of the
states in which the engine runs with its connection, since one that is lost is never
reopened. `TurnInv` gives each tenant an allowance, `Base`: its last evaluation or the
process's start, whichever is later, plus a scan gap for every fault that cost it a
turn. What is due next is never later than `Base` plus `Slack`, which depends on where
the tenant stands in the round: ahead of it a whole gap, behind it a tick, asleep a tick
and a sleep. Each step of the tick moves a tenant from one to the next, a lapse charges
exactly those that lose a turn, and a restart begins a new allowance; at the end of each
the deadline follows. For bursts, `TxFinds` says what the open transaction owes (a
candidate, or an alert within the cooldown) to a burst that was complete when it began,
and `NoneMissed` that once an evaluation has committed after the burst was complete, its
alert is there, provided the rule has been the same since (`RuleKept`). With `TurnInv`
that evaluation has happened by the deadline. Products such as gap times lapses stay
folded, as the solver is linear.

`PartitionsProofs`, from `PartitionAssumption`. The inductive invariant is
`PInv == TypeOK /\ RowsRouted /\ TablesProtected /\ Window`, where `Window` says
that the partitions of the last maintenance's window still exist. `TodayCovered` is
not inductive, as days pass without a call; it follows from `Window` and
`DaysBack <= RetainDays`. `RetentionExact` is an action property proved from `PInv`:
a row that goes was in an expired partition, and `RowsRouted` makes its day the
partition's.

`FrontendProofs`, from `FrontendAssumption`. The inductive invariant `FInv` is the
three others of the run with `SessionFits` (the login page is shown, empty, exactly when
there is no session; a login in flight beside a page was in flight when the pages were
opened; without such a rival the token is the one they were opened with), `OwnInv` (what is
on screen or may come to it is of a session between the opening and now) and
`LiveFitsPage` (a live request of a page is of the page on screen, and on the dashboard of
the chosen range). `ShownIsOwn` follows from the first two: a session begins while other
requests, logins among them, are in flight, and only the end of a session empties the
screen for certain. `DashboardIsCurrent` needs the third.

`SyslogServerProofs`, from `SyslogAssumption`. The inductive invariant is `SInv ==
TypeOK /\ WakeInv /\ FlowInv /\ OrderInv`. `NoLostWakeup` counts woken putters
against free slots, and a cancelled wait or a stolen slot changes both, so `WakeInv`
adds that each connection is queued once and that the counted sets are finite.
`FlowInv` ties the writer's `item` to its state and contains `Backpressure`.
`OrderInv` says that each sender's messages are in order along the way: stored, in
the writer's hand, queued, held by a blocked put, still in the socket. The
refinement of `IngestLog` follows from it: what is appended was sent by its sender
after everything of that sender that the table holds.

`TenantPoolProofs`, from `PoolAssumption`, for any requests, connections and
tenants. The inductive invariant `PoolInv` has one part per question. `HoldInv`
(with `Exclusive`): a request has a connection exactly in the phases that hold
one, and each waiter is queued once. `FreshInv`: a lost connection has lost its
transaction too, which is why a waiter may be handed what a failed request left.
`RowInv`: a scoped connection carries its request's tenant, an uncommitted row is of
the request that holds the connection, and each request's row is committed once;
`OwnRowsOnly` follows, and needs it, because a PATCH names another tenant's rule
and only the setting keeps it away. `SeenInv`, `AckInv` and `RuleInv` add what the
client was told: an acknowledged event is stored, an open rule of a tenant is on
one connection only, and a creation still finds no rule when it commits. `LeakInv`
accounts for every connection (idle, used, or lost and to be replaced) and for every
waiter (in the queue); `NoWaitCycle` follows, as an idle connection leaves nobody
waiting, and as `RowInv` says that who holds a rule's lock has already written it and so
waits for no other. The
refinement maps every commit to one write of `TenantStores` or to a stutter.

`IngestionProofs`, from the assumptions of `Partitions`, `EventTimes` and
`Ingestion`, for every calendar, file and payload. Its steps change the table only
as those of `Partitions` do, so `PInv` of `PartitionsProofs` carries over and gives
`RowsRouted` and `RetentionExact` of the composition. `LoadPrefix` needs an
invariant of the loader: its list has exactly the kept records while it runs, each
with its own tenant, and what is written has no gap before it. `SeedIsVisible`
adds `ShiftInv`: after the shift every event is as far from it as its record is
from the earliest. `LoadReported` adds that no index is written twice, so that the rows
and the kept records correspond one to one, and that whatever the table refuses in an
event was in its record: no normalizer's severity leaves the column's range, and a
fallback sends no long text to an index. With the order of the loop, a load that the
database stops has stored exactly the kept records before the one at fault. `LinesDatedRight` is arithmetic: the first
days of the years of a leap cycle are computed and grow, so each instant lies in one
year, and a stamp read in its own year gives the instant back. Read in the next, it is a
year later at least, beyond `now` and its `Tolerance` for every instant that a device can
have meant, so that the comparison in `parse_rfc3164` sends it back where it belongs; or
it is a 29th of February that the next year lacks, which is the exception
`YearInferred` states. Division enters through one lemma on quotients.

`ApiProofs`, from `ApiAssumption`. `ApiInv == TableInv /\ WalkInv /\ PostInv`.
`PostInv` ties every request, answer and journal entry to its run, so that an answer
that comes after the client died changes no report. `WalkInv` says where the rows
stand between two pages: a row whose time is its own has a rank, the number of newer
rows in range; unless a newer one came, what was shown ranks before the next page,
and unless a newer one went, what was not shown ranks on it or after it. From that,
`PagesComplete` and `RepeatsExplained` for any page size.

Every safety property that a passing run checks is proved for all constants.
Only model-checked is liveness (`EveryLineSettles`, `EveryRequestAnswered`), which
needs fairness and ENABLED: for these the proofs give the part that is an invariant,
`NeverStuck` (from `NoLostWakeup`: while a line is unsettled and the writer lives, some
task has a step that moves a line on) and `NoWaitCycle`.

## Not modelled

- `GET /stats`: two aggregations, each one SELECT without state; the time buckets
  are `date_bin`'s. The filters of `/search` other than the range, and of `/alerts`:
  conditions of one query.
- The alert-rule form of `AlertsPage`: it sends the four values it loaded. `SetRule`
  of `AlertEngine` takes every rule such a save can leave.
- `/health`'s own 503: its SELECT is a step of `TenantPool`, its wording is not.
- Input on which the loader ends before it writes: a file that is no JSON, a record that
  is no object, a tenant that is no text or has a lone surrogate (the fallback's own event
  model raises). Each ends the run where `Read` ends it for a source that cannot be hashed.
- The browser's history is not kept. `BackToLogin` may always happen on /login, as if an
  entry of a page stood beside it: the model has more behaviours than a tab, not fewer.
- Which column a key of a payload fills beyond the two that are indexed by text, the regular expressions of
  `syslog_parser.py` and the response models of `schemas.py`: data, without control.
- bcrypt and the JWT's signature (libraries, taken as perfect); settings and their
  validation; grants and roles of `01_roles.sh`.
- CSS, nginx and container files, sample data, SQL plans and indexes.

## Plan

What remains worth doing: the engine over `Ingestion`, so that an event acknowledged
to its sender is one the engine counts in its window. `AlertEngine` has the late commits
already; the composition needs days and ticks on one clock.
