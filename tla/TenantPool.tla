------------------------------ MODULE TenantPool ------------------------------
(***************************************************************************)
(* The backend's requests over its connection pool: src/backend/db.py with *)
(* the handlers that use it (routers/ingest.py, routers/alert_rules.py,    *)
(* routers/search.py, routers/auth.py) and the write of src/ingest/db.py.  *)
(*                                                                         *)
(* A connection carries app.tenant, which row-level security compares with *)
(* every row (02_schema.sql, 06_alerts_schema.sql).  set_config(...,true)  *)
(* lasts until the transaction ends; tenant requests hold theirs until the *)
(* dependency's exit, which FastAPI runs before the reply is sent or after *)
(* it, by version (requirements.txt: >=0.110): both orders are here.       *)
(*                                                                         *)
(* External, modelled from how the code uses them: the pool's hand-over    *)
(* (psycopg_pool), transactions, row locks and RLS (PostgreSQL).           *)
(*                                                                         *)
(* Abstracted: a row is its table, tenant and the request that wrote it;   *)
(* the NULL and '' an unset app.tenant reads as are both Blank, since      *)
(* neither equals a tenant; statements that nothing can interleave with    *)
(* (BEGIN, set_config) are one step.                                       *)
(***************************************************************************)
EXTENDS Naturals, Sequences, SequencesExt

CONSTANTS NReqs, NConns, Tenants,
          Kinds,         \* request -> what it may be, of AllKinds
          Blank,
          MaxBreaks      \* bound: connections lost

AllKinds == {"read", "create", "patch", "ingest", "login"}

ASSUME PoolAssumption ==
    /\ NReqs \in Nat /\ NConns \in Nat \ {0}
    /\ \A r \in 1..NReqs : Kinds[r] \subseteq AllKinds
    /\ Blank \notin Tenants
    /\ MaxBreaks \in Nat

\* Requests are numbered as they arrive.
Reqs == 1..NReqs
Conns == 1..NConns
NoConn == 0

VARIABLES
    phase,     \* how far each request is
    job,       \* [kind, tenant (the claims'), target (whose rule is patched)]
    conn,      \* the connection a request holds
    reply,     \* the answer the client has, or "none"
    seen,      \* rows a read returned
    before,    \* events acknowledged when the request arrived
    waiting,   \* requests queued for a connection
    pool,      \* idle connections, the longest idle first
    setting,   \* connection -> app.tenant
    open,      \* connection -> inside a transaction
    pending,   \* connection -> rows its transaction wrote
    alive,     \* connection -> the server still has it
    store,     \* committed rows [table, tenant, by]
    breaks     \* connections lost so far

client == <<phase, job, conn, reply, seen, before>>
db == <<setting, open, pending, alive, store, breaks>>
vars == <<client, waiting, pool, db>>

NoJob == [kind |-> "none", tenant |-> Blank, target |-> Blank]

Init ==
    /\ phase = [r \in Reqs |-> "new"] /\ job = [r \in Reqs |-> NoJob]
    /\ conn = [r \in Reqs |-> NoConn] /\ reply = [r \in Reqs |-> "none"]
    /\ seen = [r \in Reqs |-> {}] /\ before = [r \in Reqs |-> {}]
    /\ waiting = <<>> /\ pool = [c \in Conns |-> c]
    /\ setting = [c \in Conns |-> Blank] /\ open = [c \in Conns |-> FALSE]
    /\ pending = [c \in Conns |-> {}] /\ alive = [c \in Conns |-> TRUE]
    /\ store = {} /\ breaks = 0

Scoped(r) == job[r].kind \in {"read", "create", "patch"}

\* Mutant: the tables have no tenant_isolation policy.
VisibleNoRLS(c) == store

\* The rows that row-level security shows on a connection.
Visible(c) == {x \in store : x.tenant = setting[c]}

RuleOf(t) == {x \in store : x.table = "rules" /\ x.tenant = t}

\* Another transaction holds the lock of tenant t's rule.
Locked(c, t) ==
    \E d \in Conns \ {c} : \E x \in pending[d] : x.table = "rules" /\ x.tenant = t

\* Committed rows with those of connection c's transaction applied: inserts
\* add a row, an update takes the place of the row it is about.
Committed(c) ==
    {x \in store : \A w \in pending[c] : ~(/\ job[w.by].kind = "patch" /\ x.table = "rules"
                                            /\ x.tenant = w.tenant)}
        \cup pending[c]

\* Events whose POST /ingest was answered with 201.
Acked == {[table |-> "events", tenant |-> job[r].tenant, by |-> r] :
              r \in {q \in Reqs : reply[q] = "ok" /\ job[q].kind = "ingest"}}
-----------------------------------------------------------------------------
(* psycopg_pool                                                            *)

Take(r, c) == conn' = [conn EXCEPT ![r] = c] /\ phase' = [phase EXCEPT ![r] = "held"]

\* getconn: an idle connection, or a place in the queue.
Arrive(r) ==
    /\ phase[r] = "new" /\ \A q \in Reqs : q < r => phase[q] # "new"
    /\ \E k \in Kinds[r], t \in Tenants, u \in Tenants :
           /\ k # "patch" => u = t
           /\ job' = [job EXCEPT ![r] = [kind |-> k, tenant |-> t, target |-> u]]
    /\ before' = [before EXCEPT ![r] = Acked]
    /\ \/ /\ pool # <<>> /\ Take(r, Head(pool)) /\ pool' = Tail(pool)
          /\ UNCHANGED waiting
       \/ /\ pool = <<>> /\ waiting' = Append(waiting, r)
          /\ phase' = [phase EXCEPT ![r] = "waiting"] /\ UNCHANGED <<conn, pool>>
    /\ UNCHANGED <<reply, seen, db>>

\* PoolTimeout reaches the client as a 500.
PoolTimeout(r) ==
    /\ phase[r] = "waiting"
    /\ \E i \in DOMAIN waiting : waiting[i] = r /\ waiting' = RemoveAt(waiting, i)
    /\ phase' = [phase EXCEPT ![r] = "done"] /\ reply' = [reply EXCEPT ![r] = "error"]
    /\ UNCHANGED <<job, conn, seen, before, pool, db>>

\* putconn: a connection on which a statement failed is discarded, any other
\* goes to the first waiter or becomes idle.  Request r, which held c, moves
\* on to phase ph.
GiveBack(r, c, ph, good) ==
    \/ /\ good /\ waiting # <<>>
       /\ waiting' = Tail(waiting)
       /\ conn' = [conn EXCEPT ![r] = NoConn, ![Head(waiting)] = c]
       /\ phase' = [phase EXCEPT ![r] = ph, ![Head(waiting)] = "held"]
       /\ UNCHANGED pool
    \/ /\ ~(good /\ waiting # <<>>)
       /\ pool' = IF good THEN Append(pool, c) ELSE pool
       /\ conn' = [conn EXCEPT ![r] = NoConn]
       /\ phase' = [phase EXCEPT ![r] = ph]
       /\ UNCHANGED waiting

\* A connection that was discarded and not replaced yet.
Discarded(c) == ~alive[c] /\ c \notin ToSet(pool) /\ \A r \in Reqs : conn[r] # c

\* The pool's worker replaces a discarded connection.
Replace(c) ==
    /\ Discarded(c)
    /\ alive' = [alive EXCEPT ![c] = TRUE]
    /\ \/ /\ waiting # <<>> /\ waiting' = Tail(waiting)
          /\ Take(Head(waiting), c) /\ UNCHANGED pool
       \/ /\ waiting = <<>> /\ pool' = Append(pool, c)
          /\ UNCHANGED <<waiting, conn, phase>>
    /\ UNCHANGED <<job, reply, seen, before, setting, open, pending, store, breaks>>
-----------------------------------------------------------------------------
(* PostgreSQL                                                              *)

\* Mutant: set_config(..., false), which lasts as long as the session.
SettingStays(c) == UNCHANGED setting

\* set_config(..., true) is gone with its transaction.
SettingEnds(c) == setting' = [setting EXCEPT ![c] = Blank]

\* The end of a transaction, with what it wrote in store or discarded.
EndTx(c) ==
    /\ open' = [open EXCEPT ![c] = FALSE] /\ pending' = [pending EXCEPT ![c] = {}]
    /\ SettingEnds(c)

\* The server closes a connection, which nobody notices before the next use.
Break(c) ==
    /\ breaks < MaxBreaks /\ alive[c]
    /\ alive' = [alive EXCEPT ![c] = FALSE] /\ breaks' = breaks + 1
    /\ EndTx(c)
    /\ UNCHANGED <<client, waiting, pool, store>>
-----------------------------------------------------------------------------
(* The request, holding c                                                  *)

On(r, c, ph) == conn[r] = c /\ phase[r] = ph

\* Any statement on a lost connection raises: a 500, and the exits run.
StatementFails(r, c) ==
    /\ \/ On(r, c, "held") \/ On(r, c, "scoped") \/ On(r, c, "inserted")
    /\ ~alive[c]
    /\ GiveBack(r, c, "done", FALSE) /\ reply' = [reply EXCEPT ![r] = "error"]
    /\ UNCHANGED <<job, seen, before, db>>

\* Mutant: get_tenant_conn returns the connection and leaves `async with`.
EnterScopeReturns(r, c) ==
    /\ On(r, c, "held") /\ Scoped(r) /\ alive[c]
    /\ open' = [open EXCEPT ![c] = TRUE]
    /\ setting' = [setting EXCEPT ![c] = job[r].tenant]
    /\ phase' = [phase EXCEPT ![r] = "scoped"]
    /\ pool' = Append(pool, c)
    /\ UNCHANGED <<job, conn, reply, seen, before, waiting, pending, alive, store, breaks>>

\* get_tenant_conn: BEGIN and set_config with the claims' tenant.
EnterScope(r, c) ==
    /\ On(r, c, "held") /\ Scoped(r) /\ alive[c]
    /\ open' = [open EXCEPT ![c] = TRUE]
    /\ setting' = [setting EXCEPT ![c] = job[r].tenant]
    /\ phase' = [phase EXCEPT ![r] = "scoped"]
    /\ UNCHANGED <<job, conn, reply, seen, before, waiting, pool, pending, alive, store, breaks>>

\* The SELECT of /search, /stats, GET /alerts and GET /alert-rules.
Read(r, c) ==
    /\ On(r, c, "scoped") /\ job[r].kind = "read" /\ alive[c]
    /\ seen' = [seen EXCEPT ![r] = Visible(c)]
    /\ phase' = [phase EXCEPT ![r] = "ran"]
    /\ UNCHANGED <<job, conn, reply, before, waiting, pool, db>>

WriteRule(r, c, t) ==
    /\ pending' = [pending EXCEPT ![c] = {[table |-> "rules", tenant |-> t, by |-> r]}]
    /\ phase' = [phase EXCEPT ![r] = "ran"]
    /\ UNCHANGED <<job, conn, reply, seen, before, waiting, pool, setting, open, alive,
                   store, breaks>>

\* The client side of the connection is inside a transaction.
InTx(r) ==
    \/ phase[r] \in {"scoped", "inserted"}
    \/ phase[r] \in {"ran", "replied"} /\ job[r].kind # "ingest"

\* Mutant: an exception leaves without putconn.
RaiseKeepsConnection(r, c, answer) ==
    /\ EndTx(c)
    /\ phase' = [phase EXCEPT ![r] = "done"]
    /\ reply' = [reply EXCEPT ![r] = answer]
    /\ UNCHANGED <<job, conn, waiting, pool, seen, before, alive, store, breaks>>

\* An HTTPException leaves through both context managers: rollback, putconn.
Raise(r, c, answer) ==
    /\ EndTx(c) /\ GiveBack(r, c, "done", alive[c] \/ ~InTx(r))
    /\ reply' = [reply EXCEPT ![r] = answer]
    /\ UNCHANGED <<job, seen, before, alive, store, breaks>>

\* Whatever else the handler refuses: a body that does not validate, a wrong
\* password, a row that a constraint rejects.
Refuse(r, c) ==
    /\ \/ On(r, c, "held") \/ On(r, c, "scoped") \/ On(r, c, "inserted")
       \/ On(r, c, "ran") /\ job[r].kind = "login"
    /\ Raise(r, c, "error")

\* Mutant: the check for an existing rule is a SELECT, with no unique index.
CreateRuleUnlocked(r, c) ==
    /\ On(r, c, "scoped") /\ job[r].kind = "create" /\ alive[c]
    /\ RuleOf(job[r].tenant) = {}
    /\ WriteRule(r, c, job[r].tenant)

\* POST /alert-rules: UNIQUE (tenant, rule_type) waits for an open insert of
\* the same key, then refuses a second rule with 409.
CreateRule(r, c) ==
    /\ On(r, c, "scoped") /\ job[r].kind = "create" /\ alive[c]
    /\ ~Locked(c, job[r].tenant)
    /\ RuleOf(job[r].tenant) = {}
    /\ WriteRule(r, c, job[r].tenant)

CreateConflicts(r, c) ==
    /\ On(r, c, "scoped") /\ job[r].kind = "create" /\ alive[c]
    /\ ~Locked(c, job[r].tenant)
    /\ RuleOf(job[r].tenant) # {}
    /\ Raise(r, c, "conflict")

\* Mutant: the UPDATE is not confined to the rows the tenant sees.
PatchRuleNoRLS(r, c) ==
    /\ On(r, c, "scoped") /\ job[r].kind = "patch" /\ alive[c]
    /\ RuleOf(job[r].target) # {}
    /\ ~Locked(c, job[r].target)
    /\ WriteRule(r, c, job[r].target)

\* PATCH /alert-rules/{id}: the id may be that of another tenant's rule.
PatchRule(r, c) ==
    /\ On(r, c, "scoped") /\ job[r].kind = "patch" /\ alive[c]
    /\ RuleOf(job[r].target) \cap Visible(c) # {}
    /\ ~Locked(c, job[r].target)
    /\ WriteRule(r, c, job[r].target)

PatchMissing(r, c) ==
    /\ On(r, c, "scoped") /\ job[r].kind = "patch" /\ alive[c]
    /\ RuleOf(job[r].target) \cap Visible(c) = {}
    /\ Raise(r, c, "missing")

\* Mutant: the row takes its tenant from the session, before it is set.
InsertEventUnscoped(r, c) ==
    /\ On(r, c, "held") /\ job[r].kind = "ingest" /\ alive[c]
    /\ open' = [open EXCEPT ![c] = TRUE]
    /\ setting' = [setting EXCEPT ![c] = job[r].tenant]
    /\ pending' = [pending EXCEPT ![c] = {[table |-> "events", tenant |-> setting[c], by |-> r]}]
    /\ phase' = [phase EXCEPT ![r] = "inserted"]
    /\ UNCHANGED <<job, conn, reply, seen, before, waiting, pool, alive, store, breaks>>

\* write_event_async on a bare connection: BEGIN, set_config, INSERT.
InsertEvent(r, c) ==
    /\ On(r, c, "held") /\ job[r].kind = "ingest" /\ alive[c]
    /\ open' = [open EXCEPT ![c] = TRUE]
    /\ setting' = [setting EXCEPT ![c] = job[r].tenant]
    /\ pending' = [pending EXCEPT
                      ![c] = {[table |-> "events", tenant |-> job[r].tenant, by |-> r]}]
    /\ phase' = [phase EXCEPT ![r] = "inserted"]
    /\ UNCHANGED <<job, conn, reply, seen, before, waiting, pool, alive, store, breaks>>

\* Mutant: the COMMIT is left to the dependency's exit.
CommitEventLate(r, c) ==
    /\ On(r, c, "inserted") /\ alive[c]
    /\ phase' = [phase EXCEPT ![r] = "ran"]
    /\ UNCHANGED <<job, conn, reply, seen, before, waiting, pool, db>>

\* ... and COMMIT, before the handler returns.
CommitEvent(r, c) ==
    /\ On(r, c, "inserted") /\ alive[c]
    /\ store' = Committed(c) /\ EndTx(c)
    /\ phase' = [phase EXCEPT ![r] = "ran"]
    /\ UNCHANGED <<job, conn, reply, seen, before, waiting, pool, alive, breaks>>

\* POST /auth/login and /health: a SELECT outside any tenant's rows.
Login(r, c) ==
    /\ On(r, c, "held") /\ job[r].kind = "login" /\ alive[c]
    /\ open' = [open EXCEPT ![c] = TRUE] /\ phase' = [phase EXCEPT ![r] = "ran"]
    /\ UNCHANGED <<job, conn, reply, seen, before, waiting, pool, setting, pending, alive,
                   store, breaks>>

\* The reply is sent: after the dependencies' exit, or before it.
Reply(r) ==
    /\ phase[r] \in {"ran", "left"}
    /\ reply' = [reply EXCEPT ![r] = "ok"]
    /\ phase' = [phase EXCEPT ![r] = IF phase[r] = "ran" THEN "replied" ELSE "done"]
    /\ UNCHANGED <<job, conn, seen, before, waiting, pool, db>>

\* The dependency's exit: COMMIT if a transaction is open, then putconn.
Leave(r, c) ==
    /\ alive[c] \/ ~InTx(r)
    /\ \/ On(r, c, "ran") /\ GiveBack(r, c, "left", TRUE)
       \/ On(r, c, "replied") /\ GiveBack(r, c, "done", TRUE)
    /\ store' = Committed(c) /\ EndTx(c)
    /\ UNCHANGED <<job, reply, seen, before, alive, breaks>>

\* The exit's COMMIT on a lost connection raises; a client that already has
\* its reply does not hear of it.
LeaveFails(r, c) ==
    /\ On(r, c, "ran") \/ On(r, c, "replied")
    /\ ~alive[c] /\ InTx(r)
    /\ GiveBack(r, c, "done", FALSE)
    /\ reply' = [reply EXCEPT ![r] = IF @ = "none" THEN "error" ELSE @]
    /\ UNCHANGED <<job, seen, before, db>>

\* The server commits and the connection is lost before it says so.
CommitUnacknowledged(r, c) ==
    /\ breaks < MaxBreaks
    /\ On(r, c, "inserted") \/ On(r, c, "ran") \/ On(r, c, "replied")
    /\ alive[c] /\ InTx(r)
    /\ store' = Committed(c) /\ EndTx(c)
    /\ alive' = [alive EXCEPT ![c] = FALSE] /\ breaks' = breaks + 1
    /\ conn' = [conn EXCEPT ![r] = NoConn] /\ phase' = [phase EXCEPT ![r] = "done"]
    /\ reply' = [reply EXCEPT ![r] = IF @ = "none" THEN "error" ELSE @]
    /\ UNCHANGED <<job, seen, before, waiting, pool>>
-----------------------------------------------------------------------------
\* A request that is to be refused is one that never waits for a lock: that
\* Refuse could happen says nothing about what a waiting request can do.
Proceed(r) ==
    \/ Reply(r)
    \/ \E c \in Conns :
           \/ StatementFails(r, c) \/ EnterScope(r, c) \/ Read(r, c)
           \/ CreateRule(r, c) \/ CreateConflicts(r, c)
           \/ PatchRule(r, c) \/ PatchMissing(r, c)
           \/ InsertEvent(r, c) \/ CommitEvent(r, c) \/ Login(r, c)
           \/ Leave(r, c) \/ LeaveFails(r, c)

Handler(r) == Proceed(r) \/ \E c \in Conns : Refuse(r, c)

Next ==
    \/ \E r \in Reqs :
           \/ Arrive(r) \/ PoolTimeout(r) \/ Handler(r)
           \/ \E c \in Conns : CommitUnacknowledged(r, c)
    \/ \E c \in Conns : Replace(c) \/ Break(c)

Spec == Init /\ [][Next]_vars

\* The event loop runs every handler that can go on, and the pool's worker
\* keeps reconnecting.
FairSpec ==
    /\ Spec
    /\ \A r \in Reqs : WF_vars(Proceed(r))
    /\ \A c \in Conns : WF_vars(Replace(c))
-----------------------------------------------------------------------------
(* Properties                                                              *)

Phases == {"new", "waiting", "held", "scoped", "inserted", "ran", "replied", "left", "done"}
Rows == [table : {"events", "rules"}, tenant : Tenants, by : Reqs]

TypeOK ==
    /\ phase \in [Reqs -> Phases]
    /\ job \in [Reqs -> [kind : AllKinds, tenant : Tenants, target : Tenants] \cup {NoJob}]
    /\ conn \in [Reqs -> Conns \cup {NoConn}]
    /\ reply \in [Reqs -> {"none", "ok", "error", "conflict", "missing"}]
    /\ seen \in [Reqs -> SUBSET Rows] /\ before \in [Reqs -> SUBSET Rows]
    /\ waiting \in Seq(Reqs) /\ pool \in Seq(Conns)
    /\ setting \in [Conns -> Tenants \cup {Blank}] /\ open \in [Conns -> BOOLEAN]
    /\ pending \in [Conns -> SUBSET Rows] /\ alive \in [Conns -> BOOLEAN]
    /\ store \subseteq Rows /\ breaks \in 0..MaxBreaks

(***************************************************************************)
(* What a request reads, and what it writes, belongs to the tenant of its  *)
(* own claims, whatever the connection served before (db.py:64-73).        *)
(***************************************************************************)
OwnRowsOnly ==
    /\ \A r \in Reqs : \A x \in seen[r] : x.tenant = job[r].tenant
    /\ \A x \in store : x.tenant = job[x.by].tenant

(***************************************************************************)
(* A connection that nobody holds, or that was handed over and not used    *)
(* yet, carries no tenant and no transaction: a bare query on it finds     *)
(* nothing (get_pooled_conn, tests/test_db_pool_tenant_safety.py).         *)
(***************************************************************************)
FreshIsBlank ==
    \A c \in Conns :
        (\A r \in Reqs : conn[r] = c => phase[r] = "held")
            => setting[c] = Blank /\ ~open[c] /\ pending[c] = {}

(***************************************************************************)
(* Two requests never use one connection, and an idle one has no user and  *)
(* leaves nobody waiting.                                                  *)
(***************************************************************************)
Exclusive ==
    /\ \A r, q \in Reqs : r # q /\ conn[r] # NoConn => conn[r] # conn[q]
    /\ IsInjective(pool) /\ \A r \in Reqs : conn[r] \notin ToSet(pool)
    /\ pool # <<>> => waiting = <<>>

(***************************************************************************)
(* An event that POST /ingest acknowledged is in every later answer of its *)
(* tenant (routers/ingest.py:36: the write commits before the 201).        *)
(***************************************************************************)
AckedEventsRead ==
    \A r \in Reqs :
        job[r].kind = "read" /\ phase[r] \in {"ran", "replied", "left"} =>
            {x \in before[r] : x.tenant = job[r].tenant} \subseteq seen[r]

(***************************************************************************)
(* A tenant has at most one rule, and 409 is only answered when it has one *)
(* (06_alerts_schema.sql:26-29), however creations interleave or fail.     *)
(***************************************************************************)
OneRule ==
    /\ \A x, y \in store : x.table = "rules" /\ y.table = "rules" /\ x.tenant = y.tenant => x = y
    /\ \A r \in Reqs : reply[r] = "conflict" => RuleOf(job[r].tenant) # {}

(***************************************************************************)
(* Every wait is for somebody who can go on.  While a request waits for a  *)
(* connection, each connection has a user that is at work, or is being     *)
(* replaced: none is leaked, on any way out of a handler.  Who waits for   *)
(* the lock of a rule waits for a request that waits for nothing.          *)
(***************************************************************************)
Locks(q, t) == \E x \in pending[conn[q]] : x.table = "rules" /\ x.tenant = t

WaitsForLock(r) ==
    \E c \in Conns : /\ On(r, c, "scoped") /\ alive[c]
                    /\ Locked(c, job[r].target)
                    /\ \/ job[r].kind = "create"
                       \/ job[r].kind = "patch" /\ RuleOf(job[r].target) \cap Visible(c) # {}

AtWork(r) == phase[r] \notin {"new", "waiting", "done"}

NoWaitCycle ==
    /\ \A r \in Reqs : phase[r] = "waiting" =>
           \A c \in Conns : Discarded(c) \/ \E q \in Reqs : conn[q] = c /\ AtWork(q)
    /\ \A r \in Reqs : WaitsForLock(r) =>
           \E q \in Reqs : /\ conn[q] # NoConn /\ Locks(q, job[r].target)
                          /\ AtWork(q) /\ ~WaitsForLock(q)

(***************************************************************************)
(* The tenants' stores are independent: TenantStores is implemented by the *)
(* committed rows, each commit one request's write into its own store.     *)
(***************************************************************************)
Isolated == INSTANCE TenantStores
    WITH owner <- [r \in {q \in Reqs : phase[q] # "new"} |-> job[r].tenant],
         stores <- [t \in Tenants |->
                       {[table |-> x.table, by |-> x.by] : x \in {y \in store : y.tenant = t}}]
ImplementsTenantStores == Isolated!Spec

(***************************************************************************)
(* The backend always catches up: again and again every request that came  *)
(* is answered.  No handler waits forever for a connection or for another  *)
(* transaction's lock, without the help of a timeout.                      *)
(***************************************************************************)
Answered(r) == phase[r] = "done" /\ reply[r] # "none"
EveryRequestAnswered == []<>(\A r \in Reqs : phase[r] = "new" \/ Answered(r))
=============================================================================
