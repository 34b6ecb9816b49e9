---------------------------------- MODULE Api ----------------------------------
(***************************************************************************)
(* The accounts of the backend and two of its clients: create_user fills   *)
(* the users table, samples/post_logs.py logs in and posts its samples one *)
(* after the other, and a reader logs in and walks through the pages of    *)
(* GET /search (the query of GET /alerts is the same), while other events  *)
(* come in, retention drops the oldest day, and tokens expire.             *)
(*                                                                         *)
(* The time of an event is the number of its day; the clock counts in the  *)
(* unit of Expire.  Abstracted: the tenant setting and the pool            *)
(* (TenantPool), normalizing (Ingestion), the filters other than the range;*)
(* a query is one step, as it is one statement.  A reader that goes back a *)
(* page is left out: it sees nothing a walk has not shown.                 *)
(***************************************************************************)
EXTENDS Integers, Sequences, FiniteSets

CONSTANTS Tenants,
          Empty,        \* the tenant '', which the users table refuses
          Commands,     \* create_user: [name, password, role, tenant]
          Credentials,  \* what clients log in with: [name, password]
          Samples,      \* post_logs: its files in order, [tenant, time]
          Expire,       \* JWT_EXPIRE_MINUTES
          Limit,        \* rows on a page
          Ranges,       \* filters: [from, to]
          Others,       \* what comes in by other ways: [tenant, time]
          Budgets       \* bounds, one of them chosen at the start:
                        \* [creates, runs, arrivals, retires, walks, clock]

ASSUME ApiAssumption ==
    /\ Empty \notin Tenants /\ Expire \in Nat \ {0} /\ Limit \in Nat \ {0}
    /\ \A c \in Commands : c.role \in {"admin", "viewer"} /\ c.tenant \in Tenants \cup {Empty}
    /\ Samples \in Seq([tenant : Tenants, time : Int]) /\ Samples # <<>>
    /\ Others \subseteq [tenant : Tenants, time : Int]
    /\ Ranges \subseteq [from : Int, to : Int]

VARIABLES
    users,     \* the table: the commands whose account it holds
    outcome,   \* command -> what create_user last printed, or "none"
    clock,
    rows,      \* events: [id, tenant, time, stray]
    ids,       \* ids given so far
    oldest,    \* the oldest day with a partition
    at,        \* post_logs: "idle", "ready", "sent"
    runs,      \* its runs: [name, password, login]
    token,     \* its token
    report,    \* what it printed of each sample so far
    requests,  \* POSTs in the backend: [run, index, token, admitted]
    journal,   \* events stored by POST: [run, index, sub, tenant, admitted, id]
    session,   \* the reader's token
    walk,      \* its page: [range, offset, more]
    base,      \* rows in its range when it searched
    shown, twice,   \* rows on its pages so far; on more than one
    came, gone,     \* rows that came and went while it walked
    left       \* the budget left

accounts == <<users, outcome>>
table == <<rows, ids, oldest>>
poster == <<at, runs, token, report>>
server == <<requests, journal>>
reader == <<session, walk, base, shown, twice>>
vars == <<accounts, clock, table, poster, server, reader, came, gone, left>>

NoToken == [sub |-> "", role |-> "", tenant |-> Empty, exp |-> 0]
NotAdmitted == 0 - 1
NoWalk == [range |-> [from |-> 0, to |-> 0], offset |-> 0, more |-> FALSE]

Init ==
    /\ users = {} /\ outcome = [c \in Commands |-> "none"] /\ clock = 0
    /\ rows = {} /\ ids = 0 /\ oldest = 1
    /\ at = "idle" /\ runs = <<>> /\ token = NoToken /\ report = <<>>
    /\ requests = {} /\ journal = {}
    /\ session = NoToken /\ walk = NoWalk /\ base = {} /\ shown = {} /\ twice = {}
    /\ came = {} /\ gone = {} /\ left \in Budgets

Spend(what) == left[what] > 0 /\ left' = [left EXCEPT ![what] = @ - 1]
-----------------------------------------------------------------------------
(* Accounts and tokens                                                     *)

\* username text NOT NULL UNIQUE
Taken(c) == \E u \in users : u.name = c.name

\* One INSERT, in autocommit: refused by a constraint, or the connection is
\* lost before it or with its acknowledgement.
CreateUser(c) ==
    /\ Spend("creates")
    /\ \/ /\ Taken(c) /\ c.tenant # Empty
          /\ outcome' = [outcome EXCEPT ![c] = "exists"] /\ UNCHANGED users
       \/ /\ ~Taken(c) /\ c.tenant # Empty /\ users' = users \cup {c}
          /\ \E o \in {"created", "raised"} : outcome' = [outcome EXCEPT ![c] = o]
       \/ outcome' = [outcome EXCEPT ![c] = "raised"] /\ UNCHANGED users
    /\ UNCHANGED <<clock, table, poster, server, reader, came, gone>>

\* The row that login's SELECT returns.
Found(l, u) == u \in users /\ u.name = l.name

\* create_access_token
TokenOf(u) == [sub |-> u.name, role |-> u.role, tenant |-> u.tenant, exp |-> clock + Expire]

\* login: t is the answer, and a 401 is NoToken, for an unknown name as for a
\* wrong password.
LoginAnswer(l, t) ==
    \/ \E u \in users : Found(l, u) /\ t = IF u.password = l.password THEN TokenOf(u) ELSE NoToken
    \/ (\A u \in users : ~Found(l, u)) /\ t = NoToken

\* decode_access_token
Valid(t) == clock < t.exp

\* require_role: the status that ends the request, or "ok".
Status(t, role) == IF ~Valid(t) THEN "401" ELSE IF t.role # role THEN "403" ELSE "ok"

Tick ==
    /\ Spend("clock") /\ clock' = clock + 1
    /\ UNCHANGED <<accounts, table, poster, server, reader, came, gone>>
-----------------------------------------------------------------------------
(* The events table                                                        *)

\* A row without a partition for its day goes to events_default.
Row(t, time) == [id |-> ids + 1, tenant |-> t, time |-> time, stray |-> time < oldest]

\* came and gone are kept while somebody walks.
Insert(row) ==
    /\ rows' = rows \cup {row} /\ ids' = ids + 1
    /\ came' = IF walk.more THEN came \cup {row} ELSE came

\* The other ways in: syslog, the batch loader.
Arrive(e) ==
    /\ Spend("arrivals") /\ Insert(Row(e.tenant, e.time))
    /\ UNCHANGED <<accounts, clock, oldest, poster, server, reader, gone>>

\* drop_old_partitions: the rows of the oldest day, but not what strayed
\* into events_default.
Retire ==
    /\ Spend("retires")
    /\ LET dropped == {r \in rows : r.time <= oldest /\ ~r.stray}
       IN  /\ rows' = rows \ dropped
           /\ gone' = IF walk.more THEN gone \cup dropped ELSE gone
    /\ oldest' = oldest + 1
    /\ UNCHANGED <<accounts, clock, ids, poster, server, reader, came>>
-----------------------------------------------------------------------------
(* samples/post_logs.py and POST /ingest                                   *)

Run == Len(runs)
Index == Len(report) + 1

\* login: without a token the run ends with exit 1.
PostLogin(l) ==
    /\ at = "idle" /\ Spend("runs") /\ report' = <<>>
    /\ runs' = Append(runs, [name |-> l.name, password |-> l.password, login |-> clock])
    /\ \E t \in {NoToken} \cup {TokenOf(u) : u \in users} :
           /\ LoginAnswer(l, t) \/ t = NoToken     \* 401, another error, unreachable
           /\ token' = t /\ at' = IF t = NoToken THEN "idle" ELSE "ready"
    /\ UNCHANGED <<accounts, clock, table, server, reader, came, gone>>

Says(what) ==
    /\ report' = Append(report, what)
    /\ at' = IF Index = Len(Samples) THEN "idle" ELSE "ready"

\* post_one
Send ==
    /\ at = "ready" /\ at' = "sent"
    /\ requests' = requests \cup
           {[run |-> Run, index |-> Index, token |-> token, admitted |-> NotAdmitted]}
    /\ UNCHANGED <<accounts, clock, table, runs, token, report, journal, reader, came, gone, left>>

\* URLError: the request was not sent.
Unreachable ==
    /\ at = "ready" /\ Says("unreachable")
    /\ UNCHANGED <<accounts, clock, table, runs, token, server, reader, came, gone, left>>

\* A timeout or a broken connection while it waits for the answer is no
\* URLError, and ends the run; the backend goes on.
Dies ==
    /\ at = "sent" /\ at' = "idle"
    /\ UNCHANGED <<accounts, clock, table, runs, token, report, server, reader, came, gone, left>>

Awaited(q) == at = "sent" /\ q.run = Run /\ q.index = Index

\* Mutant: the client posts again what was answered with an error.
AnswerRetried(q, status) ==
    /\ requests' = requests \ {q}
    /\ IF Awaited(q) /\ status = "500" THEN at' = "ready" /\ UNCHANGED report
       ELSE IF Awaited(q) THEN Says(status) ELSE UNCHANGED <<at, report>>

\* The answer to q, printed if its client is still there.
Answer(q, status) ==
    /\ requests' = requests \ {q}
    /\ IF Awaited(q) THEN Says(status) ELSE UNCHANGED <<at, report>>

\* The dependencies: the token is looked at here and not again, however long
\* the request then waits for a connection.
Admit(q) ==
    /\ q.admitted = NotAdmitted
    /\ IF Status(q.token, "admin") = "ok"
       THEN /\ requests' = (requests \ {q}) \cup {[q EXCEPT !.admitted = clock]}
            /\ UNCHANGED <<at, report>>
       ELSE Answer(q, Status(q.token, "admin"))
    /\ UNCHANGED <<accounts, clock, table, runs, token, journal, reader, came, gone, left>>

\* Mutant: the tenant of the body.
EventTenantOfBody(q) == Samples[q.index].tenant

\* normalize(source_hint, payload, claims.tenant): the body's own is dropped.
EventTenant(q) == q.token.tenant

\* write_event_async commits before the 201; the COMMIT's acknowledgement may
\* be lost, or the answer.
Store(q) ==
    /\ q.admitted # NotAdmitted /\ Insert(Row(EventTenant(q), Samples[q.index].time))
    /\ journal' = journal \cup
           {[run |-> q.run, index |-> q.index, sub |-> q.token.sub, tenant |-> EventTenant(q),
             admitted |-> q.admitted, id |-> ids + 1]}
    /\ \/ \E s \in {"201", "500"} : Answer(q, s)
       \/ requests' = requests \ {q} /\ UNCHANGED <<at, report>>
    /\ UNCHANGED <<accounts, clock, oldest, runs, token, reader, gone, left>>

\* No connection in time, or a statement raises.
StoreFails(q) ==
    /\ q.admitted # NotAdmitted /\ Answer(q, "500")
    /\ UNCHANGED <<accounts, clock, table, runs, token, journal, reader, came, gone, left>>
-----------------------------------------------------------------------------
(* The reader and GET /search                                              *)

ReaderLogin(l) ==
    /\ session = NoToken /\ left.walks > 0
    /\ \E t \in {TokenOf(u) : u \in users} : LoginAnswer(l, t) /\ session' = t
    /\ UNCHANGED <<accounts, clock, table, poster, server, walk, base, shown, twice,
                   came, gone, left>>

\* WHERE event_time >= start_time AND event_time < end_time, under RLS.
InRange(g) == {r \in rows : r.tenant = session.tenant /\ g.from <= r.time /\ r.time < g.to}

\* Mutant: ORDER BY event_time, the oldest first.
Oldest(S, n) ==
    {T \in SUBSET S : /\ Cardinality(T) = IF Cardinality(S) < n THEN Cardinality(S) ELSE n
                      /\ \A x \in T, y \in S \ T : x.time <= y.time}

\* The n first rows of S ORDER BY event_time DESC, ties in any order.
Newest(S, n) ==
    {T \in SUBSET S : /\ Cardinality(T) = IF Cardinality(S) < n THEN Cardinality(S) ELSE n
                      /\ \A x \in T, y \in S \ T : x.time >= y.time}

\* Mutant: LIMIT limit, not limit + 1.
FetchLimitOnly(S, offset) ==
    UNION {Newest(S \ skipped, Limit) : skipped \in Newest(S, offset)}

\* LIMIT limit + 1 OFFSET offset
Fetch(S, offset) ==
    UNION {Newest(S \ skipped, Limit + 1) : skipped \in Newest(S, offset)}

\* search: one row more than is shown tells whether there is a next page.
Page(g, offset, page) ==
    /\ Valid(session)
    /\ \E fetched \in Fetch(InRange(g), offset) :
           /\ page \in Newest(fetched, Limit)
           /\ walk' = [range |-> g, offset |-> offset, more |-> Cardinality(fetched) > Limit]

\* The first page of a new walk.
Search(g) ==
    /\ Spend("walks") /\ base' = InRange(g) /\ twice' = {} /\ came' = {} /\ gone' = {}
    /\ \E page \in SUBSET InRange(g) : Page(g, 0, page) /\ shown' = page
    /\ UNCHANGED <<accounts, clock, table, poster, server, session>>

\* runSearch(offset + DEFAULT_LIMIT)
NextPage ==
    /\ walk.more
    /\ \E page \in SUBSET InRange(walk.range) :
           /\ Page(walk.range, walk.offset + Limit, page)
           /\ shown' = shown \cup page /\ twice' = twice \cup (shown \cap page)
    /\ UNCHANGED <<accounts, clock, table, poster, server, session, base, came, gone, left>>

\* A 401 ends the session, and the walk with it.
SessionEnds ==
    /\ session # NoToken /\ ~Valid(session) /\ session' = NoToken /\ walk' = NoWalk
    /\ base' = {} /\ shown' = {} /\ twice' = {} /\ came' = {} /\ gone' = {}
    /\ UNCHANGED <<accounts, clock, table, poster, server, left>>

Next ==
    \/ \E c \in Commands : CreateUser(c)
    \/ Tick \/ Retire
    \/ \E e \in Others : Arrive(e)
    \/ \E l \in Credentials : PostLogin(l) \/ ReaderLogin(l)
    \/ Send \/ Unreachable \/ Dies
    \/ \E q \in requests : Admit(q) \/ Store(q) \/ StoreFails(q)
    \/ \E g \in Ranges : Search(g)
    \/ NextPage \/ SessionEnds

Spec == Init /\ [][Next]_vars
-----------------------------------------------------------------------------
(* Properties                                                              *)

(***************************************************************************)
(* Every event stored by POST /ingest bears the tenant of an administrator *)
(* whose password its client gave, and whose account is the only one of    *)
(* that name; its request was admitted before the login's token expired,   *)
(* however late it was stored (deps.py:20-47, routers/ingest.py:27-37).    *)
(***************************************************************************)
WritesBacked ==
    \A w \in journal :
        \E u \in users :
            /\ u.name = w.sub /\ u.role = "admin" /\ u.tenant = w.tenant
            /\ \A v \in users : v.name = u.name => v = u
            /\ runs[w.run].name = u.name /\ runs[w.run].password = u.password
            /\ w.admitted < runs[w.run].login + Expire

(***************************************************************************)
(* What post_logs prints is true: "201" of a sample that was stored once,  *)
(* an HTTP 401 or 403 or no connection of one that was not stored and will *)
(* not be; a 500 leaves both open, but never two copies.  Once the token   *)
(* has expired nothing more is stored (post_logs.py:60-92).                *)
(***************************************************************************)
PostsHonest ==
    \A i \in DOMAIN report :
        LET copies == {w \in journal : w.run = Run /\ w.index = i}
        IN  /\ Cardinality(copies) <= 1
            /\ report[i] = "201" => copies # {}
            /\ report[i] \in {"401", "403", "unreachable"} =>
                  /\ copies = {}
                  /\ \A q \in requests : q.run = Run => q.index # i
            /\ report[i] \in {"401", "403"} =>
                  \A j \in DOMAIN report : j > i => report[j] \in {report[i], "401", "unreachable"}

\* The reader has seen its last page.
WalkOver == session # NoToken /\ walk # NoWalk /\ ~walk.more

\* Another row of the same time was in view.
Tied(r) == \E x \in (base \cup came) \ {r} : x.tenant = r.tenant /\ x.time = r.time

(***************************************************************************)
(* A walk from the first page to the last shows every event that was there *)
(* when it began and still is, unless another one has the same time or     *)
(* retention took a newer one meanwhile: events that come in between two   *)
(* pages hide none (search.py:66-84).                                      *)
(***************************************************************************)
PagesComplete ==
    WalkOver => \A r \in (base \cap rows) \ shown :
                    Tied(r) \/ \E g \in gone : g.tenant = r.tenant /\ g.time > r.time

(***************************************************************************)
(* A walk shows an event twice only when a newer one came in meanwhile or  *)
(* another one has the same time (search.py:73-74).                        *)
(***************************************************************************)
RepeatsExplained ==
    \A r \in twice : Tied(r) \/ \E c \in came : c.tenant = r.tenant /\ c.time > r.time
=============================================================================
