------------------------------- MODULE Frontend -------------------------------
(***************************************************************************)
(* One browser tab: the session (src/frontend/src/context/AuthContext.jsx, *)
(* api/client.js, components/ProtectedRoute.jsx) and the pages that show   *)
(* events and alerts (pages/SearchPage.jsx, DashboardPage.jsx,             *)
(* AlertsPage.jsx).  A step is one callback: of the user, of a fetch, or   *)
(* of an effect.  Answers come in any order, or not at all, and any of     *)
(* them may be a 401: a token expires, and requests are not served in the  *)
(* order in which they were sent.                                          *)
(*                                                                         *)
(* Abstracted: a session is its number, which also stands for its token    *)
(* and for the claims GET /auth/me returns; sessionStorage works, so it    *)
(* and the token state are one variable; the four fetches of the dashboard,*)
(* awaited together, are one request; a page of rows is the query, the     *)
(* page number and the session it was fetched for.  The browser's history  *)
(* is not kept: beside /login there may always be an entry of a page.      *)
(***************************************************************************)
EXTENDS Naturals

CONSTANTS Queries,      \* filters of a search, ranges of the dashboard
          NoFilter,     \* the one a page opens with
          Nothing,
          MaxLogins, MaxSent, MaxPage    \* bounds of the instance

ASSUME FrontendAssumption ==
    /\ NoFilter \in Queries
    /\ MaxLogins \in Nat \ {0} /\ MaxSent \in Nat \ {0} /\ MaxPage \in Nat
    /\ Nothing \notin [query : Queries, page : 0..MaxPage, by : 1..MaxLogins]

Sessions == 1..MaxLogins
NoSession == 0
Pages == {"dashboard", "search", "alerts"}

VARIABLES
    token,     \* the session in sessionStorage, or NoSession
    claims,    \* the session whose user, role and tenant are shown
    loading,   \* AuthProvider waits for its first GET /auth/me
    logins,    \* sessions so far
    page,      \* "login", "blank" (a protected route not rendered yet) or a page
    view,      \* state of the page that is mounted
    flight,    \* requests without an answer
    sent,      \* requests sent so far
    opened,    \* history: the session that the login page was left with
    rivalled   \* history: whether another login was in flight at that moment

auth == <<token, claims, loading, logins>>
history == <<opened, rivalled>>
vars == <<auth, page, view, flight, sent, history>>

Closed == [filters |-> NoFilter, shown |-> Nothing, busy |-> FALSE, failed |-> FALSE]

\* apiFetch: the token is read when the request is made.  A request is live
\* while its callbacks may still change a page.
Request(i, kind, by, q, p) ==
    [n |-> sent + i, kind |-> kind, by |-> by, query |-> q, page |-> p, live |-> TRUE]
Me(i, s) == Request(i, "me", s, NoFilter, 0)

\* What is left of F when the components that sent these kinds are unmounted,
\* or their effects cleaned up: the callbacks are void, the requests go on.
Voided(F, kinds) == {IF r.kind \in kinds THEN [r EXCEPT !.live = FALSE] ELSE r : r \in F}
Detached == Voided(flight, Pages)

Logins(F) == {r \in F : r.kind = "login"}
-----------------------------------------------------------------------------
(* AuthProvider                                                            *)

\* readStoredToken and the effect on the token, in a new tab: /login without a
\* session, a route that waits for GET /auth/me with one.
Init ==
    /\ token \in {NoSession, 1} /\ logins = token /\ claims = NoSession
    /\ loading = (token # NoSession)
    /\ page = (IF token = NoSession THEN "login" ELSE "blank") /\ view = Closed
    /\ sent = token /\ opened = token /\ rivalled = FALSE
    /\ flight = IF token = NoSession THEN {}
                ELSE {[n |-> 1, kind |-> "me", by |-> token, query |-> NoFilter,
                       page |-> 0, live |-> TRUE]}

\* The same in a tab that is reloaded: what was in flight is gone.
Reload ==
    /\ sent < MaxSent
    /\ claims' = NoSession /\ loading' = (token # NoSession)
    /\ page' = (IF token = NoSession THEN "login" ELSE "blank") /\ view' = Closed
    /\ flight' = IF token = NoSession THEN {} ELSE {Me(1, token)}
    /\ sent' = IF token = NoSession THEN sent ELSE sent + 1
    /\ opened' = token /\ rivalled' = FALSE
    /\ UNCHANGED <<token, logins>>

\* LoginPage: one attempt at a time of each mount (submitting).
Login ==
    /\ page = "login" /\ sent < MaxSent
    /\ \A r \in Logins(flight) : ~r.live
    /\ flight' = flight \cup {Request(1, "login", NoSession, NoFilter, 0)}
    /\ sent' = sent + 1
    /\ UNCHANGED <<auth, page, view, history>>

\* Back or forward from /login to a page: ProtectedRoute sends the tab to
\* /login again, where a new LoginPage knows nothing of an attempt in flight.
BackToLogin ==
    /\ page = "login"
    /\ flight' = Voided(flight, {"login"})
    /\ UNCHANGED <<auth, page, view, sent, history>>

\* login: setToken, then GET /auth/me twice: by the effect and by login itself.
\* The login page gives way to a page; a page that is open stays.
LoginAccepted(r) ==
    /\ r.kind = "login" /\ logins < MaxLogins /\ sent + 2 <= MaxSent
    /\ token' = logins + 1 /\ logins' = logins + 1
    /\ flight' = Voided(flight \ {r}, {"login"}) \cup {Me(1, logins + 1), Me(2, logins + 1)}
    /\ sent' = sent + 2
    /\ \/ /\ page = "login" /\ page' = "blank"
          /\ opened' = logins + 1 /\ rivalled' = (Logins(flight) # {r})
       \/ page # "login" /\ UNCHANGED <<page, history>>
    /\ UNCHANGED <<claims, loading, view>>

\* LoginPage: no answer, or not 2xx and not 401; the form can be sent again.
LoginFails(r) ==
    /\ r.kind = "login" /\ flight' = flight \ {r}
    /\ UNCHANGED <<auth, page, view, sent, history>>

\* Mutation: the protected routes stay when the token goes.
EndSessionInPlace(F) ==
    /\ token' = NoSession /\ claims' = NoSession /\ loading' = FALSE
    /\ flight' = F /\ UNCHANGED <<page, view, history>>

\* logout: no token, no claims, /login; F is what is left in flight.
EndSession(F) ==
    /\ token' = NoSession /\ claims' = NoSession /\ loading' = FALSE
    /\ page' = "login" /\ view' = Closed
    /\ flight' = F /\ opened' = NoSession /\ rivalled' = FALSE

Logout ==
    /\ page \in Pages
    /\ EndSession(Detached)
    /\ UNCHANGED <<logins, sent>>

\* 401 for any request, of whatever session, a wrong password included: the
\* registered logout runs.
Unauthorized(r) ==
    /\ EndSession(Detached \ {r, [r EXCEPT !.live = FALSE]})
    /\ UNCHANGED <<logins, sent>>

MeAnswered(r) ==
    /\ r.kind = "me"
    /\ claims' = r.by /\ loading' = FALSE /\ flight' = flight \ {r}
    /\ UNCHANGED <<token, logins, page, view, sent, history>>

\* Mutation: setLoading(false) in then, not in finally.
MeFailsLoading(r) ==
    /\ r.kind = "me" /\ flight' = flight \ {r}
    /\ UNCHANGED <<auth, page, view, sent, history>>

\* catch(() => {}), finally setLoading(false).
MeFails(r) ==
    /\ r.kind = "me"
    /\ loading' = FALSE /\ flight' = flight \ {r}
    /\ UNCHANGED <<token, claims, logins, page, view, sent, history>>
-----------------------------------------------------------------------------
(* Pages                                                                   *)

\* A page's fetch over the requests F: setLoading(true), setError(null).
Ask(F, kind, q, p) ==
    /\ sent < MaxSent /\ sent' = sent + 1
    /\ flight' = F \cup {Request(1, kind, token, q, p)}

\* Mutation: ProtectedRoute without its check of the token.
OpenUnauthenticated(p) ==
    /\ ~loading /\ page # p
    /\ page' = p /\ view' = [Closed EXCEPT !.busy = TRUE]
    /\ Ask(Detached, p, NoFilter, 0)
    /\ UNCHANGED <<auth, history>>

\* ProtectedRoute renders a page, or the user turns to another one: a page
\* mounts with its first fetch.
Open(p) ==
    /\ token # NoSession /\ ~loading /\ page \notin {"login", p}
    /\ page' = p /\ view' = [Closed EXCEPT !.busy = TRUE]
    /\ Ask(Detached, p, NoFilter, 0)
    /\ UNCHANGED <<auth, history>>

\* Mutation: the effect has no cleanup.
ChooseRangeUncancelled(q) ==
    /\ page = "dashboard"
    /\ view' = [view EXCEPT !.filters = q, !.busy = TRUE, !.failed = FALSE]
    /\ Ask(flight, page, q, 0)
    /\ UNCHANGED <<auth, page, history>>

\* DashboardPage: setRange; the cleanup sets `cancelled` for the old effect.
ChooseRange(q) ==
    /\ page = "dashboard"
    /\ view' = [view EXCEPT !.filters = q, !.busy = TRUE, !.failed = FALSE]
    /\ Ask(Detached, page, q, 0)
    /\ UNCHANGED <<auth, page, history>>

\* SearchPage: the fields change without a search; Submit starts one.
TypeFilter(q) ==
    /\ page = "search" /\ q # view.filters
    /\ view' = [view EXCEPT !.filters = q]
    /\ UNCHANGED <<auth, page, flight, sent, history>>

Submit ==
    /\ page = "search"
    /\ view' = [view EXCEPT !.busy = TRUE, !.failed = FALSE]
    /\ Ask(flight, page, view.filters, 0)
    /\ UNCHANGED <<auth, page, history>>

\* Next and Previous: the filters of the fields, the page after or before the
\* one shown.  AlertsPage offers them while it loads, SearchPage does not.
TurnPage(p) ==
    /\ page \in {"search", "alerts"} /\ (page = "search" => ~view.busy)
    /\ view.shown # Nothing
    /\ p = view.shown.page + 1 \/ p + 1 = view.shown.page
    /\ view' = [view EXCEPT !.busy = TRUE, !.failed = FALSE]
    /\ Ask(flight, page, view.filters, p)
    /\ UNCHANGED <<auth, page, history>>

PageAnswered(r) ==
    /\ r.kind \in Pages
    /\ view' = IF r.live
                 THEN [view EXCEPT !.busy = FALSE,
                                   !.shown = [query |-> r.query, page |-> r.page, by |-> r.by]]
                 ELSE view
    /\ flight' = flight \ {r}
    /\ UNCHANGED <<auth, page, sent, history>>

\* Any other error: shown beside what the page showed before.
PageFails(r) ==
    /\ r.kind \in Pages
    /\ view' = IF r.live THEN [view EXCEPT !.busy = FALSE, !.failed = TRUE] ELSE view
    /\ flight' = flight \ {r}
    /\ UNCHANGED <<auth, page, sent, history>>
-----------------------------------------------------------------------------
User ==
    \/ Reload \/ Login \/ BackToLogin \/ Logout \/ Submit
    \/ \E p \in Pages : Open(p)
    \/ \E q \in Queries : ChooseRange(q) \/ TypeFilter(q)
    \/ \E p \in 0..MaxPage : TurnPage(p)

Answers == \E r \in flight :
    \/ LoginAccepted(r) \/ LoginFails(r) \/ Unauthorized(r) \/ MeAnswered(r) \/ MeFails(r)
    \/ PageAnswered(r) \/ PageFails(r)

Next == User \/ Answers

Spec == Init /\ [][Next]_vars
-----------------------------------------------------------------------------
(* Properties                                                              *)

Rows == [query : Queries, page : 0..MaxPage, by : Sessions]

TypeOK ==
    /\ token \in Sessions \cup {NoSession} /\ claims \in Sessions \cup {NoSession}
    /\ loading \in BOOLEAN /\ logins \in 0..MaxLogins
    /\ page \in Pages \cup {"login", "blank"}
    /\ view \in [filters : Queries, shown : Rows \cup {Nothing},
                 busy : BOOLEAN, failed : BOOLEAN]
    /\ flight \subseteq [n : 1..MaxSent, kind : Pages \cup {"me", "login"},
                         by : Sessions \cup {NoSession}, query : Queries,
                         page : 0..MaxPage, live : BOOLEAN]
    /\ sent \in 0..MaxSent
    /\ opened \in Sessions \cup {NoSession} /\ rivalled \in BOOLEAN

\* The sessions whose rows are on screen or may still come to it.
OnScreen == {r.by : r \in {q \in flight : q.live /\ q.kind \in Pages}} \cup
            (IF view.shown = Nothing THEN {} ELSE {view.shown.by})

(***************************************************************************)
(* No row of a session that ended, by logout or by a 401, is on screen or  *)
(* may come to it.  The rows are of the session that is logged in, unless  *)
(* the pages were opened with one login while another was in flight: then  *)
(* the later answer changes the token under them, and they may be of any   *)
(* session since (LoginPage.jsx:12-31, AuthContext.jsx:35-45, 70-82).      *)
(***************************************************************************)
ShownIsOwn ==
    \A s \in OnScreen :
        /\ token # NoSession /\ s \in opened..token
        /\ ~rivalled => s = token

(***************************************************************************)
(* A dashboard that does not load shows the range that was chosen last, or *)
(* an error, in whatever order the answers came (DashboardPage.jsx:35-65). *)
(***************************************************************************)
DashboardIsCurrent ==
    page = "dashboard" /\ ~view.busy =>
        view.failed \/ (view.shown # Nothing /\ view.shown.query = view.filters)

(***************************************************************************)
(* Behind each "Loading" is a request whose answer will end it: a page, or *)
(* the whole tab, never waits for something that is not under way.         *)
(***************************************************************************)
NoStuckSpinner ==
    /\ view.busy => \E r \in flight : r.live /\ r.kind = page
    /\ loading => \E r \in flight : r.kind = "me" /\ r.by = token

(***************************************************************************)
(* "Populate role/tenant from the verified claims the server hands back"   *)
(* (AuthContext.jsx:59-60): the claims that are shown, and that decide what*)
(* the alerts page offers, are those of the session that is logged in.     *)
(***************************************************************************)
ClaimsAreCurrent == claims # NoSession => claims = token
=============================================================================
