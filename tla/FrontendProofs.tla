---------------------------- MODULE FrontendProofs ----------------------------
(***************************************************************************)
(* Proofs about Frontend, for any queries and any number of sessions and   *)
(* requests.  The inductive invariant FInv adds to the properties of the   *)
(* run what ties a request in flight to the route that is on screen:       *)
(*   SessionFits  the login page is shown, empty, exactly without a token; *)
(*                a login that is in flight beside a page was so when the  *)
(*                pages were opened, and no tab waits for its first claims *)
(*                then;                                                    *)
(*   Own          what is on screen is of a session since the pages opened;*)
(*   LiveFitsPage a request that may still change a page is one of the page*)
(*                on screen, and on the dashboard of the chosen range.     *)
(***************************************************************************)
EXTENDS Frontend, TLAPS

Requests == [n : 1..MaxSent, kind : Pages \cup {"me", "login"},
             by : Sessions \cup {NoSession}, query : Queries,
             page : 0..MaxPage, live : BOOLEAN]

SessionFits ==
    /\ page = "login" <=> token = NoSession
    /\ page = "login" => view = Closed
    /\ opened = NoSession <=> token = NoSession
    /\ token # NoSession => token = logins /\ opened <= token
    /\ ~rivalled => opened = token
    /\ loading => token # NoSession
    /\ \A r \in flight : r.kind = "login" => ~loading /\ (page # "login" => rivalled)

Own(s) == token # NoSession /\ s \in opened..token
OwnInv ==
    /\ view.shown # Nothing => Own(view.shown.by)
    /\ \A r \in flight : r.live /\ r.kind \in Pages => Own(r.by)

LiveFitsPage == \A r \in flight : r.live /\ r.kind \in Pages =>
    r.kind = page /\ (page = "dashboard" => r.query = view.filters)

FInv == TypeOK /\ SessionFits /\ LiveFitsPage
            /\ OwnInv /\ DashboardIsCurrent /\ NoStuckSpinner

(***************************************************************************)
(* What apiFetch sends is a request, and how it is told from the others.   *)
(***************************************************************************)
LEMMA RequestTyped ==
  ASSUME TypeOK, NEW i \in {1, 2}, sent + i <= MaxSent,
         NEW k \in Pages \cup {"me", "login"}, NEW s \in Sessions \cup {NoSession},
         NEW q \in Queries, NEW p \in 0..MaxPage
  PROVE  /\ Request(i, k, s, q, p) \in Requests
         /\ Request(i, k, s, q, p).kind = k /\ Request(i, k, s, q, p).by = s
         /\ Request(i, k, s, q, p).query = q /\ Request(i, k, s, q, p).live
<1>1. sent + i \in 1..MaxSent
  BY FrontendAssumption DEF TypeOK
<1>2. QED
  BY <1>1 DEF Request, Requests

(***************************************************************************)
(* An unmounted component's requests go on, and change nothing any more;   *)
(* the others are as they were.                                            *)
(***************************************************************************)
LEMMA VoidedFacts ==
  ASSUME TypeOK, NEW F, F \subseteq flight, NEW K
  PROVE  /\ Voided(F, K) \subseteq Requests
         /\ \A v \in Voided(F, K) : \E r \in F :
               v.kind = r.kind /\ (v.kind \in K => ~v.live) /\ (v.kind \notin K => v = r)
         /\ \A r \in F : r.kind \notin K => r \in Voided(F, K)
<1>1. F \subseteq Requests
  BY DEF TypeOK, Requests
<1>2. ASSUME NEW r \in F
      PROVE  /\ [r EXCEPT !.live = FALSE] \in Requests
             /\ [r EXCEPT !.live = FALSE].kind = r.kind
             /\ ~[r EXCEPT !.live = FALSE].live
  BY <1>1, <1>2 DEF Requests
<1>3. QED
  BY <1>1, <1>2 DEF Voided

\* The same of the cleanup of a page.
LEMMA DetachedFacts ==
  ASSUME TypeOK
  PROVE  /\ Detached \subseteq Requests
         /\ \A r \in Detached : r.kind \in Pages => ~r.live
         /\ \A r \in Detached : r.kind \notin Pages => r \in flight
         /\ \A r \in flight : r.kind \notin Pages => r \in Detached
  BY VoidedFacts DEF Detached

\* A page that was just mounted shows nothing and waits for nothing.
LEMMA ClosedTyped ==
  /\ Closed \in [filters : Queries, shown : Rows \cup {Nothing},
                 busy : BOOLEAN, failed : BOOLEAN]
  /\ Closed.shown = Nothing /\ Closed.busy = FALSE /\ Closed.failed = FALSE
  /\ Closed.filters = NoFilter
BY FrontendAssumption DEF Closed

(***************************************************************************)
(* A new tab satisfies the invariant.                                      *)
(***************************************************************************)
LEMMA FInvInit == Init => FInv
<1> SUFFICES ASSUME Init PROVE FInv
  OBVIOUS
<1> USE FrontendAssumption DEF Sessions, NoSession
<1>1. token \in {0, 1} /\ logins = token /\ claims = 0 /\ view = Closed /\ sent = token
      /\ opened = token /\ rivalled = FALSE
  BY DEF Init
<1>2. CASE token = 0
  <2>1. page = "login" /\ loading = FALSE /\ flight = {}
    BY <1>2 DEF Init
  <2>2. TypeOK
    <3>1. /\ token \in Sessions \cup {0} /\ claims \in Sessions \cup {0}
          /\ logins \in 0..MaxLogins /\ sent \in 0..MaxSent
      BY <1>1, <1>2
    <3>2. page \in Pages \cup {"login", "blank"} /\ loading \in BOOLEAN
      BY <2>1
    <3>3. QED
      BY <1>1, <2>1, <3>1, <3>2, ClosedTyped DEF TypeOK
  <2>3. QED
    BY <1>1, <1>2, <2>1, <2>2, ClosedTyped
       DEF FInv, SessionFits, LiveFitsPage, OwnInv, Own, DashboardIsCurrent, NoStuckSpinner
<1>3. CASE token = 1
  <2> DEFINE me == [n |-> 1, kind |-> "me", by |-> 1, query |-> NoFilter,
                    page |-> 0, live |-> TRUE]
  <2>1. page = "blank" /\ flight = {me}
    BY <1>3 DEF Init
  <2>2. loading = TRUE
    <3>1. token # NoSession
      BY <1>3
    <3>2. loading = (token # NoSession)
      BY DEF Init
    <3>3. QED
      BY ONLY <3>1, <3>2, Zenon
  <2>3. me \in Requests /\ me.kind = "me" /\ me.by = 1
    BY DEF Requests, Pages
  <2> HIDE DEF me
  <2>4. TypeOK
    <3>1. /\ token \in Sessions \cup {0} /\ claims \in Sessions \cup {0}
          /\ logins \in 0..MaxLogins /\ sent \in 0..MaxSent
          /\ opened \in Sessions \cup {0}
      BY <1>1, <1>3
    <3>2. page \in Pages \cup {"login", "blank"} /\ loading \in BOOLEAN /\ rivalled \in BOOLEAN
      BY <1>1, <2>1, <2>2
    <3>3. flight \subseteq Requests
      BY <2>1, <2>3
    <3>4. QED
      BY <1>1, <3>1, <3>2, <3>3, ClosedTyped DEF TypeOK, Requests
  <2>5. QED
    BY <1>1, <1>3, <2>1, <2>3, <2>4, <2>2, ClosedTyped
       DEF FInv, SessionFits, LiveFitsPage, OwnInv, Own, DashboardIsCurrent,
           NoStuckSpinner, Pages
<1>4. QED
  BY <1>1, <1>2, <1>3

(***************************************************************************)
(* The end of a session, whoever ends it: the login page is empty and what *)
(* is left in flight may not change a page.                                *)
(***************************************************************************)
LEMMA FInvEndSession ==
  ASSUME FInv, NEW F, F \subseteq Detached, EndSession(F), UNCHANGED <<logins, sent>>
  PROVE  FInv'
<1> USE DEF NoSession
<1>1. /\ token' = 0 /\ claims' = 0 /\ loading' = FALSE /\ page' = "login"
      /\ view' = Closed /\ flight' = F /\ logins' = logins /\ sent' = sent
      /\ opened' = 0 /\ rivalled' = FALSE
  BY DEF EndSession
<1>2. TypeOK
  BY DEF FInv
<1>3. /\ F \subseteq Requests /\ \A r \in F : r.kind \in Pages => ~r.live
      /\ \A r \in F : r.kind = "login" => r \in flight
  BY <1>2, DetachedFacts DEF Pages
<1>4. TypeOK'
  BY <1>1, <1>2, <1>3, ClosedTyped DEF TypeOK, Requests, Rows, Pages
<1>5. SessionFits'
  BY <1>1, <1>3 DEF FInv, SessionFits
<1>6. LiveFitsPage' /\ OwnInv' /\ DashboardIsCurrent' /\ NoStuckSpinner'
  BY <1>1, <1>3, ClosedTyped DEF LiveFitsPage, OwnInv, Own, DashboardIsCurrent, NoStuckSpinner
<1>7. QED
  BY <1>4, <1>5, <1>6 DEF FInv

(***************************************************************************)
(* An answer that changes no page: one request less, and the session as it *)
(* was, but for the claims and the end of the first wait.                  *)
(***************************************************************************)
LEMMA FInvAnswer ==
  ASSUME FInv, NEW r \in flight, r.kind \notin Pages, flight' = flight \ {r},
         claims' \in {claims, r.by}, loading' \in {loading, FALSE},
         r.kind = "me" => loading' = FALSE,
         UNCHANGED <<token, logins, page, view, sent, opened, rivalled>>
  PROVE  FInv'
<1>1. TypeOK'
  BY DEF FInv, TypeOK, Rows
<1>2. SessionFits' /\ LiveFitsPage'
  <2>1. loading' => loading
    OBVIOUS
  <2>2. SessionFits'
    BY <2>1 DEF FInv, SessionFits
  <2>3. LiveFitsPage'
    BY DEF FInv, LiveFitsPage
  <2>4. QED
    BY <2>2, <2>3
<1>3. TypeOK
  BY DEF FInv
<1>4. NoStuckSpinner'
  <2>1. ASSUME view'.busy
        PROVE  \E q \in flight' : q.live /\ q.kind = page'
    <3>1. PICK q \in flight : q.live /\ q.kind = page
      BY <2>1 DEF FInv, NoStuckSpinner
    <3>2. CASE q # r
      BY <3>1, <3>2
    <3>3. CASE q = r
      <4>1. page = "login"
        BY <3>1, <3>3, <1>3 DEF TypeOK, Pages
      <4>2. QED
        BY <4>1, <2>1, ClosedTyped DEF FInv, SessionFits
    <3>4. QED
      BY <3>2, <3>3
  <2>2. ASSUME loading'
        PROVE  \E q \in flight' : q.kind = "me" /\ q.by = token'
    <3>1. PICK q \in flight : q.kind = "me" /\ q.by = token
      BY <2>2, <1>3 DEF FInv, NoStuckSpinner, TypeOK
    <3>2. QED
      BY <3>1, <2>2
  <2>3. QED
    BY <2>1, <2>2 DEF NoStuckSpinner
<1>5. OwnInv' /\ DashboardIsCurrent'
  BY DEF FInv, OwnInv, Own, DashboardIsCurrent
<1>6. QED
  BY <1>1, <1>2, <1>4, <1>5 DEF FInv

(***************************************************************************)
(* A page sends a fetch for its query, beside the requests F that may stay:*)
(* all of them on the same page, or the detached ones.                     *)
(***************************************************************************)
LEMMA FInvFetch ==
  ASSUME FInv, NEW k \in Pages, NEW q \in Queries, NEW p \in 0..MaxPage, NEW F,
         F = Detached \/ (F = flight /\ page = k /\ k # "dashboard" /\ view'.shown = view.shown),
         F = Detached => view'.shown \in {Nothing, view.shown},
         k = "dashboard" => q = view'.filters,
         view' \in [filters : Queries, shown : Rows \cup {Nothing},
                   busy : BOOLEAN, failed : BOOLEAN],
         view'.busy, page # "login", token # NoSession, page' = k, Ask(F, k, q, p),
         UNCHANGED <<auth, history>>
  PROVE  FInv'
<1> DEFINE new == Request(1, k, token, q, p)
<1>1. TypeOK /\ sent < MaxSent /\ sent' = sent + 1 /\ flight' = F \cup {new}
  BY DEF FInv, Ask
<1>2. /\ new \in Requests /\ new.kind = k /\ new.by = token
      /\ new.query = q /\ new.live
  <2>1. sent + 1 <= MaxSent /\ token \in Sessions \cup {NoSession}
    BY <1>1, FrontendAssumption DEF TypeOK
  <2>2. QED
    BY <1>1, <2>1, RequestTyped
<1> HIDE DEF new
<1>3. /\ token' = token /\ claims' = claims /\ loading' = loading /\ logins' = logins
      /\ opened' = opened /\ rivalled' = rivalled
  BY DEF auth, history
<1>4. /\ F \subseteq Requests
      /\ \A r \in F : r.kind \in Pages /\ r.live =>
            r \in flight /\ page = k /\ k # "dashboard"
      /\ \A r \in F : r.kind \notin Pages => r \in flight
      /\ \A r \in flight : r.kind \notin Pages => r \in F
  <2>1. CASE F = Detached
    BY <2>1, <1>1, DetachedFacts
  <2>2. CASE F = flight /\ page = k /\ k # "dashboard"
    BY <2>2, <1>1 DEF TypeOK, Requests
  <2>3. QED
    BY <2>1, <2>2
<1>5. TypeOK'
  <2>1. sent' \in 0..MaxSent
    BY <1>1, FrontendAssumption DEF TypeOK
  <2>2. flight' \subseteq Requests
    BY <1>1, <1>2, <1>4
  <2>3. QED
    BY <1>1, <1>3, <2>1, <2>2 DEF TypeOK, Requests
<1>6. SessionFits'
  <2>1. k # "login" /\ page' # "login" /\ k # "me"
    BY DEF Pages
  <2>2. \A r \in flight' : r.kind = "login" => r \in flight
    BY <1>1, <1>2, <1>4, <2>1 DEF Pages
  <2>3. QED
    BY <1>3, <2>1, <2>2 DEF FInv, SessionFits
<1>7. LiveFitsPage'
  BY <1>1, <1>2, <1>4 DEF FInv, LiveFitsPage
<1>8. OwnInv'
  <2>1. \A i : Own(i)' <=> Own(i)
    BY <1>3 DEF Own
  <2>2. view'.shown # Nothing => Own(view'.shown.by)
    BY DEF FInv, OwnInv
  <2>3. Own(token)
    BY <1>1 DEF FInv, SessionFits, Own, TypeOK, Sessions, NoSession
  <2>4. \A r \in flight' : r.live /\ r.kind \in Pages => Own(r.by)
    BY <1>1, <1>2, <1>4, <2>3 DEF FInv, OwnInv
  <2>5. QED
    BY <2>1, <2>2, <2>4 DEF OwnInv
<1>9. NoStuckSpinner'
  <2>1. loading' => \E r \in flight' : r.kind = "me" /\ r.by = token'
    BY <1>1, <1>3, <1>4 DEF FInv, NoStuckSpinner, Pages
  <2>2. QED
    BY <1>1, <1>2, <2>1 DEF NoStuckSpinner
<1>10. QED
  BY <1>5, <1>6, <1>7, <1>8, <1>9 DEF FInv, DashboardIsCurrent

(***************************************************************************)
(* The actions that fetch: a page opens, a range is chosen, a search or a  *)
(* page of results is asked for.                                           *)
(***************************************************************************)
LEMMA FInvAsking ==
  ASSUME FInv,
         \/ \E p \in Pages : Open(p)
         \/ \E q \in Queries : ChooseRange(q)
         \/ Submit
         \/ \E p \in 0..MaxPage : TurnPage(p)
  PROVE  FInv'
<1> USE FrontendAssumption
<1>1. /\ view \in [filters : Queries, shown : Rows \cup {Nothing},
                  busy : BOOLEAN, failed : BOOLEAN]
      /\ 0 \in 0..MaxPage /\ NoFilter \in Queries
  BY DEF FInv, TypeOK
<1>2. ASSUME NEW p \in Pages, Open(p) PROVE FInv'
  <2>1. /\ view' = [Closed EXCEPT !.busy = TRUE] /\ page' = p /\ page # "login"
        /\ Ask(Detached, p, NoFilter, 0)
        /\ UNCHANGED <<auth, history>>
        /\ token # NoSession
    BY <1>2 DEF Open
  <2>2. /\ view' \in [filters : Queries, shown : Rows \cup {Nothing},
                     busy : BOOLEAN, failed : BOOLEAN]
        /\ view'.shown = Nothing /\ view'.busy /\ view'.filters = NoFilter
    BY <2>1, ClosedTyped
  <2>3. QED
    BY <1>1, <2>1, <2>2, FInvFetch
<1>3. ASSUME NEW q \in Queries, ChooseRange(q) PROVE FInv'
  <2>1. /\ view' = [view EXCEPT !.filters = q, !.busy = TRUE, !.failed = FALSE]
        /\ page = "dashboard" /\ page' = "dashboard"
        /\ Ask(Detached, "dashboard", q, 0)
        /\ UNCHANGED <<auth, history>>
        /\ token # NoSession
    BY <1>3 DEF ChooseRange, FInv, SessionFits
  <2>2. /\ view' \in [filters : Queries, shown : Rows \cup {Nothing},
                     busy : BOOLEAN, failed : BOOLEAN]
        /\ view'.shown = view.shown /\ view'.busy /\ view'.filters = q
    BY <1>1, <2>1
  <2>3. "dashboard" \in Pages
    BY DEF Pages
  <2>4. QED
    BY <1>1, <2>1, <2>2, <2>3, FInvFetch
<1>4. ASSUME NEW p \in 0..MaxPage, page \in {"search", "alerts"},
             view' = [view EXCEPT !.busy = TRUE, !.failed = FALSE],
             Ask(flight, page, view.filters, p), UNCHANGED <<auth, page, history>>
      PROVE  FInv'
  <2>1. /\ view' \in [filters : Queries, shown : Rows \cup {Nothing},
                     busy : BOOLEAN, failed : BOOLEAN]
        /\ view'.shown = view.shown /\ view'.busy /\ view.filters \in Queries
    BY <1>1, <1>4
  <2>2. /\ page \in Pages /\ page # "dashboard" /\ page # "login" /\ page' = page
        /\ token # NoSession
    BY <1>4 DEF Pages, FInv, SessionFits
  <2>3. QED
    BY <1>4, <2>1, <2>2, FInvFetch
<1>5. ASSUME Submit PROVE FInv'
  BY <1>1, <1>4, <1>5 DEF Submit
<1>6. ASSUME NEW p \in 0..MaxPage, TurnPage(p) PROVE FInv'
  BY <1>4, <1>6 DEF TurnPage
<1>7. QED
  BY <1>2, <1>3, <1>5, <1>6

(***************************************************************************)
(* A page's answer or its error: the page on screen takes it if the request*)
(* is still live, and nothing changes if not.                              *)
(***************************************************************************)
LEMMA FInvPageResult ==
  ASSUME FInv, NEW r \in flight, PageAnswered(r) \/ PageFails(r)
  PROVE  FInv'
<1> DEFINE row == [query |-> r.query, page |-> r.page, by |-> r.by]
<1>1. /\ r.kind \in Pages /\ flight' = flight \ {r} /\ page' = page /\ sent' = sent
      /\ token' = token /\ claims' = claims /\ loading' = loading /\ logins' = logins
      /\ opened' = opened /\ rivalled' = rivalled
  BY DEF PageAnswered, PageFails, auth, history
<1>2. TypeOK /\ r \in Requests
  BY DEF FInv, TypeOK, Requests
<1>3. NoStuckSpinner => (loading => \E q \in flight' : q.kind = "me" /\ q.by = token)
  BY <1>1 DEF NoStuckSpinner, Pages
<1>4. CASE ~r.live
  <2>1. view' = view
    BY <1>4 DEF PageAnswered, PageFails
  <2>2. TypeOK'
    BY <1>1, <1>2, <2>1 DEF TypeOK, Rows
  <2>3. SessionFits' /\ LiveFitsPage' /\ OwnInv' /\ DashboardIsCurrent'
    BY <1>1, <2>1 DEF FInv, SessionFits, LiveFitsPage, OwnInv, Own, DashboardIsCurrent
  <2>4. NoStuckSpinner'
    BY <1>1, <1>3, <1>4, <2>1 DEF FInv, NoStuckSpinner
  <2>5. QED
    BY <2>2, <2>3, <2>4 DEF FInv
<1>5. CASE r.live
  <2>1. /\ Own(r.by) /\ page = r.kind
        /\ page = "dashboard" => r.query = view.filters
    BY <1>1, <1>5 DEF FInv, OwnInv, LiveFitsPage
  <2>2. r.by \in Sessions
    BY <1>2, <2>1 DEF FInv, TypeOK, SessionFits, Own, Sessions, NoSession
  <2>3. row \in Rows
    BY <1>2, <2>1, <2>2 DEF Requests, Rows
  <2>4. \/ view' = [view EXCEPT !.busy = FALSE, !.shown = row]
        \/ view' = [view EXCEPT !.busy = FALSE, !.failed = TRUE]
    BY <1>5 DEF PageAnswered, PageFails
  <2>5. /\ view' \in [filters : Queries, shown : Rows \cup {Nothing},
                     busy : BOOLEAN, failed : BOOLEAN]
        /\ view'.busy = FALSE /\ view'.filters = view.filters
        /\ \/ view'.shown = row
           \/ view'.shown = view.shown /\ view'.failed
    BY <1>2, <2>3, <2>4 DEF TypeOK
  <2>6. TypeOK'
    BY <1>1, <1>2, <2>5 DEF TypeOK, Rows
  <2>7. SessionFits' /\ LiveFitsPage'
    BY <1>1, <2>1, <2>5 DEF FInv, SessionFits, LiveFitsPage, Pages
  <2>8. OwnInv'
    <3>1. \A i : Own(i)' <=> Own(i)
      BY <1>1 DEF Own
    <3>2. view'.shown # Nothing => Own(view'.shown.by)
      BY <2>1, <2>5 DEF FInv, OwnInv
    <3>3. QED
      BY <1>1, <3>1, <3>2 DEF FInv, OwnInv
  <2>9. DashboardIsCurrent'
    <3>1. row # Nothing
      BY <2>3, FrontendAssumption DEF Rows, Sessions
    <3>2. QED
      BY <1>1, <2>1, <2>4, <2>5, <3>1 DEF FInv, DashboardIsCurrent
  <2>10. NoStuckSpinner'
    BY <1>1, <1>3, <2>5 DEF FInv, NoStuckSpinner
  <2>11. QED
    BY <2>6, <2>7, <2>8, <2>9, <2>10 DEF FInv
<1>6. QED
  BY <1>4, <1>5

(***************************************************************************)
(* A login that begins, one that is accepted, a tab that is reloaded.      *)
(***************************************************************************)
LEMMA FInvLogin ==
  ASSUME FInv, Login
  PROVE  FInv'
<1> DEFINE new == Request(1, "login", NoSession, NoFilter, 0)
<1>1. /\ page = "login" /\ sent < MaxSent
      /\ flight' = flight \cup {new} /\ sent' = sent + 1 /\ page' = page /\ view' = view
      /\ token' = token /\ claims' = claims /\ loading' = loading /\ logins' = logins
      /\ opened' = opened /\ rivalled' = rivalled
  BY DEF Login, auth, history
<1>2. new \in Requests /\ new.kind = "login"
  <2>1. TypeOK /\ sent + 1 <= MaxSent /\ 0 \in 0..MaxPage /\ NoFilter \in Queries
    BY <1>1, FrontendAssumption DEF FInv, TypeOK
  <2>2. QED
    BY <2>1, RequestTyped
<1> HIDE DEF new
<1>3. TypeOK'
  <2>1. sent' \in 0..MaxSent
    BY <1>1, FrontendAssumption DEF FInv, TypeOK
  <2>2. flight' \subseteq Requests
    BY <1>1, <1>2 DEF FInv, TypeOK, Requests
  <2>3. QED
    BY <1>1, <2>1, <2>2 DEF FInv, TypeOK, Requests, Rows
<1>4. SessionFits'
  BY <1>1, <1>2 DEF FInv, SessionFits
<1>5. LiveFitsPage' /\ OwnInv' /\ DashboardIsCurrent'
  BY <1>1, <1>2 DEF FInv, LiveFitsPage, OwnInv, Own, DashboardIsCurrent, Pages
<1>6. NoStuckSpinner'
  BY <1>1 DEF FInv, NoStuckSpinner
<1>7. QED
  BY <1>3, <1>4, <1>5, <1>6 DEF FInv

\* A mount of the login page is replaced by another: its attempt goes on.
LEMMA FInvBack ==
  ASSUME FInv, BackToLogin
  PROVE  FInv'
<1>1. /\ page = "login" /\ flight' = Voided(flight, {"login"})
      /\ page' = page /\ view' = view /\ sent' = sent
      /\ token' = token /\ claims' = claims /\ loading' = loading /\ logins' = logins
      /\ opened' = opened /\ rivalled' = rivalled
  BY DEF BackToLogin, auth, history
<1>2. TypeOK /\ view = Closed /\ token = NoSession /\ ~loading
  BY <1>1 DEF FInv, SessionFits
<1>3. /\ flight' \subseteq Requests
      /\ \A v \in flight' : v.kind # "login" => v \in flight
  BY <1>1, <1>2, VoidedFacts
<1>4. TypeOK'
  BY <1>1, <1>2, <1>3 DEF TypeOK, Requests, Rows
<1>5. SessionFits'
  BY <1>1, <1>2 DEF FInv, SessionFits
<1>6. LiveFitsPage' /\ OwnInv' /\ DashboardIsCurrent' /\ NoStuckSpinner'
  BY <1>1, <1>2, <1>3, ClosedTyped
     DEF FInv, LiveFitsPage, OwnInv, Own, DashboardIsCurrent, NoStuckSpinner, Pages
<1>7. QED
  BY <1>4, <1>5, <1>6 DEF FInv

\* A session begins while requests of earlier ones are in flight: on the login
\* page, or under the pages of another one whose login overlapped.
LEMMA FInvLoginAccepted ==
  ASSUME FInv, NEW r \in flight, LoginAccepted(r)
  PROVE  FInv'
<1> DEFINE s == logins + 1
           me1 == Me(1, s)
           me2 == Me(2, s)
           left == Voided(flight \ {r}, {"login"})
<1>1. /\ r.kind = "login" /\ logins < MaxLogins /\ sent + 2 <= MaxSent
      /\ token' = s /\ logins' = s /\ flight' = left \cup {me1, me2} /\ sent' = sent + 2
      /\ claims' = claims /\ loading' = loading /\ view' = view
      /\ \/ /\ page = "login" /\ page' = "blank"
            /\ opened' = s /\ rivalled' = (Logins(flight) # {r})
         \/ page # "login" /\ page' = page /\ opened' = opened /\ rivalled' = rivalled
  BY DEF LoginAccepted, history
<1>2. TypeOK /\ ~loading
  BY <1>1 DEF FInv, SessionFits
<1>3. s \in Sessions /\ s # NoSession /\ s \in Nat
  BY <1>1, <1>2, FrontendAssumption DEF TypeOK, Sessions, NoSession
<1>4. \A m \in {me1, me2} : m \in Requests /\ m.kind = "me"
  <2>1. TypeOK /\ 0 \in 0..MaxPage /\ NoFilter \in Queries
    BY <1>2, FrontendAssumption
  <2>2. sent + 1 <= MaxSent /\ sent + 2 <= MaxSent
    BY <1>1, <1>2, FrontendAssumption DEF TypeOK
  <2>3. QED
    BY <1>3, <2>1, <2>2, RequestTyped DEF Me
<1>5. /\ left \subseteq Requests
      /\ \A v \in left : v.kind # "login" => v \in flight
      /\ \A v \in left : v.kind = "login" => \E q \in flight : q # r /\ q.kind = "login"
      /\ \A q \in flight : q.kind # "login" => q \in left
  BY <1>1, <1>2, VoidedFacts
<1> HIDE DEF s, me1, me2, left
<1>6. TypeOK'
  <2>1. logins' \in 0..MaxLogins /\ sent' \in 0..MaxSent
    BY <1>1, <1>2, <1>3, FrontendAssumption DEF TypeOK, Sessions
  <2>2. flight' \subseteq Requests
    BY <1>1, <1>4, <1>5
  <2>3. opened' \in Sessions \cup {NoSession} /\ rivalled' \in BOOLEAN
    BY <1>1, <1>2, <1>3 DEF TypeOK
  <2>4. page' \in Pages \cup {"login", "blank"}
    BY <1>1, <1>2 DEF TypeOK
  <2>5. QED
    BY <1>1, <1>2, <1>3, <2>1, <2>2, <2>3, <2>4 DEF TypeOK, Requests, Rows
<1>7. \A v \in flight' : v.kind = "login" => \E q \in flight : q # r /\ q.kind = "login"
  BY <1>1, <1>4, <1>5
<1>8. CASE page = "login"
  <2>1. view = Closed /\ page' = "blank" /\ opened' = s
    BY <1>1, <1>8 DEF FInv, SessionFits
  <2>2. (\E v \in flight' : v.kind = "login") => rivalled'
    BY <1>1, <1>7, <1>8 DEF Logins
  <2>3. SessionFits'
    BY <1>1, <1>2, <1>3, <2>1, <2>2 DEF SessionFits, NoSession
  <2>4. \A q \in flight' : q.kind \in Pages => ~q.live
    BY <1>1, <1>4, <1>5, <1>8 DEF FInv, LiveFitsPage, Pages
  <2>5. LiveFitsPage' /\ OwnInv' /\ DashboardIsCurrent' /\ NoStuckSpinner'
    BY <1>1, <1>2, <2>1, <2>4, ClosedTyped
       DEF LiveFitsPage, OwnInv, DashboardIsCurrent, NoStuckSpinner
  <2>6. QED
    BY <1>6, <2>3, <2>5 DEF FInv
<1>9. CASE page # "login"
  <2>1. /\ rivalled /\ token # NoSession /\ opened # NoSession /\ token = logins
        /\ opened <= token /\ page' = page /\ opened' = opened /\ rivalled' = rivalled
    BY <1>1, <1>9 DEF FInv, SessionFits
  <2>2. opened \in Nat /\ token \in Nat /\ s = token + 1 /\ token' = s
    BY <1>1, <1>2, <2>1 DEF TypeOK, Sessions, NoSession, s
  <2>3. SessionFits'
    BY <1>1, <1>2, <1>3, <1>9, <2>1, <2>2 DEF SessionFits, NoSession
  <2>4. \A i : Own(i) => Own(i)'
    BY <1>3, <2>1, <2>2 DEF Own
  <2>5. \A q \in flight' : q.kind \in Pages => q \in flight
    BY <1>1, <1>4, <1>5 DEF Pages
  <2>6. LiveFitsPage' /\ OwnInv' /\ DashboardIsCurrent'
    BY <1>1, <2>1, <2>4, <2>5 DEF FInv, LiveFitsPage, OwnInv, DashboardIsCurrent
  <2>7. NoStuckSpinner'
    <3>1. ASSUME view.busy PROVE \E q \in flight' : q.live /\ q.kind = page
      <4>1. PICK q \in flight : q.live /\ q.kind = page
        BY <3>1 DEF FInv, NoStuckSpinner
      <4>2. QED
        BY <1>1, <1>5, <1>9, <4>1
    <3>2. QED
      BY <1>1, <1>2, <2>1, <3>1 DEF NoStuckSpinner
  <2>8. QED
    BY <1>6, <2>3, <2>6, <2>7 DEF FInv
<1>10. QED
  BY <1>8, <1>9

\* A reload forgets what is in flight.
LEMMA FInvReload ==
  ASSUME FInv, Reload
  PROVE  FInv'
<1> DEFINE me == Me(1, token)
<1>1. /\ sent < MaxSent /\ claims' = NoSession /\ view' = Closed
      /\ token' = token /\ logins' = logins /\ loading' = (token # NoSession)
      /\ opened' = token /\ rivalled' = FALSE
  BY DEF Reload
<1>2. TypeOK
  BY DEF FInv
<1>3. CASE token = NoSession
  <2>1. page' = "login" /\ flight' = {} /\ sent' = sent /\ loading' = FALSE
    <3>1. ~(token # NoSession)
      BY <1>3
    <3>2. loading' = FALSE
      BY ONLY <1>1, <3>1, Zenon
    <3>3. QED
      BY <1>3, <3>2 DEF Reload
  <2>2. TypeOK'
    BY <1>1, <1>2, <2>1, ClosedTyped DEF TypeOK, Rows
  <2>3. QED
    BY <1>1, <1>3, <2>1, <2>2, ClosedTyped
       DEF FInv, SessionFits, LiveFitsPage, OwnInv, Own, DashboardIsCurrent, NoStuckSpinner
<1>4. CASE token # NoSession
  <2>1. page' = "blank" /\ flight' = {me} /\ sent' = sent + 1 /\ loading' = TRUE
    <3>1. loading' = TRUE
      BY ONLY <1>1, <1>4, Zenon
    <3>2. QED
      BY <1>4, <3>1 DEF Reload
  <2>2. me \in Requests /\ me.kind = "me" /\ me.by = token
    <3>1. /\ sent + 1 <= MaxSent /\ 0 \in 0..MaxPage /\ NoFilter \in Queries
          /\ token \in Sessions \cup {NoSession}
      BY <1>1, <1>2, FrontendAssumption DEF TypeOK
    <3>2. me \in Requests /\ me.kind = "me"
      BY <1>2, <3>1, RequestTyped DEF Me
    <3>3. me.by = token
      BY DEF Me, Request
    <3>4. QED
      BY <3>2, <3>3
  <2> HIDE DEF me
  <2>3. TypeOK'
    <3>1. sent' \in 0..MaxSent
      BY <1>1, <1>2, <2>1, FrontendAssumption DEF TypeOK
    <3>2. flight' \subseteq Requests
      BY <2>1, <2>2
    <3>3. /\ token' \in Sessions \cup {NoSession} /\ claims' \in Sessions \cup {NoSession}
          /\ opened' \in Sessions \cup {NoSession} /\ rivalled' \in BOOLEAN
          /\ loading' \in BOOLEAN /\ logins' \in 0..MaxLogins
          /\ page' \in Pages \cup {"login", "blank"}
      BY <1>1, <1>2, <2>1 DEF TypeOK
    <3>4. view' \in [filters : Queries, shown : Rows \cup {Nothing},
                    busy : BOOLEAN, failed : BOOLEAN]
      BY <1>1, ClosedTyped
    <3>5. QED
      BY <3>1, <3>2, <3>3, <3>4 DEF TypeOK, Requests, Rows
  <2>4. SessionFits' /\ LiveFitsPage' /\ OwnInv'
    <3>1. token \in Nat /\ token = logins
      BY <1>2, <1>4 DEF FInv, SessionFits, TypeOK, Sessions, NoSession
    <3>2. QED
      BY <1>1, <1>4, <2>1, <2>2, <3>1, ClosedTyped
         DEF SessionFits, LiveFitsPage, OwnInv, Own, Pages
  <2>5. DashboardIsCurrent' /\ NoStuckSpinner'
    BY <1>1, <2>1, <2>2, ClosedTyped DEF DashboardIsCurrent, NoStuckSpinner
  <2>6. QED
    BY <2>3, <2>4, <2>5 DEF FInv
<1>5. QED
  BY <1>3, <1>4

(***************************************************************************)
(* The fields of the search page change without a request.                 *)
(***************************************************************************)
LEMMA FInvTypeFilter ==
  ASSUME FInv, NEW q \in Queries, TypeFilter(q)
  PROVE  FInv'
<1>1. /\ page = "search" /\ page' = page /\ flight' = flight /\ sent' = sent
      /\ token' = token /\ claims' = claims /\ loading' = loading /\ logins' = logins
      /\ view' = [view EXCEPT !.filters = q]
      /\ opened' = opened /\ rivalled' = rivalled
  BY DEF TypeFilter, auth, history
<1>2. view \in [filters : Queries, shown : Rows \cup {Nothing},
                busy : BOOLEAN, failed : BOOLEAN]
  BY DEF FInv, TypeOK
<1>3. /\ view' \in [filters : Queries, shown : Rows \cup {Nothing},
                   busy : BOOLEAN, failed : BOOLEAN]
      /\ view'.shown = view.shown /\ view'.busy = view.busy
  BY <1>1, <1>2
<1>4. TypeOK'
  BY <1>1, <1>3 DEF FInv, TypeOK, Rows
<1>5. SessionFits' /\ LiveFitsPage' /\ OwnInv' /\ DashboardIsCurrent' /\ NoStuckSpinner'
  BY <1>1, <1>3
     DEF FInv, SessionFits, LiveFitsPage, OwnInv, Own, DashboardIsCurrent, NoStuckSpinner
<1>6. QED
  BY <1>4, <1>5 DEF FInv

(***************************************************************************)
(* Every step preserves the invariant.                                     *)
(***************************************************************************)
LEMMA FInvNext == FInv /\ [Next]_vars => FInv'
<1> SUFFICES ASSUME FInv, [Next]_vars PROVE FInv'
  OBVIOUS
<1>1. CASE Reload
  BY <1>1, FInvReload
<1>2. CASE Login \/ BackToLogin
  BY <1>2, FInvLogin, FInvBack
<1>3. CASE Logout
  <2>1. EndSession(Detached) /\ UNCHANGED <<logins, sent>>
    BY <1>3 DEF Logout
  <2>2. QED
    BY <2>1, FInvEndSession
<1>4. CASE \/ \E p \in Pages : Open(p)
           \/ \E q \in Queries : ChooseRange(q)
           \/ Submit
           \/ \E p \in 0..MaxPage : TurnPage(p)
  BY <1>4, FInvAsking
<1>5. CASE \E q \in Queries : TypeFilter(q)
  BY <1>5, FInvTypeFilter
<1>6. ASSUME NEW r \in flight, Unauthorized(r) PROVE FInv'
  <2> DEFINE F == Detached \ {r, [r EXCEPT !.live = FALSE]}
  <2>1. EndSession(F) /\ UNCHANGED <<logins, sent>> /\ F \subseteq Detached
    BY <1>6 DEF Unauthorized
  <2> HIDE DEF F
  <2>2. QED
    BY <2>1, FInvEndSession
<1>7. ASSUME NEW r \in flight, LoginFails(r) \/ MeAnswered(r) \/ MeFails(r) PROVE FInv'
  <2>1. /\ r.kind \notin Pages /\ flight' = flight \ {r}
        /\ claims' \in {claims, r.by} /\ loading' \in {loading, FALSE}
        /\ r.kind = "me" => loading' = FALSE
        /\ UNCHANGED <<token, logins, page, view, sent, opened, rivalled>>
    BY <1>7 DEF LoginFails, MeAnswered, MeFails, Pages, auth, history
  <2>2. QED
    BY <2>1, FInvAnswer
<1>8. ASSUME NEW r \in flight, LoginAccepted(r) PROVE FInv'
  BY <1>8, FInvLoginAccepted
<1>9. ASSUME NEW r \in flight, PageAnswered(r) \/ PageFails(r) PROVE FInv'
  BY <1>9, FInvPageResult
<1>10. CASE UNCHANGED vars
  BY <1>10 DEF vars, auth, history, FInv, TypeOK, SessionFits, LiveFitsPage, OwnInv, Own,
               DashboardIsCurrent, NoStuckSpinner, Rows
<1>11. CASE User
  BY <1>1, <1>2, <1>3, <1>4, <1>5, <1>11 DEF User
<1>12. CASE Answers
  BY <1>6, <1>7, <1>8, <1>9, <1>12 DEF Answers
<1>13. QED
  BY <1>10, <1>11, <1>12 DEF Next

\* The invariant of the four theorems.
LEMMA FInvAlways == Spec => []FInv
<1>1. QED
  BY FInvInit, FInvNext, PTL DEF Spec

(***************************************************************************)
(* Every reachable state of the tab is well typed: a row is one of a       *)
(* session, a request is one of a page that exists.                        *)
(***************************************************************************)
THEOREM TabTypes == Spec => []TypeOK
<1>1. FInv => TypeOK
  BY DEF FInv
<1>2. QED
  BY FInvAlways, <1>1, PTL

(***************************************************************************)
(* No row and no request of a session that ended reaches the screen, in    *)
(* whatever order answers, 401s and logouts come; what is there is of the  *)
(* session that is logged in, unless logins overlapped.                    *)
(***************************************************************************)
THEOREM ScreenIsOwn == Spec => []ShownIsOwn
<1>1. FInv => ShownIsOwn
  <2> SUFFICES ASSUME FInv, NEW i \in OnScreen
               PROVE  token # NoSession /\ i \in opened..token /\ (~rivalled => i = token)
    BY DEF ShownIsOwn
  <2>1. Own(i)
    BY DEF FInv, OwnInv, OnScreen
  <2>2. token \in Nat /\ (~rivalled => opened = token)
    BY DEF FInv, SessionFits, TypeOK, Sessions, NoSession
  <2>3. QED
    BY <2>1, <2>2 DEF Own
<1>2. QED
  BY FInvAlways, <1>1, PTL

(***************************************************************************)
(* The dashboard shows the range chosen last, however many answers of      *)
(* earlier ranges come after it.                                           *)
(***************************************************************************)
THEOREM DashboardCurrent == Spec => []DashboardIsCurrent
<1>1. FInv => DashboardIsCurrent
  BY DEF FInv
<1>2. QED
  BY FInvAlways, <1>1, PTL

(***************************************************************************)
(* A page or a tab that loads has a request under way that will end it.    *)
(***************************************************************************)
THEOREM SpinnerEnds == Spec => []NoStuckSpinner
<1>1. FInv => NoStuckSpinner
  BY DEF FInv
<1>2. QED
  BY FInvAlways, <1>1, PTL
=============================================================================
