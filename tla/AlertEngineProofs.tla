-------------------------- MODULE AlertEngineProofs --------------------------
(***************************************************************************)
(* Proofs about AlertEngine, for every set of tenants and sources, every   *)
(* range of rule values and every bound.                                   *)
(***************************************************************************)
EXTENDS AlertEngine, FiniteSetTheorems, TLAPS

(***************************************************************************)
(* What a set of rows counts for a rule can only grow with the set.        *)
(***************************************************************************)
LEMMA MatchingMonotone ==
    ASSUME NEW E, NEW F, IsFiniteSet(F), E \subseteq F, NEW t, NEW s, NEW from
    PROVE  /\ Cardinality(Log!Matching(E, t, s, from)) \in Nat
           /\ Cardinality(Log!Matching(E, t, s, from))
                <= Cardinality(Log!Matching(F, t, s, from))
<1>1. /\ Log!Matching(E, t, s, from) \subseteq Log!Matching(F, t, s, from)
      /\ Log!Matching(F, t, s, from) \subseteq F
  BY DEF Log!Matching
<1>2. IsFiniteSet(Log!Matching(F, t, s, from))
  BY <1>1, FS_Subset
<1>3. IsFiniteSet(Log!Matching(E, t, s, from))
  BY <1>1, <1>2, FS_Subset
<1> QED BY <1>1, <1>2, <1>3, FS_Subset, FS_CardinalityType

\* The rows a transaction counts are the rows the abstract log counts.
LEMMA HitsAreMatching ==
    ASSUME NEW t, NEW s, NEW from
    PROVE  Hits(t, s, from) = Log!Matching(events, t, s, from)
BY DEF Hits, Visible, Log!Matching

\* Marking a row as sent changes nothing else of it.
LEMMA MarkedRow ==
    ASSUME NEW a \in Alert
    PROVE  /\ [a EXCEPT !.sent = TRUE] \in Alert
           /\ \A f \in {"id", "tenant", "src", "at", "count", "rule"} :
                [a EXCEPT !.sent = TRUE][f] = a[f]
BY DEF Alert

(***************************************************************************)
(* Type correctness.  The row that FireCandidate inserts has its type only *)
(* because a rule was read and a tenant is set, so TypeOK is inductive     *)
(* together with the two parts of TxInv that say so.                       *)
(***************************************************************************)
Typed == TypeOK /\ TxOpen /\ TxRule

\* The typed part of the invariant holds before the first tick.
LEMMA TypedInit == Init => Typed
BY RuleAssumption, BoundAssumption, FS_EmptySet
   DEF Init, Typed, TypeOK, TxOpen, TxRule, Running, Statement

\* Every statement of a tick, fault and outside step keeps it.
LEMMA TypedStep == Typed /\ [Next]_vars => Typed'
<1> SUFFICES ASSUME Typed, [Next]_vars PROVE Typed'
  OBVIOUS
<1> USE RuleAssumption, BoundAssumption
    DEF Typed, TypeOK, TxOpen, TxRule, Running, Statement, dbVars, txVars, worldVars
<1>1. CASE Clock
  BY <1>1 DEF Clock
<1>2. CASE \E t \in Tenants, s \in Srcs : BeginIngest(t, s)
  <2>1. PICK t \in Tenants, s \in Srcs : BeginIngest(t, s)
    BY <1>2
  <2>2. PICK n \in 1..MaxEvents :
           ingest' = ingest \cup {[tenant |-> t, src |-> s, at |-> now, n |-> n]}
    BY <2>1 DEF BeginIngest
  <2>3. [tenant |-> t, src |-> s, at |-> now, n |-> n] \in Event
    BY DEF Event
  <2> QED BY <2>1, <2>2, <2>3, FS_AddElement DEF BeginIngest
<1>3. CASE \E e \in ingest : CommitIngest(e)
  BY <1>3, FS_AddElement, FS_RemoveElement DEF CommitIngest
<1>4. CASE \E e \in ingest : AbortIngest(e)
  BY <1>4, FS_RemoveElement DEF AbortIngest
<1>5. CASE \E t \in Tenants, r \in Config : SetRule(t, r)
  BY <1>5 DEF SetRule
<1>6. CASE WakeUp
  BY <1>6 DEF WakeUp
<1>7. CASE DiscoverTenants
  BY <1>7 DEF DiscoverTenants
<1>8. CASE EndTick
  BY <1>8 DEF EndTick, GoToSleep
<1>9. CASE \E t \in Tenants : BeginTx(t)
  BY <1>9 DEF BeginTx
<1>10. CASE SelectRule
  BY <1>10 DEF SelectRule, Committed, NoTx, Enabled
<1>11. CASE Detect
  <2>1. \A s \in Srcs : Candidate(s) \in [src : Srcs, count : Nat]
    BY MatchingMonotone, HitsAreMatching DEF Candidate
  <2>2. Detected \subseteq [src : Srcs, count : Nat]
    BY <2>1 DEF Detected
  <2> QED BY <1>11, <2>2 DEF Detect
<1>12. CASE \E c \in cands : SkipCandidate(c)
  BY <1>12 DEF SkipCandidate
<1>13. CASE \E c \in cands : FireCandidate(c)
  <2>1. PICK c \in cands : FireCandidate(c)
    BY <1>13
  <2>2. rule \in Config /\ cur \in Tenants
    BY <2>1 DEF FireCandidate
  <2>3. [id |-> nextId, tenant |-> cur, src |-> c.src, at |-> start,
         count |-> c.count, rule |-> rule, sent |-> FALSE] \in Alert
    BY <2>2 DEF Alert
  <2>4. rows' \subseteq Alert
    BY <2>1, <2>3 DEF FireCandidate
  <2> QED BY <2>1, <2>4 DEF FireCandidate
<1>14. CASE WebhookAcknowledged
  BY <1>14 DEF WebhookAcknowledged, AlertId
<1>15. CASE WebhookUnanswered
  BY <1>15 DEF WebhookUnanswered, AlertId
<1>16. CASE WebhookFailed
  BY <1>16 DEF WebhookFailed
<1>17. CASE MarkWebhookSent
  <2>1. rows' \subseteq Alert
    BY <1>17, MarkedRow DEF MarkWebhookSent
  <2> QED BY <1>17, <2>1 DEF MarkWebhookSent
<1>18. CASE CommitTx
  BY <1>18 DEF CommitTx, Committed, NoTx
<1>19. CASE StatementFails
  BY <1>19 DEF StatementFails, Fault, Charge, NoTx
<1>20. CASE DiscoverFails
  BY <1>20 DEF DiscoverFails, Fault, Charge, GoToSleep
<1>21. CASE ConnectionLost
  BY <1>21 DEF ConnectionLost, Fault, Charge, LoseRows
<1>22. CASE LostStatementFails
  BY <1>22 DEF LostStatementFails, GoToSleep, NoTx
<1>23. CASE Crash
  BY <1>23 DEF Crash, Fault, NoTx
<1>24. CASE Restart
  BY <1>24 DEF Restart
<1>25. CASE UNCHANGED vars
  BY <1>25 DEF vars
<1> QED BY <1>1, <1>2, <1>3, <1>4, <1>5, <1>6, <1>7, <1>8, <1>9, <1>10, <1>11, <1>12, <1>13, <1>14, <1>15, <1>16, <1>17, <1>18, <1>19, <1>20, <1>21, <1>22, <1>23, <1>24, <1>25 DEF Next, Environment, Engine, Faulty

(***************************************************************************)
(* TypeOK holds in every reachable state, for all constants.               *)
(***************************************************************************)
THEOREM TypeCorrect == Spec => []TypeOK
<1>1. Typed => TypeOK
  BY DEF Typed
<1> QED BY <1>1, TypedInit, TypedStep, PTL DEF Spec
-----------------------------------------------------------------------------
(***************************************************************************)
(* The inductive invariant: CooldownRespected survives COMMIT because TxInv*)
(* has kept the uncommitted rows apart from each other and from every      *)
(* committed alert since they were inserted.                               *)
(***************************************************************************)
IInv == TypeOK /\ TxInv /\ CooldownRespected

InTx == {"rule", "detect", "cands", "webhook", "mark"}

\* A database without alerts satisfies the invariant.
LEMMA IInvInit == Init => IInv
<1> SUFFICES ASSUME Init PROVE IInv
  OBVIOUS
<1>1. Typed
  BY TypedInit
<1>2. TxInv
  BY RuleAssumption DEF Init, TxInv, TxOpen, TxIdle, TxRule, TxCands, TxRows
<1>3. CooldownRespected
  BY DEF Init, CooldownRespected
<1> QED BY <1>1, <1>2, <1>3 DEF IInv, Typed

\* A step that leaves the transaction alone and only adds events.
LEMMA FrameStep ==
    ASSUME TypeOK, TypeOK', TxInv, UNCHANGED <<txVars, alerts, pc>>,
           events \subseteq events', now <= now'
    PROVE  TxInv'
<1> USE DEF txVars
<1>1. \A t, s, from : \A n \in Nat :
        n <= Cardinality(Log!Matching(events, t, s, from))
          => n <= Cardinality(Log!Matching(events', t, s, from))
  <2> TAKE t, s, from
  <2> TAKE n \in Nat
  <2>1. /\ Cardinality(Log!Matching(events, t, s, from)) \in Nat
        /\ Cardinality(Log!Matching(events', t, s, from)) \in Nat
        /\ Cardinality(Log!Matching(events, t, s, from))
             <= Cardinality(Log!Matching(events', t, s, from))
    BY MatchingMonotone DEF TypeOK
  <2> QED BY <2>1
<1>2. \A c \in cands : c.count \in Nat
  BY DEF TypeOK
<1>3. \A a \in rows : a.count \in Nat
  BY DEF TypeOK, Alert
<1>4. TxCands'
  BY <1>1, <1>2 DEF TxInv, TxCands, Supported
<1>5. TxRows'
  BY <1>1, <1>3 DEF TxInv, TxRows, Supported, Apart
<1>6. start' <= now'
  BY DEF TypeOK, TxInv
<1> QED BY <1>4, <1>5, <1>6 DEF TxInv, TxOpen, TxIdle, TxRule

\* A step after which no transaction is open.
LEMMA IdleStep ==
    ASSUME TypeOK', cur' = NoTenant, rows' = {}, cands' = {}, start' <= now',
           pc' \notin InTx
    PROVE  TxInv'
BY RuleAssumption DEF InTx, TxInv, TxOpen, TxIdle, TxRule, TxCands, TxRows

\* What COMMIT may add.
LEMMA CommitApart ==
    ASSUME TypeOK, TxInv, CooldownRespected,
           NEW a \in alerts \cup rows, NEW b \in alerts \cup rows,
           a # b, a.tenant = b.tenant, a.src = b.src
    PROVE  Apart(a, b) \/ Apart(b, a)
<1>1. CASE a \in alerts /\ b \in alerts
  BY <1>1 DEF CooldownRespected
<1>2. CASE a \in rows
  BY <1>2 DEF TxInv, TxRows
<1>3. CASE b \in rows
  BY <1>3 DEF TxInv, TxRows
<1> QED BY <1>1, <1>2, <1>3

\* Every step keeps it; the parts are proved one by one above.
LEMMA IInvStep == IInv /\ [Next]_vars => IInv'
<1> SUFFICES ASSUME IInv, [Next]_vars PROVE IInv'
  OBVIOUS
<1> USE DEF IInv
<1>t. TypeOK'
  BY TypedStep DEF Typed, TxInv
<1>n. now \in Nat /\ start \in Nat /\ start <= now /\ 0 <= now
  BY DEF TypeOK, TxInv
<1>i. cur = NoTenant => rows = {} /\ cands = {}
  BY DEF TxInv, TxIdle
<1>o. pc \notin InTx => cur = NoTenant
  BY DEF TypeOK, TxInv, TxOpen, InTx
<1>c. alerts' = alerts \/ alerts' = alerts \cup rows => CooldownRespected'
  BY CommitApart DEF CooldownRespected, Apart
<1>1. CASE Clock
  <2>1. /\ UNCHANGED <<txVars, alerts, pc>>
        /\ events \subseteq events' /\ now <= now'
    BY <1>1, <1>n DEF Clock, dbVars
  <2> QED BY <2>1, <1>t, <1>c, FrameStep
<1>2. CASE \E t \in Tenants, s \in Srcs : BeginIngest(t, s)
  <2>1. /\ UNCHANGED <<txVars, alerts, pc>>
        /\ events \subseteq events' /\ now <= now'
    BY <1>2, <1>n DEF BeginIngest
  <2> QED BY <2>1, <1>t, <1>c, FrameStep
<1>3. CASE \E e \in ingest : CommitIngest(e)
  <2>1. /\ UNCHANGED <<txVars, alerts, pc>>
        /\ events \subseteq events' /\ now <= now'
    BY <1>3, <1>n DEF CommitIngest
  <2> QED BY <2>1, <1>t, <1>c, FrameStep
<1>4. CASE \E e \in ingest : AbortIngest(e)
  <2>1. /\ UNCHANGED <<txVars, alerts, pc>>
        /\ events \subseteq events' /\ now <= now'
    BY <1>4, <1>n DEF AbortIngest
  <2> QED BY <2>1, <1>t, <1>c, FrameStep
<1>5. CASE \E t \in Tenants, r \in Config : SetRule(t, r)
  <2>1. /\ UNCHANGED <<txVars, alerts, pc>>
        /\ events \subseteq events' /\ now <= now'
    BY <1>5, <1>n DEF SetRule
  <2> QED BY <2>1, <1>t, <1>c, FrameStep
<1>6. CASE UNCHANGED vars
  <2>1. /\ UNCHANGED <<txVars, alerts, pc>>
        /\ events \subseteq events' /\ now <= now'
    BY <1>6, <1>n DEF vars, dbVars
  <2> QED BY <2>1, <1>t, <1>c, FrameStep
<1>7. CASE WakeUp
  <2>1. /\ cur' = NoTenant /\ rows' = {} /\ cands' = {} /\ start' <= now'
        /\ pc' \notin InTx /\ alerts' = alerts
    BY <1>7, <1>n, <1>i, <1>o DEF WakeUp, dbVars, txVars, InTx
  <2> QED BY <2>1, <1>t, <1>c, IdleStep
<1>8. CASE DiscoverTenants
  <2>1. /\ cur' = NoTenant /\ rows' = {} /\ cands' = {} /\ start' <= now'
        /\ pc' \notin InTx /\ alerts' = alerts
    BY <1>8, <1>n, <1>i, <1>o DEF DiscoverTenants, dbVars, txVars, InTx
  <2> QED BY <2>1, <1>t, <1>c, IdleStep
<1>9. CASE EndTick
  <2>1. /\ cur' = NoTenant /\ rows' = {} /\ cands' = {} /\ start' <= now'
        /\ pc' \notin InTx /\ alerts' = alerts
    BY <1>9, <1>n, <1>i, <1>o DEF EndTick, GoToSleep, dbVars, txVars, InTx
  <2> QED BY <2>1, <1>t, <1>c, IdleStep
<1>10. CASE StatementFails
  <2>1. /\ cur' = NoTenant /\ rows' = {} /\ cands' = {} /\ start' <= now'
        /\ pc' \notin InTx /\ alerts' = alerts
    BY <1>10, <1>n, <1>i, <1>o DEF StatementFails, NoTx, dbVars, InTx
  <2> QED BY <2>1, <1>t, <1>c, IdleStep
<1>11. CASE DiscoverFails
  <2>1. /\ cur' = NoTenant /\ rows' = {} /\ cands' = {} /\ start' <= now'
        /\ pc' \notin InTx /\ alerts' = alerts
    BY <1>11, <1>n, <1>i, <1>o DEF DiscoverFails, GoToSleep, dbVars, txVars, InTx
  <2> QED BY <2>1, <1>t, <1>c, IdleStep
<1>12. CASE LostStatementFails
  <2>1. /\ cur' = NoTenant /\ rows' = {} /\ cands' = {} /\ start' <= now'
        /\ pc' \notin InTx /\ alerts' = alerts
    BY <1>12, <1>n, <1>i, <1>o DEF LostStatementFails, GoToSleep, NoTx, dbVars, InTx
  <2> QED BY <2>1, <1>t, <1>c, IdleStep
<1>13. CASE Restart
  <2>1. /\ cur' = NoTenant /\ rows' = {} /\ cands' = {} /\ start' <= now'
        /\ pc' \notin InTx /\ alerts' = alerts
    BY <1>13, <1>n, <1>i, <1>o DEF Restart, dbVars, txVars, InTx
  <2> QED BY <2>1, <1>t, <1>c, IdleStep
<1>14. CASE Crash
  <2>1. /\ cur' = NoTenant /\ rows' = {} /\ cands' = {} /\ start' <= now'
        /\ pc' \notin InTx /\ (alerts' = alerts \/ alerts' = alerts \cup rows)
    BY <1>14, <1>n, <1>i, <1>o DEF Crash, NoTx, InTx
  <2> QED BY <2>1, <1>t, <1>c, IdleStep
<1>15. CASE CommitTx
  <2>1. /\ cur' = NoTenant /\ rows' = {} /\ cands' = {} /\ start' <= now'
        /\ pc' \notin InTx /\ alerts' = alerts \cup rows
    BY <1>15, <1>n, <1>i, <1>o DEF CommitTx, Committed, NoTx, InTx
  <2> QED BY <2>1, <1>t, <1>c, IdleStep
<1>16. CASE \E t \in Tenants : BeginTx(t)
  BY <1>16, <1>t, <1>n, <1>i, <1>o, <1>c, RuleAssumption
     DEF BeginTx, dbVars, InTx, TxInv, TxOpen, TxIdle, TxRule, TxCands, TxRows
<1>17. CASE SelectRule
  <2>1. CASE Enabled(rules[cur])
    BY <1>17, <2>1, <1>t, <1>n, <1>c
       DEF SelectRule, Enabled, dbVars, TypeOK, TxInv, TxOpen, TxIdle, TxRule, TxCands, TxRows
  <2>2. CASE ~Enabled(rules[cur])
    <3>1. /\ cur' = NoTenant /\ rows' = {} /\ cands' = {} /\ start' <= now'
          /\ pc' \notin InTx /\ alerts' = alerts
      BY <1>17, <2>2, <1>n DEF SelectRule, Committed, NoTx, dbVars, InTx
    <3> QED BY <3>1, <1>t, <1>c, IdleStep
  <2> QED BY <2>1, <2>2
<1>18. CASE Detect
  <2>1. /\ cands' = Detected /\ rows' = {} /\ rule' = rule /\ start' = start
        /\ cur' = cur /\ pc' = "cands" /\ cur \in Tenants /\ now' = now
        /\ events' = events /\ alerts' = alerts
    BY <1>18 DEF Detect, dbVars, TxInv, TxOpen, TxIdle, TxRule, TxCands, TxRows
  <2>2. \A s \in Srcs : Candidate(s).count =
            Cardinality(Log!Matching(events, cur, s, start - rule.window))
        /\ Candidate(s).src = s
    BY HitsAreMatching DEF Candidate
  <2>3. \A s \in Srcs : Candidate(s).count \in Nat
    BY <2>2, MatchingMonotone DEF TypeOK
  <2>4. rule \in Config /\ rule.enabled /\ rule.threshold \in Nat
    BY <1>18, RuleAssumption DEF Detect, TxInv, TxRule, Config
  <2>5. \A c \in cands' : /\ rule.threshold <= c.count
                          /\ c.count <= Cardinality(Log!Matching(events, cur, c.src, start - rule.window))
                          /\ \A d \in cands' : c.src = d.src => c = d
    BY <2>1, <2>2, <2>3, <2>4 DEF Detected
  <2>6. TxCands' /\ TxRows'
    BY <2>1, <2>5 DEF TxCands, TxRows, Supported
  <2> QED BY <1>t, <1>n, <1>c, <2>1, <2>4, <2>6, RuleAssumption
          DEF TxInv, TxOpen, TxIdle, TxRule
<1>19. CASE \E c \in cands : SkipCandidate(c)
  <2>1. PICK c \in cands : SkipCandidate(c)
    BY <1>19
  <2> QED BY <2>1, <1>t, <1>n, <1>c
          DEF SkipCandidate, dbVars, TxInv, TxOpen, TxIdle, TxRule, TxCands, TxRows, Supported, Apart
<1>20. CASE \E c \in cands : FireCandidate(c)
  <2>1. PICK c \in cands : FireCandidate(c)
    BY <1>20
  <2> DEFINE new == [id |-> nextId, tenant |-> cur, src |-> c.src, at |-> start,
                     count |-> c.count, rule |-> rule, sent |-> FALSE]
  <2>2. /\ rows' = rows \cup {new} /\ cands' = cands \ {c} /\ rule' = rule
        /\ start' = start /\ cur' = cur /\ now' = now /\ events' = events
        /\ alerts' = alerts /\ pc = "cands" /\ pc' \in {"cands", "webhook"}
        /\ PastCooldown(c.src)
    BY <2>1 DEF FireCandidate
  <2>3. cur \in Tenants /\ rule \in Config /\ rule.enabled
        /\ rule.cooldown \in Nat
    BY <2>2, RuleAssumption DEF TxInv, TxOpen, TxRule, Config
  <2>4. TxCands'
    BY <2>2 DEF TxInv, TxCands, Supported
  <2>5. \A a \in rows : a.src # new.src
    BY DEF TxInv, TxCands
  <2>6. \A b \in alerts : new.tenant = b.tenant /\ new.src = b.src => Apart(b, new)
    <3> SUFFICES ASSUME NEW b \in alerts, cur = b.tenant, c.src = b.src
                 PROVE  b.at + rule.cooldown <= start
      BY DEF Apart
    <3>1. b.at <= start - rule.cooldown /\ b.at \in Nat
      BY <2>2 DEF PastCooldown, TypeOK, Alert
    <3> QED BY <3>1, <2>3, <1>n
  <2>7. Supported(cur, new.src, start - rule.window, new.count, rule)
    BY DEF TxInv, TxCands
  <2>8. TxRows'
    <3>1. \A a \in rows : /\ a.tenant = cur /\ a.at = start /\ a.rule = rule
                          /\ Supported(cur, a.src, start - rule.window, a.count, rule)
                          /\ \A b \in rows' : a.src = b.src => a = b
                          /\ \A b \in alerts : a.tenant = b.tenant /\ a.src = b.src
                                                => Apart(b, a)
      BY <2>2, <2>5 DEF TxInv, TxRows
    <3>2. \A b \in rows' : new.src = b.src => new = b
      BY <2>2, <2>5
    <3>3. new.tenant = cur /\ new.at = start /\ new.rule = rule
      OBVIOUS
    <3> HIDE DEF new
    <3> QED BY <2>2, <2>6, <2>7, <3>1, <3>2, <3>3 DEF TxRows, Supported, Apart
  <2> QED BY <1>t, <1>n, <1>c, <2>2, <2>3, <2>4, <2>8, RuleAssumption
          DEF TxInv, TxOpen, TxIdle, TxRule
<1>21. CASE WebhookAcknowledged
  BY <1>21, <1>t, <1>n, <1>c, RuleAssumption
     DEF WebhookAcknowledged, dbVars, txVars, TxInv, TxOpen, TxIdle, TxRule, TxCands, TxRows, Supported, Apart
<1>22. CASE WebhookUnanswered
  BY <1>22, <1>t, <1>n, <1>c, RuleAssumption
     DEF WebhookUnanswered, dbVars, txVars, TxInv, TxOpen, TxIdle, TxRule, TxCands, TxRows, Supported, Apart
<1>23. CASE WebhookFailed
  BY <1>23, <1>t, <1>n, <1>c, RuleAssumption
     DEF WebhookFailed, dbVars, txVars, TxInv, TxOpen, TxIdle, TxRule, TxCands, TxRows, Supported, Apart
<1>24. CASE MarkWebhookSent
  <2> DEFINE f(a) == IF a.id = AlertId THEN [a EXCEPT !.sent = TRUE] ELSE a
  <2>1. /\ rows' = {f(a) : a \in rows} /\ UNCHANGED <<cands, rule, start, cur, now, events, alerts>>
        /\ pc = "mark" /\ pc' = "cands"
    BY <1>24 DEF MarkWebhookSent, dbVars
  <2>2. \A a \in rows : /\ f(a).tenant = a.tenant /\ f(a).src = a.src /\ f(a).at = a.at
                        /\ f(a).count = a.count /\ f(a).rule = a.rule
    BY MarkedRow DEF TypeOK
  <2> HIDE DEF f
  <2>3. TxCands'
    BY <2>1, <2>2 DEF TxInv, TxCands, Supported
  <2>4. TxRows'
    BY <2>1, <2>2 DEF TxInv, TxRows, Supported, Apart
  <2> QED BY <1>t, <1>n, <1>c, <2>1, <2>3, <2>4, RuleAssumption
          DEF TxInv, TxOpen, TxIdle, TxRule
<1>25. CASE ConnectionLost
  <2>1. /\ rows' = {} /\ UNCHANGED <<cands, rule, start, cur, now, events, pc>>
        /\ alerts' = alerts \/ alerts' = alerts \cup rows
    BY <1>25 DEF ConnectionLost, LoseRows
  <2>2. TxCands' /\ TxRows'
    BY <2>1 DEF TxInv, TxCands, TxRows, Supported
  <2> QED BY <1>t, <1>n, <1>c, <2>1, <2>2, RuleAssumption
          DEF TxInv, TxOpen, TxIdle, TxRule
<1> QED
  BY <1>1, <1>2, <1>3, <1>4, <1>5, <1>6, <1>7, <1>8, <1>9, <1>10, <1>11, <1>12, <1>13, <1>14, <1>15, <1>16, <1>17, <1>18, <1>19, <1>20, <1>21, <1>22, <1>23, <1>24, <1>25
     DEF Next, Environment, Engine, Faulty

(***************************************************************************)
(* The open transaction is consistent with the committed state in every    *)
(* reachable state.                                                        *)
(***************************************************************************)
THEOREM TransactionSound == Spec => []TxInv
<1>1. IInv => TxInv
  BY DEF IInv
<1> QED BY <1>1, IInvInit, IInvStep, PTL DEF Spec

(***************************************************************************)
(* Committed alerts of one tenant and source keep the cooldown, through    *)
(* any interleaving with ingest, rule changes, faults and restarts.        *)
(***************************************************************************)
THEOREM CooldownTheorem == Spec => []CooldownRespected
<1>1. IInv => CooldownRespected
  BY DEF IInv
<1> QED BY <1>1, IInvInit, IInvStep, PTL DEF Spec
-----------------------------------------------------------------------------
(***************************************************************************)
(* The refinement: each step is a step of AlertLog or leaves its variables *)
(* alone.  Only a COMMIT, acknowledged or not, is visible there, and TxRows*)
(* is what makes it one atomic evaluation.                                 *)
(***************************************************************************)
LEMMA CommitIsFire ==
    ASSUME TypeOK, TxInv, alerts' = alerts \cup rows, UNCHANGED <<now, events>>
    PROVE  Log!Fire
<1> DEFINE new == alerts' \ alerts
<1>1. new \subseteq rows
  OBVIOUS
<1>2. \A a, b \in rows :
        /\ a.tenant = b.tenant /\ a.at = b.at /\ a.rule = b.rule
        /\ a.src = b.src => a = b
  BY DEF TxInv, TxRows
<1>3. \A a \in rows :
        /\ a.at <= now
        /\ Log!Backed(a, events)
        /\ \A b \in alerts : Log!Cooled(b, a)
  <2> TAKE a \in rows
  <2>1. rule \in Config /\ rule.enabled
    BY DEF TxInv, TxRule, TxIdle, TxOpen, TypeOK
  <2>2. a.at <= now
    BY DEF TxInv, TxRows
  <2>3. /\ a.tenant = cur /\ a.at = start /\ a.rule = rule
        /\ Supported(cur, a.src, start - rule.window, a.count, rule)
    BY DEF TxInv, TxRows
  <2>4. Supported(a.tenant, a.src, a.at - a.rule.window, a.count, a.rule)
    BY <2>3
  <2>5. Log!Backed(a, events)
    <3>1. a.rule.enabled
      BY <2>1, <2>3
    <3> QED BY <2>4, <3>1 DEF Supported, Log!Backed
  <2>6. \A b \in alerts : Log!Cooled(b, a)
    BY DEF TxInv, TxRows, Apart, Log!Cooled, Log!SameKey
  <2> QED BY <2>2, <2>5, <2>6
<1>4. /\ \A a, b \in new :
           /\ a.tenant = b.tenant /\ a.at = b.at /\ a.rule = b.rule
           /\ a.src = b.src => a = b
      /\ \A a \in new :
           /\ a.at <= now
           /\ Log!Backed(a, events)
           /\ \A b \in alerts : Log!Cooled(b, a)
  <2> HIDE DEF new
  <2> QED BY <1>1, <1>2, <1>3
<1>5. alerts \subseteq alerts'
  OBVIOUS
<1> QED BY <1>4, <1>5 DEF Log!Fire

\* Each step is one of AlertLog, or one that AlertLog does not see.
LEMMA StepRefines == IInv /\ [Next]_vars => [Log!Next]_(Log!vars)
<1> SUFFICES ASSUME IInv, [Next]_vars PROVE [Log!Next]_(Log!vars)
  OBVIOUS
<1> USE DEF dbVars, Log!vars
<1>1. CASE Clock
  BY <1>1 DEF Clock, Log!Next, Log!Advance
<1>2. CASE \E e \in ingest : CommitIngest(e)
  BY <1>2 DEF CommitIngest, Log!Next, Log!Store
<1>3. CASE CommitTx
  BY <1>3, CommitIsFire DEF CommitTx, IInv, Log!Next
<1>4. CASE ConnectionLost
  BY <1>4, CommitIsFire DEF ConnectionLost, LoseRows, IInv, Log!Next
<1>5. CASE Crash
  BY <1>5, CommitIsFire DEF Crash, IInv, Log!Next
<1>6. CASE WakeUp
  BY <1>6 DEF WakeUp
<1>7. CASE DiscoverTenants
  BY <1>7 DEF DiscoverTenants
<1>8. CASE EndTick
  BY <1>8 DEF EndTick
<1>9. CASE \E t \in Tenants : BeginTx(t)
  BY <1>9 DEF BeginTx
<1>10. CASE SelectRule
  BY <1>10 DEF SelectRule
<1>11. CASE Detect
  BY <1>11 DEF Detect
<1>12. CASE \E c \in cands : SkipCandidate(c)
  BY <1>12 DEF SkipCandidate
<1>13. CASE \E c \in cands : FireCandidate(c)
  BY <1>13 DEF FireCandidate
<1>14. CASE WebhookAcknowledged
  BY <1>14 DEF WebhookAcknowledged
<1>15. CASE WebhookUnanswered
  BY <1>15 DEF WebhookUnanswered
<1>16. CASE WebhookFailed
  BY <1>16 DEF WebhookFailed
<1>17. CASE MarkWebhookSent
  BY <1>17 DEF MarkWebhookSent
<1>18. CASE StatementFails
  BY <1>18 DEF StatementFails
<1>19. CASE DiscoverFails
  BY <1>19 DEF DiscoverFails
<1>20. CASE LostStatementFails
  BY <1>20 DEF LostStatementFails
<1>21. CASE Restart
  BY <1>21 DEF Restart
<1>22. CASE UNCHANGED vars
  BY <1>22 DEF vars
<1>23. CASE \E t \in Tenants, s \in Srcs : BeginIngest(t, s)
  BY <1>23 DEF BeginIngest
<1>24. CASE \E e \in ingest : AbortIngest(e)
  BY <1>24 DEF AbortIngest
<1>25. CASE \E t \in Tenants, r \in Config : SetRule(t, r)
  BY <1>25 DEF SetRule
<1> QED
  BY <1>1, <1>2, <1>3, <1>4, <1>5, <1>6, <1>7, <1>8, <1>9, <1>10, <1>11, <1>12, <1>13, <1>14, <1>15, <1>16, <1>17, <1>18, <1>19, <1>20, <1>21, <1>22, <1>23, <1>24, <1>25
     DEF Next, Environment, Engine, Faulty

(***************************************************************************)
(* AlertEngine implements AlertLog, for all constants: an evaluation takes *)
(* effect as a whole, on enough stored evidence and past the cooldown.     *)
(***************************************************************************)
THEOREM Refinement == Spec => ImplementsAlertLog
<1>1. Init => Log!Init
  BY DEF Init, Log!Init
<1> QED BY <1>1, IInvInit, IInvStep, StepRefines, PTL
        DEF Spec, ImplementsAlertLog, Log!Spec
-----------------------------------------------------------------------------
(***************************************************************************)
(* RuleInForce speaks of committed alerts only.  What carries it through a *)
(* PATCH in the middle of an evaluation is that the rule the transaction   *)
(* has read was in force at some moment since the transaction began, and   *)
(* that no alert is dated ahead of the clock.                              *)
(***************************************************************************)
HasRead == {"detect", "cands", "webhook", "mark"}

InForceSince(t, r, from) ==
    rules[t] = r \/ \E p \in past[t] : p.rule = r /\ p.until >= from

RuleInv ==
    /\ RuleInForce
    /\ \A a \in alerts : a.at <= now
    /\ pc \in HasRead => InForceSince(cur, rule, start)

\* A step that changes no rule: it commits the open rows or adds no alert.
LEMMA RuleFrame ==
    ASSUME TypeOK, TypeOK', TxInv, RuleInv, UNCHANGED <<rules, past>>, now <= now',
           alerts' = alerts \/ alerts' = alerts \cup rows,
           pc' \in HasRead => pc \in HasRead /\ UNCHANGED <<cur, rule, start>>
    PROVE  RuleInv'
<1>1. \A a \in rows : /\ a.rule.enabled /\ a.at <= now
                      /\ InForceSince(a.tenant, a.rule, a.at)
  <2> TAKE a \in rows
  <2>1. pc \in HasRead /\ cur \in Tenants
    BY DEF TxInv, TxIdle, TxOpen, TypeOK, HasRead
  <2>2. rule.enabled /\ start <= now
    BY <2>1 DEF TxInv, TxRule, HasRead
  <2>3. a.tenant = cur /\ a.at = start /\ a.rule = rule
    BY DEF TxInv, TxRows
  <2> QED BY <2>1, <2>2, <2>3 DEF RuleInv
<1>2. \A a \in alerts' : /\ a.rule.enabled /\ a.at <= now
                         /\ InForceSince(a.tenant, a.rule, a.at)
  BY <1>1 DEF RuleInv, RuleInForce, InForceSince
<1>3. RuleInForce'
  BY <1>2 DEF RuleInForce, InForceSince
<1>4. \A a \in alerts' : a.at <= now'
  BY <1>2 DEF TypeOK, Alert
<1>5. pc' \in HasRead => InForceSince(cur, rule, start)'
  BY DEF RuleInv, InForceSince
<1> QED BY <1>3, <1>4, <1>5 DEF RuleInv

\* A PATCH moves the replaced row, dated now, to the history.
LEMMA RulePatched ==
    ASSUME TypeOK, TxInv, RuleInv, NEW t \in Tenants, NEW r \in Config, SetRule(t, r)
    PROVE  RuleInv'
<1> USE DEF txVars
<1>1. /\ rules' = [rules EXCEPT ![t] = r]
      /\ past' = [past EXCEPT ![t] = @ \cup {[rule |-> rules[t], until |-> now]}]
      /\ UNCHANGED <<alerts, now, pc, cur, rule, start>>
  BY DEF SetRule
<1>2. ASSUME NEW u \in Tenants, NEW q, NEW from \in Nat, from <= now,
             InForceSince(u, q, from)
      PROVE  InForceSince(u, q, from)'
  <2>1. CASE u # t
    <3>1. rules'[u] = rules[u] /\ past'[u] = past[u]
      BY <1>1, <2>1 DEF TypeOK
    <3> QED BY <1>2, <3>1 DEF InForceSince
  <2>2. CASE u = t
    <3>1. past'[u] = past[u] \cup {[rule |-> rules[u], until |-> now]}
      BY <1>1, <2>2 DEF TypeOK
    <3>2. CASE rules[u] = q
      <4> DEFINE last == [rule |-> rules[u], until |-> now]
      <4>1. last \in past'[u] /\ last.rule = q /\ last.until >= from
        BY <1>2, <3>1, <3>2 DEF TypeOK
      <4> QED BY <4>1 DEF InForceSince
    <3>3. CASE \E p \in past[u] : p.rule = q /\ p.until >= from
      BY <3>1, <3>3 DEF InForceSince
    <3> QED BY <1>2, <3>2, <3>3 DEF InForceSince
  <2> QED BY <2>1, <2>2
<1>3. \A a \in alerts : a.tenant \in Tenants /\ a.at \in Nat
  BY DEF TypeOK, Alert
<1>4. RuleInForce'
  <2> SUFFICES ASSUME NEW a \in alerts
               PROVE  a.rule.enabled /\ InForceSince(a.tenant, a.rule, a.at)'
    BY <1>1 DEF RuleInForce, InForceSince
  <2>1. a.rule.enabled /\ a.at <= now /\ InForceSince(a.tenant, a.rule, a.at)
    BY DEF RuleInv, RuleInForce, InForceSince
  <2> QED BY <1>2, <1>3, <2>1
<1>5. pc' \in HasRead => InForceSince(cur, rule, start)'
  <2> SUFFICES ASSUME pc \in HasRead PROVE InForceSince(cur, rule, start)'
    BY <1>1
  <2>1. cur \in Tenants /\ start \in Nat /\ start <= now
    BY DEF TypeOK, TxInv, TxOpen, HasRead
  <2>2. InForceSince(cur, rule, start)
    BY DEF RuleInv
  <2>3. cur' = cur /\ rule' = rule /\ start' = start
    BY <1>1
  <2> QED BY <1>2, <2>1, <2>2, <2>3 DEF InForceSince
<1> QED BY <1>1, <1>4, <1>5 DEF RuleInv

\* A PATCH keeps the past rules in order, and an alert keeps the rule it is under.
LEMMA RuleStep == IInv /\ TypeOK' /\ RuleInv /\ [Next]_vars => RuleInv'
<1> SUFFICES ASSUME IInv, TypeOK', RuleInv, [Next]_vars PROVE RuleInv'
  OBVIOUS
<1> USE DEF dbVars, txVars, worldVars, HasRead
<1>i. TypeOK /\ TxInv
  BY DEF IInv
<1>n. now \in Nat /\ now <= now
  BY <1>i DEF TypeOK
<1>1. CASE Environment
  <2>1. CASE Clock
    <3>1. now <= now' /\ UNCHANGED <<rules, past, alerts, pc, cur, rule, start>>
      BY <1>n, <2>1 DEF Clock
    <3> QED BY <1>i, <3>1, RuleFrame
  <2>2. CASE \E t \in Tenants, r \in Config : SetRule(t, r)
    BY <1>i, <2>2, RulePatched
  <2>3. CASE \E t \in Tenants, s \in Srcs : BeginIngest(t, s)
    <3>1. UNCHANGED <<rules, past, alerts, now, pc, cur, rule, start>>
      BY <2>3 DEF BeginIngest
    <3> QED BY <1>i, <1>n, <3>1, RuleFrame
  <2>4. CASE \E e \in ingest : CommitIngest(e) \/ AbortIngest(e)
    <3>1. UNCHANGED <<rules, past, alerts, now, pc, cur, rule, start>>
      BY <2>4 DEF CommitIngest, AbortIngest
    <3> QED BY <1>i, <1>n, <3>1, RuleFrame
  <2> QED BY <1>1, <2>1, <2>2, <2>3, <2>4 DEF Environment
<1>2. CASE SelectRule
  <2>1. CASE Enabled(rules[cur])
    <3>1. UNCHANGED <<rules, past, alerts, now, cur, start>> /\ rule' = rules[cur]
      BY <1>2, <2>1 DEF SelectRule
    <3> QED BY <3>1 DEF RuleInv, RuleInForce, InForceSince
  <2>2. CASE ~Enabled(rules[cur])
    <3>1. UNCHANGED <<rules, past, alerts, now>> /\ pc' \notin HasRead
      BY <1>2, <2>2 DEF SelectRule, Committed
    <3> QED BY <1>i, <1>n, <3>1, RuleFrame
  <2> QED BY <2>1, <2>2
<1>3. CASE WakeUp \/ DiscoverTenants \/ EndTick \/ \E t \in Tenants : BeginTx(t)
  <2>1. UNCHANGED <<rules, past, alerts, now>> /\ pc' \notin HasRead
    BY <1>3 DEF WakeUp, DiscoverTenants, EndTick, GoToSleep, BeginTx
  <2> QED BY <1>i, <1>n, <2>1, RuleFrame
<1>4. CASE Detect
  <2>1. /\ UNCHANGED <<rules, past, alerts, now, cur, rule, start>>
        /\ pc \in HasRead
    BY <1>4 DEF Detect
  <2> QED BY <1>i, <1>n, <2>1, RuleFrame
<1>5. CASE \E c \in cands : SkipCandidate(c) \/ FireCandidate(c)
  <2>1. /\ UNCHANGED <<rules, past, alerts, now, cur, rule, start>>
        /\ pc \in HasRead
    BY <1>5 DEF SkipCandidate, FireCandidate
  <2> QED BY <1>i, <1>n, <2>1, RuleFrame
<1>6. CASE WebhookAcknowledged \/ WebhookUnanswered \/ WebhookFailed \/ MarkWebhookSent
  <2>1. /\ UNCHANGED <<rules, past, alerts, now, cur, rule, start>>
        /\ pc \in HasRead
    BY <1>6 DEF WebhookAcknowledged, WebhookUnanswered, WebhookFailed, MarkWebhookSent
  <2> QED BY <1>i, <1>n, <2>1, RuleFrame
<1>7. CASE CommitTx
  <2>1. /\ UNCHANGED <<rules, past, now>> /\ alerts' = alerts \cup rows
        /\ pc' \notin HasRead
    BY <1>7 DEF CommitTx, Committed
  <2> QED BY <1>i, <1>n, <2>1, RuleFrame
<1>8. CASE StatementFails \/ DiscoverFails \/ LostStatementFails \/ Restart
  <2>1. UNCHANGED <<rules, past, alerts, now>> /\ pc' \notin HasRead
    BY <1>8 DEF StatementFails, DiscoverFails, LostStatementFails, Restart, GoToSleep
  <2> QED BY <1>i, <1>n, <2>1, RuleFrame
<1>9. CASE ConnectionLost
  <2>1. UNCHANGED <<rules, past, now, pc, cur, rule, start>>
    BY <1>9 DEF ConnectionLost
  <2>2. alerts' = alerts \/ alerts' = alerts \cup rows
    BY <1>9 DEF ConnectionLost, LoseRows
  <2> QED BY <1>i, <1>n, <2>1, <2>2, RuleFrame
<1>10. CASE Crash
  <2>1. UNCHANGED <<rules, past, now>> /\ pc' \notin HasRead
    BY <1>10 DEF Crash
  <2>2. alerts' = alerts \/ alerts' = alerts \cup rows
    BY <1>10 DEF Crash
  <2> QED BY <1>i, <1>n, <2>1, <2>2, RuleFrame
<1>11. CASE UNCHANGED vars
  <2>1. UNCHANGED <<rules, past, alerts, now, pc, cur, rule, start>>
    BY <1>11 DEF vars
  <2> QED BY <1>i, <1>n, <2>1, RuleFrame
<1> QED BY <1>1, <1>2, <1>3, <1>4, <1>5, <1>6, <1>7, <1>8, <1>9, <1>10, <1>11
        DEF Next, Engine, Faulty

\* No alert has a rule yet.
LEMMA RuleInit == Init => RuleInv
BY DEF Init, RuleInv, RuleInForce, HasRead

(***************************************************************************)
(* No alert is ever committed on a rule that was switched off or replaced  *)
(* before its evaluation began, wherever a PATCH falls between the SELECT  *)
(* of the rule and the COMMIT of evaluate_tenant.                          *)
(***************************************************************************)
THEOREM FiredOnRuleInForce == Spec => []RuleInForce
<1>1. RuleInv => RuleInForce
  BY DEF RuleInv
<1>2. Init => IInv /\ RuleInv
  BY IInvInit, RuleInit
<1>3. IInv /\ RuleInv /\ [Next]_vars => IInv' /\ RuleInv'
  BY IInvStep, RuleStep DEF IInv
<1> QED BY <1>1, <1>2, <1>3, PTL DEF Spec
-----------------------------------------------------------------------------
(***************************************************************************)
(* ReceiptsHonest for the committed alerts needs the same of the rows that *)
(* are not committed yet, the ids of both drawn from a sequence that never *)
(* goes back, and that an answer is waited for only after a delivery.      *)
(***************************************************************************)
ReceiptInv ==
    /\ ReceiptsHonest
    /\ \A a \in rows : a.sent => a.id \in delivered
    /\ \A a, b \in rows : a.id = b.id => a = b
    /\ \A a \in alerts, b \in rows : a.id # b.id
    /\ \A a \in alerts \cup rows : a.id < nextId
    /\ pc = "mark" => AlertId \in delivered

\* A step that inserts and marks nothing: rows stay open, are lost or commit.
LEMMA ReceiptFrame ==
    ASSUME TypeOK, ReceiptInv, nextId' = nextId, delivered \subseteq delivered',
           \/ rows' = rows /\ alerts' = alerts
           \/ rows' = {} /\ (alerts' = alerts \/ alerts' = alerts \cup rows),
           pc' = "mark" => AlertId \in delivered'
    PROVE  ReceiptInv'
<1>1. CASE rows' = rows /\ alerts' = alerts
  BY <1>1 DEF ReceiptInv, ReceiptsHonest, AlertId
<1>2. CASE rows' = {} /\ alerts' = alerts
  BY <1>2 DEF ReceiptInv, ReceiptsHonest, AlertId
<1>3. CASE rows' = {} /\ alerts' = alerts \cup rows
  <2>1. \A a, b \in alerts \cup rows : a.id = b.id => a = b
    BY DEF ReceiptInv, ReceiptsHonest
  <2>2. \A a \in alerts \cup rows : a.id < nextId /\ (a.sent => a.id \in delivered)
    BY DEF ReceiptInv, ReceiptsHonest
  <2> QED BY <1>3, <2>1, <2>2 DEF ReceiptInv, ReceiptsHonest, AlertId
<1> QED BY <1>1, <1>2, <1>3

\* INSERT ... RETURNING id takes an id no alert has.
LEMMA ReceiptFire ==
    ASSUME TypeOK, ReceiptInv, NEW c \in cands, FireCandidate(c)
    PROVE  ReceiptInv'
<1> DEFINE new == [id |-> nextId, tenant |-> cur, src |-> c.src, at |-> start,
                   count |-> c.count, rule |-> rule, sent |-> FALSE]
<1>1. /\ rows' = rows \cup {new} /\ nextId' = nextId + 1 /\ alerts' = alerts
      /\ delivered' = delivered /\ pc' # "mark"
  BY DEF FireCandidate, worldVars
<1>2. new.id = nextId /\ ~new.sent
  OBVIOUS
<1>3. \A a \in alerts \cup rows : a.id \in Nat /\ a.id < nextId /\ a.id # nextId
  BY DEF TypeOK, Alert, ReceiptInv
<1>4. nextId \in Nat
  BY DEF TypeOK
<1> HIDE DEF new
<1>5. \A a, b \in rows' : a.id = b.id => a = b
  BY <1>1, <1>2, <1>3 DEF ReceiptInv
<1>6. \A a \in alerts', b \in rows' : a.id # b.id
  BY <1>1, <1>2, <1>3 DEF ReceiptInv
<1>7. \A a \in alerts' \cup rows' : a.id < nextId'
  BY <1>1, <1>2, <1>3, <1>4
<1>8. \A a \in rows' : a.sent => a.id \in delivered'
  BY <1>1, <1>2 DEF ReceiptInv
<1> QED BY <1>1, <1>5, <1>6, <1>7, <1>8 DEF ReceiptInv, ReceiptsHonest

\* UPDATE alerts SET webhook_sent_at ... WHERE id = the delivered one.
LEMMA ReceiptMark ==
    ASSUME TypeOK, ReceiptInv, MarkWebhookSent
    PROVE  ReceiptInv'
<1> DEFINE f(a) == IF a.id = AlertId THEN [a EXCEPT !.sent = TRUE] ELSE a
<1>1. /\ rows' = {f(a) : a \in rows} /\ UNCHANGED <<alerts, nextId, delivered>>
      /\ pc = "mark" /\ pc' = "cands"
  BY DEF MarkWebhookSent, dbVars, worldVars
<1>2. \A a \in rows : f(a).id = a.id /\ (f(a).sent => a.id = AlertId \/ a.sent)
  BY MarkedRow DEF TypeOK
<1> HIDE DEF f
<1>3. AlertId \in delivered
  BY <1>1 DEF ReceiptInv
<1>4. \A a \in rows' : a.sent => a.id \in delivered'
  BY <1>1, <1>2, <1>3 DEF ReceiptInv
<1>5. \A a, b \in rows' : a.id = b.id => a = b
  BY <1>1, <1>2 DEF ReceiptInv
<1>6. \A a \in alerts', b \in rows' : a.id # b.id
  BY <1>1, <1>2 DEF ReceiptInv
<1>7. \A a \in alerts' \cup rows' : a.id < nextId'
  BY <1>1, <1>2 DEF ReceiptInv
<1> QED BY <1>1, <1>4, <1>5, <1>6, <1>7 DEF ReceiptInv, ReceiptsHonest

\* A webhook goes out only for a row of the open transaction, or a stored one.
LEMMA ReceiptStep == IInv /\ ReceiptInv /\ [Next]_vars => ReceiptInv'
<1> SUFFICES ASSUME IInv, ReceiptInv, [Next]_vars PROVE ReceiptInv'
  OBVIOUS
<1> USE DEF dbVars, txVars, worldVars, AlertId
<1>i. /\ TypeOK
      /\ cur = NoTenant => rows = {}
      /\ pc \notin InTx => cur = NoTenant
  BY DEF IInv, TxInv, TxIdle, TxOpen, TypeOK, InTx
<1>m. pc = "mark" => nextId - 1 \in delivered
  BY DEF ReceiptInv
<1>1. CASE Environment
  <2>1. UNCHANGED <<rows, alerts, nextId, delivered, pc>>
    BY <1>1 DEF Environment, Clock, BeginIngest, CommitIngest, AbortIngest, SetRule
  <2> QED BY <1>i, <1>m, <2>1, ReceiptFrame
<1>2. CASE SelectRule
  <2>1. /\ UNCHANGED <<alerts, nextId, delivered>> /\ rows' \in {rows, {}}
        /\ pc' # "mark"
    BY <1>2 DEF SelectRule, Committed, NoTx
  <2> QED BY <1>i, <1>m, <2>1, ReceiptFrame
<1>3. CASE WakeUp \/ DiscoverTenants \/ EndTick \/ \E t \in Tenants : BeginTx(t)
  <2>1. UNCHANGED <<rows, alerts, nextId, delivered>> /\ pc' # "mark"
    BY <1>3 DEF WakeUp, DiscoverTenants, EndTick, GoToSleep, BeginTx
  <2> QED BY <1>i, <1>m, <2>1, ReceiptFrame
<1>4. CASE Detect \/ \E c \in cands : SkipCandidate(c)
  <2>1. UNCHANGED <<rows, alerts, nextId, delivered>> /\ pc' # "mark"
    BY <1>4 DEF Detect, SkipCandidate
  <2> QED BY <1>i, <1>m, <2>1, ReceiptFrame
<1>5. CASE \E c \in cands : FireCandidate(c)
  BY <1>i, <1>5, ReceiptFire
<1>6. CASE WebhookAcknowledged \/ WebhookUnanswered \/ WebhookFailed
  <2>1. /\ UNCHANGED <<rows, alerts, nextId>> /\ delivered \subseteq delivered'
        /\ pc' = "mark" => nextId - 1 \in delivered'
    BY <1>6 DEF WebhookAcknowledged, WebhookUnanswered, WebhookFailed
  <2> QED BY <1>i, <2>1, ReceiptFrame
<1>7. CASE MarkWebhookSent
  BY <1>i, <1>7, ReceiptMark
<1>8. CASE CommitTx
  <2>1. /\ UNCHANGED <<nextId, delivered>> /\ rows' = {} /\ pc' # "mark"
        /\ alerts' = alerts \cup rows
    BY <1>8 DEF CommitTx, Committed, NoTx
  <2> QED BY <1>i, <2>1, ReceiptFrame
<1>9. CASE StatementFails \/ LostStatementFails
  <2>1. UNCHANGED <<alerts, nextId, delivered>> /\ rows' = {} /\ pc' # "mark"
    BY <1>9 DEF StatementFails, LostStatementFails, GoToSleep, NoTx
  <2> QED BY <1>i, <2>1, ReceiptFrame
<1>10. CASE DiscoverFails \/ Restart
  <2>1. UNCHANGED <<rows, alerts, nextId, delivered>> /\ pc' # "mark"
    BY <1>10 DEF DiscoverFails, Restart, GoToSleep
  <2> QED BY <1>i, <2>1, ReceiptFrame
<1>11. CASE ConnectionLost
  <2>1. /\ UNCHANGED <<nextId, delivered, pc>> /\ rows' = {}
        /\ alerts' = alerts \/ alerts' = alerts \cup rows
    BY <1>11 DEF ConnectionLost, LoseRows
  <2> QED BY <1>i, <1>m, <2>1, ReceiptFrame
<1>12. CASE Crash
  <2>1. /\ UNCHANGED <<nextId, delivered>> /\ rows' = {} /\ pc' # "mark"
        /\ alerts' = alerts \/ alerts' = alerts \cup rows
    BY <1>12 DEF Crash, NoTx
  <2> QED BY <1>i, <2>1, ReceiptFrame
<1>13. CASE UNCHANGED vars
  <2>1. UNCHANGED <<rows, alerts, nextId, delivered, pc>>
    BY <1>13 DEF vars
  <2> QED BY <1>i, <1>m, <2>1, ReceiptFrame
<1> QED BY <1>1, <1>2, <1>3, <1>4, <1>5, <1>6, <1>7, <1>8, <1>9, <1>10, <1>11, <1>12, <1>13
        DEF Next, Engine, Faulty

\* Nothing was delivered yet.
LEMMA ReceiptInit == Init => ReceiptInv
BY DEF Init, ReceiptInv, ReceiptsHonest

(***************************************************************************)
(* webhook_sent_at stands only on alerts whose POST the receiver took, and *)
(* the id it was told names one stored alert, through rolled-back INSERTs, *)
(* lost answers and restarts (the sequence of ids is never rolled back).   *)
(***************************************************************************)
THEOREM ReceiptsAreHonest == Spec => []ReceiptsHonest
<1>1. ReceiptInv => ReceiptsHonest
  BY DEF ReceiptInv
<1>2. Init => IInv /\ ReceiptInv
  BY IInvInit, ReceiptInit
<1>3. IInv /\ ReceiptInv /\ [Next]_vars => IInv' /\ ReceiptInv'
  BY IInvStep, ReceiptStep
<1> QED BY <1>1, <1>2, <1>3, PTL DEF Spec
=============================================================================
