-------------------------- MODULE AlertTimingProofs --------------------------
(***************************************************************************)
(* The real-time properties of AlertEngine, for all constants: how long a  *)
(* tenant can go without an evaluation, and which bursts cannot escape.    *)
(* Both are about the states in which the engine has its connection: one   *)
(* that is lost is never reopened, and how long a killed process stays     *)
(* down is not the engine's to say.  What a restart resumes with is.       *)
(***************************************************************************)
EXTENDS AlertEngineProofs

(***************************************************************************)
(* The allowance of a tenant: a gap since its last evaluation, or since    *)
(* the process began, for itself and for every fault that cost it a turn.  *)
(***************************************************************************)
Base(t) == Later(scanned[t], since) + ScanGap * missed[t]

\* Multiples of a gap, which the solver takes as they are elsewhere.
LEMMA Products ==
    ASSUME NEW g \in Nat, NEW m \in Nat, NEW n \in Nat
    PROVE  /\ g * m \in Nat /\ g * (m + 1) = g * m + g /\ g * (1 + m) = g * m + g
           /\ g * 0 = 0
           /\ m <= n => g * m <= g * n
<1>1. g * m \in Nat /\ g * (m + 1) = g * m + g /\ g * (1 + m) = g * m + g /\ g * 0 = 0
  OBVIOUS
<1>2. ASSUME m <= n PROVE g * m <= g * n
  <2>1. PICK d \in Nat : n = m + d
    <3>1. n - m \in Nat /\ n = m + (n - m)
      BY <1>2
    <3> QED BY <3>1
  <2>2. g * n = g * m + g * d /\ g * d \in Nat /\ g * m \in Nat
    BY <2>1
  <2> QED BY <2>2
<1> QED BY <1>1, <1>2

\* A scan gap is two ticks and a sleep.
LEMMA GapFacts ==
    /\ ScanGap = 2 * TickBudget + Interval
    /\ ScanGap \in Nat /\ TickBudget \in Nat /\ Interval \in Nat /\ IngestLag \in Nat
BY BoundAssumption DEF ScanGap

\* More faults allow more gaps.
LEMMA GapTimes ==
    ASSUME NEW m \in Nat, NEW n \in Nat, m <= n
    PROVE  /\ ScanGap * (1 + m) \in Nat /\ ScanGap * (1 + n) \in Nat
           /\ ScanGap * (1 + m) <= ScanGap * (1 + n)
<1>1. ScanGap \in Nat /\ 1 + m \in Nat /\ 1 + n \in Nat /\ 1 + m <= 1 + n
  BY GapFacts
<1> QED BY <1>1, Products

\* What charging a tenant, a COMMIT and a restart do to its allowance.
LEMMA BaseFacts ==
    ASSUME TypeOK, NEW t \in Tenants
    PROVE  /\ Base(t) \in Nat /\ scanned[t] \in Nat /\ since \in Nat
           /\ Base(t) + ScanGap = Deadline(t)
           /\ UNCHANGED <<scanned[t], since, missed[t]>> => Base(t)' = Base(t)
           /\ UNCHANGED <<scanned[t], since>> /\ missed'[t] = missed[t] + 1
                => Base(t)' = Base(t) + ScanGap
           /\ missed'[t] = 0 /\ scanned'[t] \in Nat /\ since' \in Nat
                => Base(t)' = Later(scanned'[t], since')
<1>1. scanned[t] \in Nat /\ missed[t] \in Nat /\ since \in Nat
  BY DEF TypeOK
<1> DEFINE L == Later(scanned[t], since)
<1>2. /\ ScanGap * missed[t] \in Nat
      /\ ScanGap * (missed[t] + 1) = ScanGap * missed[t] + ScanGap
      /\ ScanGap * (1 + missed[t]) = ScanGap * missed[t] + ScanGap
      /\ ScanGap * 0 = 0
  BY <1>1, GapFacts, Products
<1>3. Base(t)' = Later(scanned'[t], since') + ScanGap * missed'[t]
  BY DEF Base, ScanGap, Later
<1>4. L \in Nat
  BY <1>1 DEF Later
<1>5. Base(t) = L + ScanGap * missed[t] /\ Deadline(t) = L + ScanGap * (1 + missed[t])
  BY DEF Base, Deadline
<1>6. UNCHANGED <<scanned[t], since>> => Later(scanned'[t], since') = L
  BY DEF Later
<1> HIDE DEF L
<1>7. Base(t) \in Nat /\ Base(t) + ScanGap = Deadline(t)
  BY <1>2, <1>4, <1>5, GapFacts
<1>8. ASSUME UNCHANGED <<scanned[t], since, missed[t]>> PROVE Base(t)' = Base(t)
  BY <1>3, <1>5, <1>6, <1>8
<1>9. ASSUME UNCHANGED <<scanned[t], since>>, missed'[t] = missed[t] + 1
      PROVE  Base(t)' = Base(t) + ScanGap
  <2>1. Base(t)' = L + ScanGap * (missed[t] + 1)
    BY <1>3, <1>6, <1>9
  <2> QED BY <1>2, <1>4, <1>5, <2>1, GapFacts
<1>10. ASSUME missed'[t] = 0, scanned'[t] \in Nat, since' \in Nat
       PROVE  Base(t)' = Later(scanned'[t], since')
  <2>1. Base(t)' = Later(scanned'[t], since') + ScanGap * 0
    BY <1>3, <1>10
  <2>2. Later(scanned'[t], since') \in Nat
    BY <1>10 DEF Later
  <2> QED BY <1>2, <2>1, <2>2
<1> QED BY <1>1, <1>7, <1>8, <1>9, <1>10
-----------------------------------------------------------------------------
(***************************************************************************)
(* Where a tenant stands in the round of ticks decides how far its         *)
(* allowance reaches: a tick ahead of it, a tick behind it, or a sleep.    *)
(***************************************************************************)
Slack(t) ==
    IF pc = "sleep" THEN TickBudget + Interval
    ELSE IF pc = "discover" \/ t \in todo \/ t = cur THEN ScanGap
    ELSE TickBudget

TurnInv ==
    /\ since <= now /\ \A t \in Tenants : scanned[t] <= now
    /\ pc = "down" => conn = "ok"
    /\ Connected =>
         /\ now <= due
         /\ pc # "sleep" => due <= now + TickBudget
         /\ cur \in Tenants => due <= start + TickBudget
         /\ \A t \in Tenants : missed[t] <= Lapses /\ due <= Base(t) + Slack(t)

\* The first tick is due at once.
LEMMA TurnInit == Init => TurnInv
<1> SUFFICES ASSUME Init PROVE TurnInv
  OBVIOUS
<1>1. \A t \in Tenants : Base(t) = 0
  BY GapFacts, Products DEF Init, Base, Later
<1>2. Lapses = 0
  BY DEF Init, Lapses, AllFaults
<1> QED BY <1>1, <1>2, GapFacts, RuleAssumption DEF Init, TurnInv, Slack

\* What a fault does to the count of lapses.
LEMMA FaultCounts ==
    ASSUME TypeOK, NEW k \in AllFaults, Fault(k)
    PROVE  /\ Lapses \in Nat /\ Lapses' \in Nat /\ Lapses <= Lapses'
           /\ k \in {"statement", "discover"} => Lapses' = Lapses + 1
<1>1. /\ faults \in [AllFaults -> Nat] /\ faults' = [faults EXCEPT ![k] = @ + 1]
      /\ {"statement", "discover"} \subseteq AllFaults
  BY DEF TypeOK, Fault, AllFaults
<1>2. faults["statement"] \in Nat /\ faults["discover"] \in Nat /\ faults[k] \in Nat
  BY <1>1
<1>3. \A j \in AllFaults : faults'[j] = IF j = k THEN faults[k] + 1 ELSE faults[j]
  BY <1>1
<1>4. /\ faults'["statement"] = IF k = "statement" THEN faults[k] + 1 ELSE faults["statement"]
      /\ faults'["discover"] = IF k = "discover" THEN faults[k] + 1 ELSE faults["discover"]
  BY <1>1, <1>3
<1>5. Lapses' = faults'["statement"] + faults'["discover"]
  BY DEF Lapses
<1> QED BY <1>2, <1>4, <1>5 DEF Lapses

\* Lapses are counted.
LEMMA LapsesType == TypeOK => Lapses \in Nat
BY DEF TypeOK, Lapses, AllFaults

\* A step of an engine without its connection, or that loses it.
LEMMA TurnLost ==
    ASSUME TypeOK, TurnInv, UNCHANGED <<now, since, scanned>>, ~Connected',
           pc' = "down" => conn' = "ok"
    PROVE  TurnInv'
BY DEF TurnInv

\* A step inside the tick that neither takes, ends nor fails an evaluation.
LEMMA TurnInside ==
    ASSUME TypeOK, TurnInv,
           UNCHANGED <<now, due, conn, todo, cur, start, since, scanned, missed, faults>>,
           \/ pc = pc'
           \/ pc \notin {"sleep", "discover", "down"} /\ pc' \notin {"sleep", "discover", "down"}
    PROVE  TurnInv'
<1>1. \A t \in Tenants : Base(t)' = Base(t)
  BY BaseFacts
<1>2. \A t \in Tenants : Slack(t)' = Slack(t)
  BY DEF Slack, ScanGap
<1>3. Lapses' = Lapses /\ Connected' = Connected
  BY DEF Lapses, Connected
<1>4. pc' # "sleep" => pc # "sleep"
  OBVIOUS
<1>5. pc' = "down" => pc = "down"
  OBVIOUS
<1>6. Connected => \A t \in Tenants : missed'[t] <= Lapses' /\ due' <= Base(t)' + Slack(t)'
  BY <1>1, <1>2, <1>3 DEF TurnInv
<1> QED BY <1>3, <1>4, <1>5, <1>6 DEF TurnInv

\* An evaluation commits.
LEMMA TurnCommit ==
    ASSUME TypeOK, TurnInv, UNCHANGED <<now, due, conn, todo, since, faults>>, Committed, NoTx,
           cur \in Tenants, start <= now, pc \in InTx, conn = "ok"
    PROVE  TurnInv'
<1>1. /\ scanned' = [scanned EXCEPT ![cur] = start] /\ missed' = [missed EXCEPT ![cur] = 0]
      /\ pc' = "tenants" /\ cur' = NoTenant
  BY DEF Committed, NoTx
<1>2. /\ now \in Nat /\ due \in Nat /\ start \in Nat /\ since \in Nat /\ Lapses \in Nat
      /\ \A t \in Tenants : scanned[t] \in Nat /\ missed[t] \in Nat
  BY LapsesType DEF TypeOK
<1>3. Lapses' = Lapses /\ Connected
  BY DEF Lapses, Connected, InTx
<1>4. ASSUME NEW t \in Tenants
      PROVE  missed'[t] <= Lapses /\ scanned'[t] <= now /\ due <= Base(t)' + Slack(t)'
  <2>1. CASE t = cur
    <3>1. scanned'[t] = start /\ missed'[t] = 0
      BY <1>1, <2>1 DEF TypeOK
    <3>2. Base(t)' = Later(start, since)
      BY <1>2, <3>1, BaseFacts
    <3>3. Slack(t)' \in {ScanGap, TickBudget}
      BY <1>1 DEF Slack, ScanGap
    <3>4. due <= start + TickBudget
      BY <1>3 DEF TurnInv
    <3>5. Later(start, since) \in Nat /\ start <= Later(start, since)
      BY <1>2 DEF Later
    <3> QED BY <1>2, <3>1, <3>2, <3>3, <3>4, <3>5, GapFacts
  <2>2. CASE t # cur
    <3>1. scanned'[t] = scanned[t] /\ missed'[t] = missed[t]
      BY <1>1, <2>2 DEF TypeOK
    <3>2. Base(t)' = Base(t)
      BY <3>1, BaseFacts
    <3>3. Slack(t)' = Slack(t)
      BY <1>1, <2>2, RuleAssumption DEF Slack, ScanGap, InTx
    <3> QED BY <1>3, <3>1, <3>2, <3>3 DEF TurnInv
  <2> QED BY <2>1, <2>2
<1> QED BY <1>1, <1>3, <1>4, RuleAssumption DEF TurnInv, InTx

\* Every step keeps the allowance: the clock waits for what is due.
LEMMA TurnStep ==
    ASSUME TypeOK, TypeOK', TxInv, TurnInv, [Next]_vars
    PROVE  TurnInv'
<1> USE DEF dbVars, txVars, worldVars
<1>a. /\ now \in Nat /\ due \in Nat /\ start \in Nat /\ since \in Nat /\ start <= now
      /\ Lapses \in Nat
      /\ \A t \in Tenants : scanned[t] \in Nat /\ missed[t] \in Nat /\ Base(t) \in Nat
  BY BaseFacts, LapsesType DEF TypeOK, TxInv
<1>b. pc \notin InTx => cur = NoTenant
  BY DEF TypeOK, TxInv, TxOpen, InTx
<1>c. /\ since <= now /\ \A t \in Tenants : scanned[t] <= now
      /\ pc = "down" => conn = "ok"
  BY DEF TurnInv
<1>d. ASSUME Connected
      PROVE  /\ conn = "ok" /\ pc # "down" /\ now <= due
             /\ pc # "sleep" => due <= now + TickBudget
             /\ \A t \in Tenants : missed[t] <= Lapses /\ due <= Base(t) + Slack(t)
  BY <1>d DEF TurnInv, Connected
<1>e. UNCHANGED faults => Lapses' = Lapses
  BY DEF Lapses
<1>f. UNCHANGED <<since, scanned, missed>> => \A t \in Tenants : Base(t)' = Base(t)
  BY BaseFacts
<1>1. CASE Clock
  <2>1. /\ now' = now + 1 /\ (pc = "down" \/ now < due)
        /\ UNCHANGED <<due, conn, pc, todo, cur, start, since, scanned, missed, faults>>
    BY <1>1 DEF Clock
  <2>2. \A t \in Tenants : Slack(t)' = Slack(t)
    BY <2>1 DEF Slack, ScanGap
  <2>3. since <= now' /\ \A t \in Tenants : scanned[t] <= now'
    BY <1>a, <1>c, <2>1
  <2>4. Connected' = Connected
    BY <2>1 DEF Connected
  <2>5. Connected => now' <= due /\ (pc # "sleep" => due <= now' + TickBudget)
    BY <1>a, <1>d, <2>1, GapFacts
  <2> QED BY <1>e, <1>f, <2>1, <2>2, <2>3, <2>4, <2>5 DEF TurnInv
<1>2. CASE \/ \E t \in Tenants, s \in Srcs : BeginIngest(t, s)
           \/ \E e \in ingest : CommitIngest(e) \/ AbortIngest(e)
           \/ \E t \in Tenants, r \in Config : SetRule(t, r)
           \/ UNCHANGED vars
  <2>1. UNCHANGED <<now, due, conn, pc, todo, cur, start, since, scanned, missed, faults>>
    BY <1>2 DEF BeginIngest, CommitIngest, AbortIngest, SetRule, vars
  <2> QED BY <2>1, TurnInside
<1>3. CASE WakeUp
  <2>1. /\ pc = "sleep" /\ pc' = "discover" /\ due' = now + TickBudget /\ now >= due
        /\ UNCHANGED <<now, conn, cur, start, since, scanned, missed, faults>>
    BY <1>3 DEF WakeUp
  <2>2. \A t \in Tenants : Slack(t) = TickBudget + Interval /\ Slack(t)' = ScanGap
    BY <2>1 DEF Slack, ScanGap
  <2>3. cur = NoTenant
    BY <1>b, <2>1 DEF InTx
  <2>4. Connected' = Connected
    BY <2>1 DEF Connected
  <2>5. Connected => \A t \in Tenants : due' <= Base(t)' + Slack(t)'
    BY <1>a, <1>d, <1>f, <2>1, <2>2, GapFacts
  <2>6. now <= due' /\ due' <= now + TickBudget
    BY <1>a, <2>1, GapFacts
  <2> QED BY <1>c, <1>d, <1>e, <2>1, <2>3, <2>4, <2>5, <2>6, RuleAssumption DEF TurnInv
<1>4. CASE DiscoverTenants
  <2>1. /\ pc = "discover" /\ pc' = "tenants" /\ todo' = Tenants
        /\ UNCHANGED <<now, due, conn, cur, start, since, scanned, missed, faults>>
    BY <1>4 DEF DiscoverTenants
  <2>2. \A t \in Tenants : Slack(t)' = Slack(t)
    BY <2>1 DEF Slack, ScanGap
  <2>3. Connected' = Connected
    BY <2>1 DEF Connected
  <2> QED BY <1>e, <1>f, <2>1, <2>2, <2>3 DEF TurnInv
<1>5. CASE EndTick
  <2>1. /\ pc = "tenants" /\ pc' = "sleep" /\ todo = {} /\ due' = now + Interval
        /\ UNCHANGED <<now, conn, cur, start, since, scanned, missed, faults>>
    BY <1>5 DEF EndTick, GoToSleep
  <2>2. cur = NoTenant
    BY <1>b, <2>1 DEF InTx
  <2>3. \A t \in Tenants : Slack(t) = TickBudget /\ Slack(t)' = TickBudget + Interval
    BY <2>1, <2>2, RuleAssumption DEF Slack
  <2>4. Connected' = Connected
    BY <2>1 DEF Connected
  <2>5. Connected => \A t \in Tenants : due' <= Base(t)' + Slack(t)'
    BY <1>a, <1>d, <1>f, <2>1, <2>3, GapFacts
  <2>6. now <= due'
    BY <1>a, <2>1, GapFacts
  <2> QED BY <1>c, <1>d, <1>e, <2>1, <2>2, <2>4, <2>5, <2>6, RuleAssumption DEF TurnInv
<1>6. CASE \E t \in Tenants : BeginTx(t)
  <2>1. PICK u \in Tenants : BeginTx(u)
    BY <1>6
  <2>2. /\ pc = "tenants" /\ pc' = "rule" /\ u \in todo /\ todo' = todo \ {u} /\ cur' = u
        /\ start' = now /\ UNCHANGED <<now, due, conn, since, scanned, missed, faults>>
    BY <2>1 DEF BeginTx
  <2>3. cur = NoTenant
    BY <1>b, <2>2 DEF InTx
  <2>4. \A t \in Tenants : Slack(t)' = Slack(t)
    BY <2>2, <2>3, RuleAssumption DEF Slack, ScanGap
  <2>5. Connected' = Connected
    BY <2>2 DEF Connected
  <2> QED BY <1>c, <1>d, <1>e, <1>f, <2>2, <2>4, <2>5 DEF TurnInv
<1>7. CASE SelectRule
  <2>1. CASE Enabled(rules[cur])
    <3>1. /\ pc = "rule" /\ pc' = "detect"
          /\ UNCHANGED <<now, due, conn, todo, cur, start, since, scanned, missed, faults>>
      BY <1>7, <2>1 DEF SelectRule
    <3> QED BY <3>1, TurnInside
  <2>2. CASE ~Enabled(rules[cur])
    <3>1. /\ UNCHANGED <<now, due, conn, todo, since, faults>> /\ Committed /\ NoTx
          /\ pc = "rule" /\ conn = "ok"
      BY <1>7, <2>2 DEF SelectRule
    <3>2. cur \in Tenants /\ pc \in InTx
      BY <3>1 DEF TxInv, TxOpen, InTx
    <3> QED BY <1>a, <3>1, <3>2, TurnCommit
  <2> QED BY <2>1, <2>2
<1>8. CASE Detect \/ (\E c \in cands : SkipCandidate(c) \/ FireCandidate(c)) \/ MarkWebhookSent
  <2>1. /\ pc \in {"detect", "cands", "mark"} /\ pc' \in {"cands", "webhook"}
        /\ UNCHANGED <<now, due, conn, todo, cur, start, since, scanned, missed, faults>>
    BY <1>8 DEF Detect, SkipCandidate, FireCandidate, MarkWebhookSent
  <2> QED BY <2>1, TurnInside
<1>9. CASE WebhookAcknowledged \/ WebhookUnanswered \/ WebhookFailed
  <2>1. /\ pc = "webhook" /\ pc' \in {"cands", "mark"}
        /\ UNCHANGED <<now, due, conn, todo, cur, start, since, scanned, missed, faults>>
    BY <1>9 DEF WebhookAcknowledged, WebhookUnanswered, WebhookFailed
  <2> QED BY <2>1, TurnInside
<1>10. CASE CommitTx
  <2>1. /\ UNCHANGED <<now, due, conn, todo, since, faults>> /\ Committed /\ NoTx
        /\ pc = "cands" /\ conn = "ok"
    BY <1>10 DEF CommitTx
  <2>2. cur \in Tenants /\ pc \in InTx
    BY <2>1 DEF TxInv, TxOpen, InTx
  <2> QED BY <1>a, <2>1, <2>2, TurnCommit
<1>11. CASE StatementFails
  <2>1. /\ cur # NoTenant /\ pc' = "tenants" /\ cur' = NoTenant /\ conn = "ok"
        /\ Fault("statement")
        /\ missed' = [t \in Tenants |-> IF t = cur THEN missed[t] + 1 ELSE missed[t]]
        /\ UNCHANGED <<now, due, conn, todo, since, scanned>>
    BY <1>11 DEF StatementFails, Charge, NoTx
  <2>2. cur \in Tenants /\ pc \in InTx
    BY <2>1 DEF TypeOK, TxInv, TxOpen, InTx
  <2>3. Lapses' = Lapses + 1 /\ Connected
    BY <2>1, <2>2, FaultCounts DEF AllFaults, Connected, InTx
  <2>4. ASSUME NEW t \in Tenants
        PROVE  missed'[t] <= Lapses' /\ due <= Base(t)' + Slack(t)'
    <3>1. CASE t = cur
      <4>1. missed'[t] = missed[t] + 1 /\ scanned'[t] = scanned[t]
        BY <2>1, <3>1
      <4>2. Base(t)' = Base(t) + ScanGap
        BY <2>1, <4>1, BaseFacts
      <4>3. Slack(t) = ScanGap
        BY <2>2, <3>1 DEF Slack, InTx
      <4>4. Slack(t)' \in {ScanGap, TickBudget}
        BY <2>1 DEF Slack, ScanGap
      <4> QED BY <1>a, <1>d, <2>3, <4>1, <4>2, <4>3, <4>4, GapFacts
    <3>2. CASE t # cur
      <4>1. missed'[t] = missed[t] /\ scanned'[t] = scanned[t]
        BY <2>1, <3>2
      <4>2. Base(t)' = Base(t)
        BY <2>1, <4>1, BaseFacts
      <4>3. Slack(t)' = Slack(t)
        BY <2>1, <2>2, <3>2, RuleAssumption DEF Slack, ScanGap, InTx
      <4> QED BY <1>a, <1>d, <2>3, <4>1, <4>2, <4>3
    <3> QED BY <3>1, <3>2
  <2>5. pc # "sleep"
    BY <2>2 DEF InTx
  <2> QED BY <1>c, <1>d, <2>1, <2>3, <2>4, <2>5, RuleAssumption DEF TurnInv
<1>12. CASE DiscoverFails
  <2>1. /\ pc = "discover" /\ pc' = "sleep" /\ due' = now + Interval /\ conn = "ok"
        /\ Fault("discover")
        /\ missed' = [t \in Tenants |-> missed[t] + 1]
        /\ UNCHANGED <<now, conn, cur, start, since, scanned>>
    BY <1>12 DEF DiscoverFails, Charge, GoToSleep
  <2>2. cur = NoTenant
    BY <1>b, <2>1 DEF InTx
  <2>3. Lapses' = Lapses + 1 /\ Connected
    BY <2>1, FaultCounts DEF AllFaults, Connected
  <2>4. ASSUME NEW t \in Tenants
        PROVE  missed'[t] <= Lapses' /\ due' <= Base(t)' + Slack(t)'
    <3>1. missed'[t] = missed[t] + 1 /\ scanned'[t] = scanned[t]
      BY <2>1
    <3>2. Base(t)' = Base(t) + ScanGap
      BY <2>1, <3>1, BaseFacts
    <3>3. Slack(t) = ScanGap /\ Slack(t)' = TickBudget + Interval
      BY <2>1 DEF Slack
    <3> QED BY <1>a, <1>d, <2>1, <2>3, <3>1, <3>2, <3>3, GapFacts
  <2>5. now <= due'
    BY <1>a, <2>1, GapFacts
  <2> QED BY <1>c, <2>1, <2>2, <2>4, <2>5, RuleAssumption DEF TurnInv
<1>13. CASE ConnectionLost \/ LostStatementFails \/ Crash
  <2>1. /\ UNCHANGED <<now, since, scanned>>
        /\ pc' = "down" => conn' = "ok"
        /\ pc' = "down" \/ conn' = "lost"
    BY <1>13 DEF ConnectionLost, LostStatementFails, Crash, GoToSleep, Running, Statement
  <2> QED BY <2>1, TurnLost DEF Connected
<1>14. CASE Restart
  <2>1. /\ pc = "down" /\ pc' = "discover" /\ due' = now + TickBudget /\ since' = now
        /\ missed' = [t \in Tenants |-> 0]
        /\ UNCHANGED <<now, conn, cur, start, scanned, faults>>
    BY <1>14 DEF Restart
  <2>2. cur = NoTenant
    BY <1>b, <2>1 DEF InTx
  <2>3. \A t \in Tenants : Base(t)' = now
    <3> TAKE t \in Tenants
    <3>1. Base(t)' = Later(scanned[t], now)
      BY <1>a, <2>1, BaseFacts
    <3> QED BY <1>a, <1>c, <3>1 DEF Later
  <2>4. \A t \in Tenants : Slack(t)' = ScanGap
    BY <2>1 DEF Slack, ScanGap
  <2>5. \A t \in Tenants : missed'[t] <= Lapses /\ due' <= Base(t)' + Slack(t)'
    BY <1>a, <2>1, <2>3, <2>4, GapFacts
  <2>6. now <= due' /\ due' <= now + TickBudget
    BY <1>a, <2>1, GapFacts
  <2> QED BY <1>a, <1>c, <1>e, <2>1, <2>2, <2>5, <2>6, RuleAssumption DEF TurnInv
<1> QED BY <1>1, <1>2, <1>3, <1>4, <1>5, <1>6, <1>7, <1>8, <1>9, <1>10, <1>11, <1>12, <1>13, <1>14
        DEF Next, Environment, Engine, Faulty

\* The allowance covers the rest of the round.
LEMMA TurnScans == TypeOK /\ TurnInv => ScannedInTime
<1> SUFFICES ASSUME TypeOK, TurnInv, Connected, NEW t \in Tenants
             PROVE  now <= Deadline(t)
  BY DEF ScannedInTime
<1>1. now \in Nat /\ due \in Nat /\ Base(t) \in Nat
  BY BaseFacts DEF TypeOK
<1>2. now <= due /\ due <= Base(t) + Slack(t)
  BY DEF TurnInv
<1>3. Slack(t) \in {TickBudget + Interval, ScanGap, TickBudget}
  BY DEF Slack
<1>4. now <= Base(t) + ScanGap
  BY <1>1, <1>2, <1>3, GapFacts
<1> QED BY <1>4, BaseFacts

(***************************************************************************)
(* Every tenant is evaluated on time: while the engine has its connection, *)
(* a tenant's last evaluation that committed, or the start of the process, *)
(* is at most one scan gap old, and one more for each fault since that     *)
(* cost this tenant its turn, after any number of kills and restarts.      *)
(***************************************************************************)
THEOREM EveryTenantScanned == Spec => []ScannedInTime
<1>1. Init => IInv /\ TurnInv
  BY IInvInit, TurnInit
<1>2. IInv /\ TurnInv /\ [Next]_vars => IInv' /\ TurnInv'
  BY IInvStep, TurnStep DEF IInv
<1>3. IInv /\ TurnInv => ScannedInTime
  BY TurnScans DEF IInv
<1> QED BY <1>1, <1>2, <1>3, PTL DEF Spec
-----------------------------------------------------------------------------
(***************************************************************************)
(* Bursts.  Rows become visible at most IngestLag after their own time, so *)
(* a burst whose last row is that old is complete: later commits are       *)
(* younger, and every scan that begins from then on counts all of it.      *)
(***************************************************************************)
Burst(t, s, f, l) == {e \in Hits(t, s, f.at) : e.at <= l.at}

IsBurst(t, s, f, l, n) ==
    /\ f \in Burst(t, s, f, l) /\ l \in Burst(t, s, f, l)
    /\ Cardinality(Burst(t, s, f, l)) >= n

FoundSince(t, s, from) == \E a \in alerts : a.tenant = t /\ a.src = s /\ a.at > from

IngestOnTime == \A e \in ingest : e.at <= now /\ now <= e.at + IngestLag

(***************************************************************************)
(* What the open transaction owes a burst that was complete and inside the *)
(* window when it began: a candidate, or an alert within the cooldown.     *)
(***************************************************************************)
Owed(s) ==
    \/ \E c \in cands : c.src = s
    \/ \E a \in alerts \cup rows : a.tenant = cur /\ a.src = s /\ a.at > start - rule.cooldown

TxFinds ==
    conn = "ok" /\ pc \in {"cands", "webhook", "mark"} =>
        \A s \in Srcs, f, l \in events :
            /\ IsBurst(cur, s, f, l, rule.threshold)
            /\ l.at + IngestLag < start /\ start - rule.window <= f.at
            => Owed(s)

(***************************************************************************)
(* A burst that stays in the window long enough is found by the first      *)
(* evaluation that begins after it was complete: none has committed yet,   *)
(* or its alert is there.  A PATCH after that evaluation ends the promise, *)
(* and one before it, while no evaluation has committed since, costs none. *)
(***************************************************************************)
Ready(l) == Later(l.at + IngestLag, since)
Margin   == ScanGap * (1 + Lapses)

RuleKept(t, l) == \A p \in past[t] : p.until <= l.at + IngestLag

NoneMissed ==
    \A t \in Tenants, s \in Srcs : Enabled(rules[t]) =>
        \A f, l \in events :
            /\ IsBurst(t, s, f, l, rules[t].threshold) /\ RuleKept(t, l)
            /\ Ready(l) + Margin <= f.at + rules[t].window
            => \/ scanned[t] <= l.at + IngestLag
               \/ FoundSince(t, s, (l.at + IngestLag) - rules[t].cooldown)

BurstInv == IngestOnTime /\ TxFinds /\ NoneMissed

\* There is no event yet.
LEMMA BurstInit == Init => BurstInv
BY DEF Init, BurstInv, IngestOnTime, TxFinds, NoneMissed

\* An open ingest transaction commits within IngestLag.
LEMMA OnTimeStep ==
    ASSUME TypeOK, IngestOnTime, [Next]_vars
    PROVE  IngestOnTime'
<1> USE DEF dbVars, IngestOnTime
<1>a. /\ now \in Nat /\ \A e \in ingest : e.at \in Nat
  BY DEF TypeOK, Event
<1>1. CASE Clock
  BY <1>1, <1>a, GapFacts DEF Clock
<1>2. CASE \E t \in Tenants, s \in Srcs : BeginIngest(t, s)
  BY <1>2, <1>a, GapFacts DEF BeginIngest
<1>3. CASE \E e \in ingest : CommitIngest(e) \/ AbortIngest(e)
  BY <1>3 DEF CommitIngest, AbortIngest
<1>4. CASE \E t \in Tenants, r \in Config : SetRule(t, r)
  BY <1>4 DEF SetRule
<1>5. CASE Engine
  <2>1. UNCHANGED <<ingest, now>>
    BY <1>5 DEF Engine, WakeUp, DiscoverTenants, EndTick, BeginTx, SelectRule, Detect, SkipCandidate,
       FireCandidate, WebhookAcknowledged, WebhookUnanswered, WebhookFailed, MarkWebhookSent, CommitTx
  <2> QED BY <2>1
<1>6. CASE Faulty
  <2>1. UNCHANGED <<ingest, now>>
    BY <1>6 DEF Faulty, StatementFails, DiscoverFails, ConnectionLost, LostStatementFails, Crash, Restart
  <2> QED BY <2>1
<1>7. CASE UNCHANGED vars
  BY <1>7 DEF vars
<1> QED BY <1>1, <1>2, <1>3, <1>4, <1>5, <1>6, <1>7 DEF Next, Environment

\* A row that commits is younger than any burst that is complete.
LEMMA BurstComplete ==
    ASSUME TypeOK, IngestOnTime, NEW e \in ingest, events' = events \cup {e},
           NEW t, NEW s, NEW n, NEW f \in events', NEW l \in events',
           IsBurst(t, s, f, l, n)', l.at + IngestLag < now
    PROVE  f \in events /\ l \in events /\ IsBurst(t, s, f, l, n)
<1>1. /\ now \in Nat /\ e.at \in Nat /\ f.at \in Nat /\ l.at \in Nat
  BY DEF TypeOK, Event
<1>2. now <= e.at + IngestLag
  BY DEF IngestOnTime
<1>3. ~(e.at <= l.at)
  BY <1>1, <1>2, GapFacts
<1>4. Burst(t, s, f, l)' = Burst(t, s, f, l)
  BY <1>3 DEF Burst, Hits, Visible
<1>5. f \in Burst(t, s, f, l) /\ l \in Burst(t, s, f, l)
  BY <1>4 DEF IsBurst
<1> QED BY <1>4, <1>5 DEF IsBurst, Burst, Hits, Visible

\* A commit of ingest rows.
LEMMA BurstIngest ==
    ASSUME TypeOK, TxInv, TurnInv, BurstInv, NEW e \in ingest, CommitIngest(e)
    PROVE  TxFinds' /\ NoneMissed'
<1> USE DEF txVars, worldVars
<1>1. /\ events' = events \cup {e}
      /\ UNCHANGED <<pc, conn, now, rules, alerts, cur, start, rule, cands, rows, past,
                     since, scanned, faults>>
  BY DEF CommitIngest
<1>2. /\ now \in Nat /\ start \in Nat /\ start <= now /\ IngestOnTime
      /\ \A x \in events' : x.at \in Nat
  BY <1>1 DEF TypeOK, TxInv, BurstInv, Event
<1>3. TxFinds'
  <2> SUFFICES ASSUME conn = "ok", pc \in {"cands", "webhook", "mark"}, NEW s \in Srcs, NEW f \in events', NEW l \in events',
                      IsBurst(cur, s, f, l, rule.threshold)',
                      l.at + IngestLag < start, start - rule.window <= f.at
               PROVE  Owed(s)'
    BY <1>1 DEF TxFinds
  <2>1. l.at + IngestLag < now
    BY <1>2, GapFacts
  <2> DEFINE u == cur
             n == rule.threshold
  <2>2. IsBurst(cur, s, f, l, rule.threshold)' <=> IsBurst(u, s, f, l, n)'
    BY <1>1
  <2>3. f \in events /\ l \in events /\ IsBurst(cur, s, f, l, rule.threshold)
    BY <1>1, <1>2, <2>1, <2>2, BurstComplete
  <2>4. Owed(s)
    BY <2>3 DEF BurstInv, TxFinds
  <2> QED BY <1>1, <2>4 DEF Owed
<1>4. NoneMissed'
  <2> SUFFICES ASSUME NEW t \in Tenants, NEW s \in Srcs, Enabled(rules[t]),
                      NEW f \in events', NEW l \in events',
                      IsBurst(t, s, f, l, rules[t].threshold)', RuleKept(t, l),
                      Ready(l) + Margin <= f.at + rules[t].window,
                      ~(scanned[t] <= l.at + IngestLag)
               PROVE  FoundSince(t, s, (l.at + IngestLag) - rules[t].cooldown)'
    BY <1>1 DEF NoneMissed, RuleKept, Ready, Later, Margin, ScanGap, Lapses
  <2>1. scanned[t] <= now /\ scanned[t] \in Nat
    BY DEF TurnInv, TypeOK
  <2>2. l.at + IngestLag < now
    BY <1>2, <2>1, GapFacts
  <2>3. f \in events /\ l \in events /\ IsBurst(t, s, f, l, rules[t].threshold)
    BY <1>1, <1>2, <2>2, BurstComplete
  <2>4. FoundSince(t, s, (l.at + IngestLag) - rules[t].cooldown)
    BY <2>3 DEF BurstInv, NoneMissed
  <2> QED BY <1>1, <2>4 DEF FoundSince
<1> QED BY <1>3, <1>4
-----------------------------------------------------------------------------
(* The steps that leave the stored rows alone.                             *)

\* Lapses and restarts only shorten the bursts the promise covers, and a rule
\* replaced now makes none for a burst whose evaluation has committed.
LEMMA MissedFrame ==
    ASSUME TypeOK, TypeOK', NoneMissed, UNCHANGED <<events, scanned>>, alerts \subseteq alerts',
           since <= since', Lapses <= Lapses',
           \A t \in Tenants : \/ past'[t] = past[t] /\ rules'[t] = rules[t]
                             \/ \E p \in past'[t] : scanned[t] <= p.until
    PROVE  NoneMissed'
<1> SUFFICES ASSUME NEW t \in Tenants, NEW s \in Srcs, Enabled(rules[t])',
                    NEW f \in events, NEW l \in events,
                    IsBurst(t, s, f, l, rules[t].threshold)', RuleKept(t, l)',
                    Ready(l)' + Margin' <= f.at + rules'[t].window,
                    ~(scanned[t] <= l.at + IngestLag)
             PROVE  FoundSince(t, s, (l.at + IngestLag) - rules[t].cooldown)'
  BY DEF NoneMissed
<1>1. past'[t] = past[t] /\ rules'[t] = rules[t]
  <2> SUFFICES ASSUME NEW p \in past'[t], scanned[t] <= p.until PROVE FALSE
    OBVIOUS
  <2>1. p.until <= l.at + IngestLag
    BY DEF RuleKept
  <2>2. scanned[t] \in Nat /\ p.until \in Nat /\ l.at \in Nat
    BY DEF TypeOK, Event
  <2> QED BY <2>1, <2>2, GapFacts
<1>2. Enabled(rules[t]) /\ IsBurst(t, s, f, l, rules[t].threshold) /\ RuleKept(t, l)
  BY <1>1 DEF Enabled, IsBurst, Burst, Hits, Visible, RuleKept
<1>3. Ready(l) + Margin <= f.at + rules[t].window
  <2>1. Lapses \in Nat /\ Lapses' \in Nat
    BY DEF TypeOK, Lapses, AllFaults
  <2>2. since \in Nat /\ since' \in Nat /\ l.at \in Nat /\ f.at \in Nat
    BY DEF TypeOK, Event
  <2>3. rules[t] \in Config /\ rules[t].window \in Nat
    BY <1>2, RuleAssumption DEF Enabled, TypeOK, Config
  <2>4. Margin \in Nat /\ Margin' \in Nat /\ Margin <= Margin'
    BY <2>1, GapTimes DEF Margin, ScanGap
  <2>5. Ready(l) \in Nat /\ Ready(l)' \in Nat /\ Ready(l) <= Ready(l)'
    BY <2>2, GapFacts DEF Ready, Later
  <2>6. Ready(l)' + Margin' <= f.at + rules[t].window
    BY <1>1
  <2> QED BY <2>2, <2>3, <2>4, <2>5, <2>6
<1>4. FoundSince(t, s, (l.at + IngestLag) - rules[t].cooldown)
  BY <1>1, <1>2, <1>3 DEF NoneMissed
<1> QED BY <1>1, <1>4 DEF FoundSince

\* A step away from the open transaction owes what was owed.
LEMMA FindsFrame ==
    ASSUME TxFinds, UNCHANGED <<events, alerts, conn, cur, start, rule, cands, rows>>,
           pc' \in {"cands", "webhook", "mark"} => pc \in {"cands", "webhook", "mark"}
    PROVE  TxFinds'
BY DEF TxFinds, IsBurst, Burst, Hits, Visible, Owed

\* HAVING count(*) >= threshold: a complete burst inside the window is a candidate.
LEMMA FindsDetect ==
    ASSUME TypeOK, TypeOK', TxInv, Detect
    PROVE  TxFinds'
<1> USE DEF dbVars, worldVars
<1>1. /\ cands' = Detected
      /\ UNCHANGED <<events, alerts, cur, start, rule, rows, now>> /\ pc = "detect"
  BY DEF Detect
<1>2. rule \in Config /\ rule.threshold \in Nat /\ rule.window \in Nat /\ start \in Nat
  BY <1>1, RuleAssumption DEF TxInv, TxRule, TypeOK, Config
<1> SUFFICES ASSUME NEW s \in Srcs, NEW f \in events, NEW l \in events,
                    IsBurst(cur, s, f, l, rule.threshold), start - rule.window <= f.at
             PROVE  \E c \in Detected : c.src = s
  BY <1>1 DEF TxFinds, IsBurst, Burst, Hits, Visible, Owed
<1> DEFINE H == Hits(cur, s, start - rule.window)
           B == Burst(cur, s, f, l)
<1>3. \A e \in events : e.at \in Nat
  BY DEF TypeOK, Event
<1>4. B \subseteq H /\ H \subseteq events
  BY <1>2, <1>3 DEF Burst, Hits, Visible
<1>5. Cardinality(B) <= Cardinality(H) /\ Cardinality(B) \in Nat /\ Cardinality(H) \in Nat
  BY <1>4, FS_Subset, FS_CardinalityType DEF TypeOK
<1>6. Cardinality(B) >= rule.threshold
  BY DEF IsBurst
<1>7. Candidate(s).src = s /\ Candidate(s).count = Cardinality(H)
  BY DEF Candidate
<1> HIDE DEF B, H
<1>8. Candidate(s).count >= rule.threshold
  BY <1>2, <1>5, <1>6, <1>7
<1> QED BY <1>7, <1>8 DEF Detected

\* A candidate is dropped for an alert in its cooldown, or becomes one.
LEMMA FindsCandidate ==
    ASSUME TypeOK, TypeOK', TxInv, TxFinds, NEW c \in cands, SkipCandidate(c) \/ FireCandidate(c)
    PROVE  TxFinds'
<1> USE DEF dbVars, worldVars
<1>1. /\ cands' = cands \ {c} /\ rows \subseteq rows' /\ pc = "cands"
      /\ UNCHANGED <<events, alerts, conn, cur, start, rule>>
  BY DEF SkipCandidate, FireCandidate
<1>2. rule \in Config /\ rule.cooldown \in Nat /\ rule.cooldown > 0 /\ start \in Nat
  <2>1. rule \in Config /\ start \in Nat
    BY <1>1 DEF TxInv, TxRule, TypeOK
  <2>2. rule.cooldown \in Nat \ {0}
    BY <2>1, RuleAssumption DEF Config
  <2> QED BY <2>1, <2>2
<1>3. \E a \in alerts \cup rows' : a.tenant = cur /\ a.src = c.src /\ a.at > start - rule.cooldown
  <2>1. CASE SkipCandidate(c)
    <3>1. PICK a \in alerts \cup rows : /\ a.tenant = cur /\ a.src = c.src
                                        /\ ~(a.at <= start - rule.cooldown)
      BY <2>1 DEF SkipCandidate, PastCooldown
    <3>2. a.at \in Nat
      BY DEF TypeOK, Alert
    <3>3. a.at > start - rule.cooldown
      BY <1>2, <3>1, <3>2
    <3> QED BY <1>1, <3>1, <3>3
  <2>2. CASE FireCandidate(c)
    <3> DEFINE new == [id |-> nextId, tenant |-> cur, src |-> c.src, at |-> start,
                       count |-> c.count, rule |-> rule, sent |-> FALSE]
    <3>1. new \in rows'
      BY <2>2 DEF FireCandidate
    <3>2. new.tenant = cur /\ new.src = c.src /\ new.at = start
      OBVIOUS
    <3>3. start > start - rule.cooldown
      BY <1>2
    <3> HIDE DEF new
    <3> QED BY <3>1, <3>2, <3>3
  <2> QED BY <2>1, <2>2
<1>4. ASSUME NEW s \in Srcs, Owed(s) PROVE Owed(s)'
  <2>1. CASE \E d \in cands : d.src = s /\ d # c
    BY <1>1, <2>1 DEF Owed
  <2>2. CASE c.src = s
    BY <1>1, <1>3, <2>2 DEF Owed
  <2>3. CASE \E a \in alerts \cup rows : a.tenant = cur /\ a.src = s /\ a.at > start - rule.cooldown
    BY <1>1, <2>3 DEF Owed
  <2> QED BY <1>4, <2>1, <2>2, <2>3 DEF Owed
<1> QED BY <1>1, <1>4 DEF TxFinds, IsBurst, Burst, Hits, Visible

\* The mark of a webhook changes no alert that counts.
LEMMA FindsMark ==
    ASSUME TypeOK, TxFinds, MarkWebhookSent
    PROVE  TxFinds'
<1> DEFINE f(a) == IF a.id = AlertId THEN [a EXCEPT !.sent = TRUE] ELSE a
<1>1. /\ rows' = {f(a) : a \in rows} /\ pc = "mark"
      /\ UNCHANGED <<events, alerts, conn, cur, start, rule, cands>>
  BY DEF MarkWebhookSent, dbVars
<1>2. \A a \in rows : f(a).tenant = a.tenant /\ f(a).src = a.src /\ f(a).at = a.at
  BY MarkedRow DEF TypeOK
<1> HIDE DEF f
<1>3. ASSUME NEW s \in Srcs, Owed(s) PROVE Owed(s)'
  <2>1. CASE \E c \in cands : c.src = s
    BY <1>1, <2>1 DEF Owed
  <2>2. CASE \E a \in alerts : a.tenant = cur /\ a.src = s /\ a.at > start - rule.cooldown
    BY <1>1, <2>2 DEF Owed
  <2>3. CASE \E a \in rows : a.tenant = cur /\ a.src = s /\ a.at > start - rule.cooldown
    <3>1. PICK a \in rows : a.tenant = cur /\ a.src = s /\ a.at > start - rule.cooldown
      BY <2>3
    <3>2. /\ f(a) \in rows' /\ f(a).tenant = cur' /\ f(a).src = s
          /\ f(a).at > start' - rule'.cooldown
      BY <1>1, <1>2, <3>1
    <3> QED BY <3>2 DEF Owed
  <2> QED BY <1>3, <2>1, <2>2, <2>3 DEF Owed
<1> QED BY <1>1, <1>3 DEF TxFinds, IsBurst, Burst, Hits, Visible

\* COMMIT: by now no candidate is left, so what the transaction owed is stored.
LEMMA MissedCommit ==
    ASSUME TypeOK, TypeOK', TxInv, TurnInv, RuleInv, TxFinds, NoneMissed, CommitTx
    PROVE  NoneMissed'
<1> USE DEF dbVars
<1>1. /\ pc = "cands" /\ conn = "ok" /\ cands = {} /\ alerts' = alerts \cup rows
      /\ scanned' = [scanned EXCEPT ![cur] = start]
      /\ UNCHANGED <<events, rules, past, since, faults, now>>
  BY DEF CommitTx, Committed
<1>2. /\ cur \in Tenants /\ rule \in Config /\ rule.enabled /\ Connected
      /\ start \in Nat /\ start <= now /\ now \in Nat
  BY <1>1 DEF TxInv, TxOpen, TxRule, TypeOK, Connected
<1> SUFFICES ASSUME NEW t \in Tenants, NEW s \in Srcs, Enabled(rules[t]),
                    NEW f \in events, NEW l \in events,
                    IsBurst(t, s, f, l, rules[t].threshold), RuleKept(t, l),
                    Ready(l) + Margin <= f.at + rules[t].window,
                    ~(scanned'[t] <= l.at + IngestLag)
             PROVE  FoundSince(t, s, (l.at + IngestLag) - rules[t].cooldown)'
  BY <1>1 DEF NoneMissed, Enabled, IsBurst, Burst, Hits, Visible, RuleKept, Ready, Later,
              Margin, ScanGap, Lapses
<1>3. scanned[t] <= l.at + IngestLag \/ FoundSince(t, s, (l.at + IngestLag) - rules[t].cooldown)
  BY DEF NoneMissed
<1>4. CASE FoundSince(t, s, (l.at + IngestLag) - rules[t].cooldown)
  BY <1>1, <1>4 DEF FoundSince
<1>5. CASE scanned[t] <= l.at + IngestLag
  <2>1. t = cur /\ scanned'[t] = start
    BY <1>1, <1>2, <1>5 DEF TypeOK
  <2>2. /\ scanned[t] \in Nat /\ missed[t] \in Nat /\ since \in Nat
        /\ l.at \in Nat /\ f.at \in Nat /\ \A p \in past[t] : p.until \in Nat
        /\ rule.window \in Nat /\ rule.cooldown \in Nat
    <3>1. scanned[t] \in Nat /\ missed[t] \in Nat /\ since \in Nat /\ l.at \in Nat /\ f.at \in Nat
      BY DEF TypeOK, Event
    <3>2. \A p \in past[t] : p.until \in Nat
      BY DEF TypeOK
    <3>3. rule.window \in Nat /\ rule.cooldown \in Nat
      BY <1>2, RuleAssumption DEF Config
    <3> QED BY <3>1, <3>2, <3>3
  <2>3. l.at + IngestLag < start
    BY <1>2, <2>1, <2>2, GapFacts
  <2>4. rules[t] = rule
    <3>1. InForceSince(cur, rule, start)
      BY <1>1 DEF RuleInv, HasRead
    <3>2. ASSUME NEW p \in past[t], p.until >= start PROVE FALSE
      <4>1. p.until <= l.at + IngestLag
        BY DEF RuleKept
      <4> QED BY <1>2, <2>2, <2>3, <3>2, <4>1, GapFacts
    <3> QED BY <2>1, <3>1, <3>2 DEF InForceSince
  <2>5. now <= Later(scanned[t], since) + ScanGap * (1 + missed[t])
    BY <1>2, TurnScans DEF ScannedInTime, Deadline
  <2>6. missed[t] <= Lapses /\ Lapses \in Nat
    BY <1>2, LapsesType DEF TurnInv
  <2>7. /\ ScanGap * (1 + missed[t]) \in Nat /\ Margin \in Nat
        /\ ScanGap * (1 + missed[t]) <= Margin
    BY <2>2, <2>6, GapTimes DEF Margin
  <2>8. /\ Later(scanned[t], since) \in Nat /\ Ready(l) \in Nat
        /\ Later(scanned[t], since) <= Ready(l)
    BY <1>5, <2>2, GapFacts DEF Later, Ready
  <2>9. now <= f.at + rule.window
    BY <1>2, <2>2, <2>4, <2>5, <2>7, <2>8
  <2>10. start - rule.window <= f.at
    BY <1>2, <2>2, <2>9
  <2>11. Owed(s)
    BY <1>1, <2>1, <2>3, <2>4, <2>10 DEF TxFinds
  <2>12. PICK a \in alerts' : a.tenant = cur /\ a.src = s /\ a.at > start - rule.cooldown
    BY <1>1, <2>11 DEF Owed
  <2>13. a.at \in Nat
    BY DEF TypeOK, Alert
  <2>14. a.at > (l.at + IngestLag) - rule.cooldown
    BY <1>2, <2>2, <2>3, <2>12, <2>13, GapFacts
  <2> QED BY <1>1, <2>1, <2>4, <2>12, <2>14 DEF FoundSince
<1> QED BY <1>3, <1>4, <1>5

\* No enabled rule: the evaluation commits, and the promise was not made.
LEMMA MissedNoRule ==
    ASSUME TypeOK, NoneMissed, SelectRule, ~Enabled(rules[cur])
    PROVE  NoneMissed'
<1>1. /\ scanned' = [scanned EXCEPT ![cur] = start]
      /\ UNCHANGED <<events, rules, past, since, faults, alerts>>
  BY DEF SelectRule, Committed, dbVars
<1>2. \A t \in Tenants : Enabled(rules[t]) => scanned'[t] = scanned[t]
  BY <1>1 DEF TypeOK
<1> QED BY <1>1, <1>2 DEF NoneMissed, Enabled, IsBurst, Burst, Hits, Visible, RuleKept, Ready, Later,
                        Margin, ScanGap, Lapses, FoundSince
-----------------------------------------------------------------------------
\* What the step lemma needs of the state, and what it is about.
AInv == IInv /\ RuleInv /\ TurnInv /\ BurstInv

\* A step that takes a transaction no further: it goes on, or is over.
LEMMA BurstFrame ==
    ASSUME TypeOK, TypeOK', BurstInv, IngestOnTime', UNCHANGED <<events, scanned>>,
           alerts \subseteq alerts', since <= since', Lapses <= Lapses',
           \A t \in Tenants : \/ past'[t] = past[t] /\ rules'[t] = rules[t]
                             \/ \E p \in past'[t] : scanned[t] <= p.until,
           \/ pc' \notin {"cands", "webhook", "mark"} \/ conn' = "lost"
           \/ /\ pc \in {"cands", "webhook", "mark"}
              /\ UNCHANGED <<alerts, conn, cur, start, rule, cands, rows>>
    PROVE  BurstInv'
<1>1. NoneMissed'
  BY MissedFrame DEF BurstInv
<1>2. CASE pc' \notin {"cands", "webhook", "mark"} \/ conn' = "lost"
  BY <1>1, <1>2 DEF BurstInv, TxFinds
<1>3. CASE /\ pc \in {"cands", "webhook", "mark"}
           /\ UNCHANGED <<alerts, conn, cur, start, rule, cands, rows>>
  BY <1>1, <1>3, FindsFrame DEF BurstInv
<1> QED BY <1>2, <1>3

\* Every step keeps the promise of detection.
LEMMA BurstStep ==
    ASSUME AInv, TypeOK', [Next]_vars
    PROVE  BurstInv'
<1> USE DEF dbVars, txVars, worldVars
<1>a. /\ TypeOK /\ TxInv /\ TurnInv /\ RuleInv /\ BurstInv
      /\ IngestOnTime /\ TxFinds /\ NoneMissed
  BY DEF AInv, IInv, BurstInv
<1>b. IngestOnTime'
  BY <1>a, OnTimeStep
<1>c. /\ Lapses \in Nat /\ since \in Nat /\ now \in Nat
      /\ since <= now /\ \A t \in Tenants : scanned[t] <= now
  BY <1>a, LapsesType DEF TypeOK, TurnInv
<1>d. /\ UNCHANGED faults => Lapses <= Lapses'
      /\ UNCHANGED since => since <= since'
  BY <1>c DEF Lapses
<1>e. ASSUME NEW k \in AllFaults, Fault(k) PROVE Lapses <= Lapses'
  BY <1>a, <1>e, FaultCounts
<1>f. ASSUME UNCHANGED <<events, scanned, alerts, rules, past, since, faults>>
      PROVE  NoneMissed'
  BY <1>a, <1>d, <1>f, MissedFrame
<1>1. CASE \E e \in ingest : CommitIngest(e)
  BY <1>1, <1>a, <1>b, BurstIngest DEF BurstInv
<1>2. CASE \E t \in Tenants, r \in Config : SetRule(t, r)
  <2>1. PICK u \in Tenants, r \in Config : SetRule(u, r)
    BY <1>2
  <2>2. UNCHANGED <<events, scanned, alerts, since, faults, pc, conn, cur, start, rule, cands, rows>>
    BY <2>1 DEF SetRule
  <2> DEFINE old == [rule |-> rules[u], until |-> now]
  <2>3. rules' = [rules EXCEPT ![u] = r] /\ past' = [past EXCEPT ![u] = @ \cup {old}]
    BY <2>1 DEF SetRule
  <2>4. old.until = now
    OBVIOUS
  <2> HIDE DEF old
  <2>5. ASSUME NEW t \in Tenants
        PROVE  \/ past'[t] = past[t] /\ rules'[t] = rules[t]
               \/ \E p \in past'[t] : scanned[t] <= p.until
    <3>1. CASE t # u
      BY <1>a, <2>3, <3>1 DEF TypeOK
    <3>2. CASE t = u
      <4>1. old \in past'[t]
        BY <1>a, <2>3, <3>2 DEF TypeOK
      <4> QED BY <1>c, <2>4, <4>1
    <3> QED BY <3>1, <3>2
  <2> QED BY <1>a, <1>b, <1>d, <2>2, <2>5, BurstFrame
<1>3. CASE \/ Clock \/ UNCHANGED vars
           \/ \E t \in Tenants, s \in Srcs : BeginIngest(t, s)
           \/ \E e \in ingest : AbortIngest(e)
  <2>1. UNCHANGED <<events, scanned, alerts, since, faults, rules, past,
                    pc, conn, cur, start, rule, cands, rows>>
    BY <1>3 DEF Clock, BeginIngest, AbortIngest, vars
  <2> QED BY <1>a, <1>b, <1>d, <2>1, BurstFrame
<1>4. CASE WakeUp \/ DiscoverTenants \/ EndTick \/ \E t \in Tenants : BeginTx(t)
  <2>1. /\ UNCHANGED <<events, scanned, alerts, since, faults, rules, past>>
        /\ pc' \notin {"cands", "webhook", "mark"}
    BY <1>4 DEF WakeUp, DiscoverTenants, EndTick, GoToSleep, BeginTx
  <2> QED BY <1>a, <1>b, <1>d, <2>1, BurstFrame
<1>5. CASE SelectRule
  <2>1. CASE Enabled(rules[cur])
    <3>1. /\ UNCHANGED <<events, scanned, alerts, since, faults, rules, past>>
          /\ pc' \notin {"cands", "webhook", "mark"}
      BY <1>5, <2>1 DEF SelectRule
    <3> QED BY <1>a, <1>b, <1>d, <3>1, BurstFrame
  <2>2. CASE ~Enabled(rules[cur])
    <3>1. pc' = "tenants"
      BY <1>5, <2>2 DEF SelectRule, Committed
    <3>2. NoneMissed'
      BY <1>a, <1>5, <2>2, MissedNoRule
    <3> QED BY <1>b, <3>1, <3>2 DEF BurstInv, TxFinds
  <2> QED BY <2>1, <2>2
<1>6. CASE Detect
  <2>1. UNCHANGED <<events, scanned, alerts, since, faults, rules, past>>
    BY <1>6 DEF Detect
  <2> QED BY <1>a, <1>b, <1>f, <1>6, <2>1, FindsDetect DEF BurstInv
<1>7. CASE \E c \in cands : SkipCandidate(c) \/ FireCandidate(c)
  <2>1. PICK c \in cands : SkipCandidate(c) \/ FireCandidate(c)
    BY <1>7
  <2>2. UNCHANGED <<events, scanned, alerts, since, faults, rules, past>>
    BY <2>1 DEF SkipCandidate, FireCandidate
  <2> QED BY <1>a, <1>b, <1>f, <2>1, <2>2, FindsCandidate DEF BurstInv
<1>8. CASE WebhookAcknowledged \/ WebhookUnanswered \/ WebhookFailed
  <2>1. /\ UNCHANGED <<events, scanned, alerts, since, faults, rules, past,
                       conn, cur, start, rule, cands, rows>>
        /\ pc = "webhook"
    BY <1>8 DEF WebhookAcknowledged, WebhookUnanswered, WebhookFailed
  <2> QED BY <1>a, <1>b, <1>d, <2>1, BurstFrame
<1>9. CASE MarkWebhookSent
  <2>1. UNCHANGED <<events, scanned, alerts, since, faults, rules, past>>
    BY <1>9 DEF MarkWebhookSent
  <2> QED BY <1>a, <1>b, <1>f, <1>9, <2>1, FindsMark DEF BurstInv
<1>10. CASE CommitTx
  <2>1. pc' = "tenants"
    BY <1>10 DEF CommitTx, Committed
  <2>2. NoneMissed'
    BY <1>a, <1>10, MissedCommit
  <2> QED BY <1>b, <2>1, <2>2 DEF BurstInv, TxFinds
<1>11. CASE StatementFails \/ DiscoverFails
  <2>1. /\ UNCHANGED <<events, scanned, alerts, since, rules, past>>
        /\ Fault("statement") \/ Fault("discover")
        /\ pc' \notin {"cands", "webhook", "mark"}
    BY <1>11 DEF StatementFails, DiscoverFails, GoToSleep
  <2>2. Lapses <= Lapses'
    BY <1>e, <2>1 DEF AllFaults
  <2> QED BY <1>a, <1>b, <1>d, <2>1, <2>2, BurstFrame
<1>12. CASE ConnectionLost \/ Crash
  <2>1. /\ UNCHANGED <<events, scanned, since, rules, past>> /\ alerts \subseteq alerts'
        /\ Fault("connection") \/ Fault("crash")
        /\ conn' = "lost" \/ pc' = "down"
    BY <1>12 DEF ConnectionLost, Crash, LoseRows
  <2>2. Lapses <= Lapses'
    BY <1>e, <2>1 DEF AllFaults
  <2> QED BY <1>a, <1>b, <1>d, <2>1, <2>2, BurstFrame
<1>13. CASE LostStatementFails \/ Restart
  <2>1. /\ UNCHANGED <<events, scanned, alerts, rules, past, faults>>
        /\ since' = since \/ since' = now
        /\ pc' \notin {"cands", "webhook", "mark"}
    BY <1>13 DEF LostStatementFails, Restart, GoToSleep
  <2>2. since <= since'
    BY <1>c, <2>1
  <2> QED BY <1>a, <1>b, <1>d, <2>1, <2>2, BurstFrame
<1> QED BY <1>1, <1>2, <1>3, <1>4, <1>5, <1>6, <1>7, <1>8, <1>9, <1>10, <1>11, <1>12, <1>13
        DEF Next, Environment, Engine, Faulty

\* The scan that must have begun since is one the invariant speaks of.
LEMMA NoneMissedFound == TypeOK /\ TurnInv /\ NoneMissed => BurstDetected
<1> SUFFICES ASSUME TypeOK, TurnInv, NoneMissed, Connected,
                    NEW t \in Tenants, NEW s \in Srcs, Enabled(rules[t]),
                    NEW f \in events, NEW l \in events,
                    f \in Burst(t, s, f, l) /\ l \in Burst(t, s, f, l),
                    Cardinality(Burst(t, s, f, l)) >= rules[t].threshold,
                    \A p \in past[t] : p.until <= l.at + IngestLag,
                    Later(l.at + IngestLag, since) + Margin <= f.at + rules[t].window,
                    now > Later(l.at + IngestLag, since) + Margin
             PROVE  \E a \in alerts : /\ a.tenant = t /\ a.src = s
                                     /\ a.at > (l.at + IngestLag) - rules[t].cooldown
  BY DEF BurstDetected, BurstsWithin, Margin, Burst
<1>0. /\ IsBurst(t, s, f, l, rules[t].threshold) /\ RuleKept(t, l)
      /\ Ready(l) + Margin <= f.at + rules[t].window /\ now > Ready(l) + Margin
  BY DEF IsBurst, RuleKept, Ready
<1>1. /\ scanned[t] \in Nat /\ missed[t] \in Nat /\ since \in Nat /\ now \in Nat /\ l.at \in Nat
      /\ Lapses \in Nat /\ missed[t] <= Lapses
  BY LapsesType DEF TypeOK, TurnInv, Event
<1> DEFINE g == ScanGap * (1 + missed[t])
<1>2. g \in Nat /\ Margin \in Nat /\ g <= Margin
  BY <1>1, GapTimes DEF Margin
<1>3. now <= Later(scanned[t], since) + g
  BY TurnScans DEF ScannedInTime, Deadline
<1> HIDE DEF g
<1>4. ASSUME scanned[t] <= l.at + IngestLag PROVE FALSE
  <2>1. /\ Later(scanned[t], since) \in Nat /\ Ready(l) \in Nat
        /\ Later(scanned[t], since) <= Ready(l)
    BY <1>1, <1>4, GapFacts DEF Later, Ready
  <2> QED BY <1>0, <1>1, <1>2, <1>3, <2>1
<1>5. FoundSince(t, s, (l.at + IngestLag) - rules[t].cooldown)
  BY <1>0, <1>4 DEF NoneMissed
<1> QED BY <1>5 DEF FoundSince

(***************************************************************************)
(* No burst escapes that stays in the window for one scan gap, and one     *)
(* more for every lapse: that long after its rows are committed and the    *)
(* process is up it has an alert or lies in the cooldown of one, wherever  *)
(* the ticks, the commits, the rule changes, the failures and the restarts *)
(* fall.                                                                   *)
(***************************************************************************)
THEOREM NoShortBurstMissed == Spec => []BurstDetected
<1>1. Init => AInv
  BY IInvInit, RuleInit, TurnInit, BurstInit DEF AInv
<1>2. AInv /\ [Next]_vars => AInv'
  <2> SUFFICES ASSUME AInv, [Next]_vars PROVE AInv'
    OBVIOUS
  <2>1. IInv' /\ TypeOK' /\ TypeOK /\ TxInv
    BY IInvStep DEF AInv, IInv
  <2>2. RuleInv'
    BY <2>1, RuleStep DEF AInv
  <2>3. TurnInv'
    BY <2>1, TurnStep DEF AInv
  <2>4. BurstInv'
    BY <2>1, BurstStep
  <2> QED BY <2>1, <2>2, <2>3, <2>4 DEF AInv
<1>3. AInv => BurstDetected
  BY NoneMissedFound DEF AInv, IInv, BurstInv
<1> QED BY <1>1, <1>2, <1>3, PTL DEF Spec
=============================================================================
