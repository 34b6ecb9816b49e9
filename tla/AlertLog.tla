------------------------------ MODULE AlertLog ------------------------------
(***************************************************************************)
(* What the alert engine promises, with no engine in it: a log of alerts   *)
(* that grows by whole tenant evaluations.  Each evaluation is one atomic  *)
(* step: its alerts carry one triggered_at and one rule configuration, are *)
(* backed by stored failed logins of the same tenant and source address,   *)
(* name each source once, and keep the cooldown to every earlier alert.    *)
(* AlertEngine implements this specification with a transaction of several *)
(* statements, webhooks, failures and restarts in between.                 *)
(***************************************************************************)
EXTENDS Integers

CONSTANT Size(_)    \* the number of rows in a finite set of rows

VARIABLES now,      \* the database clock
          events,   \* committed failed-login rows
          alerts    \* committed alert rows

vars == <<now, events, alerts>>

(***************************************************************************)
(* The rows a rule counts for one source: those inside its window, counted *)
(* from the time of the evaluation.                                        *)
(***************************************************************************)
Matching(E, t, s, from) ==
    {e \in E : e.tenant = t /\ e.src = s /\ e.at >= from}

Backed(a, E) ==
    /\ a.rule.enabled
    /\ a.rule.threshold <= a.count
    /\ a.count <= Size(Matching(E, a.tenant, a.src, a.at - a.rule.window))

SameKey(a, b) == a.tenant = b.tenant /\ a.src = b.src

\* b may follow a: the cooldown of b's rule has elapsed since a.
Cooled(a, b) == SameKey(a, b) => a.at + b.rule.cooldown <= b.at

Init == now = 0 /\ events = {} /\ alerts = {}

Advance == now' = now + 1 /\ UNCHANGED <<events, alerts>>

Store == /\ events \subseteq events'
         /\ UNCHANGED <<now, alerts>>

Fire ==
    LET new == alerts' \ alerts
    IN  /\ alerts \subseteq alerts'
        /\ \A a, b \in new : /\ a.tenant = b.tenant /\ a.at = b.at
                             /\ a.rule = b.rule
                             /\ a.src = b.src => a = b
        /\ \A a \in new : /\ a.at <= now
                          /\ Backed(a, events)
                          /\ \A b \in alerts : Cooled(b, a)
        /\ UNCHANGED <<now, events>>

Next == Advance \/ Store \/ Fire

Spec == Init /\ [][Next]_vars
=============================================================================
