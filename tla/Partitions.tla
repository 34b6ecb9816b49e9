------------------------------ MODULE Partitions ------------------------------
(***************************************************************************)
(* The daily partitions of the events table and their maintenance          *)
(* (src/backend/db/init/02_schema.sql, 03_partition_maintenance.sql,       *)
(* `make partitions`).  A row is routed by the day of its event_time, which*)
(* the sending device chooses, to that day's partition or to               *)
(* events_default.  Maintenance runs both functions in one implicit        *)
(* transaction, when somebody calls it.                                    *)
(*                                                                         *)
(* Abstracted: rows with one event day in one table are one element; the   *)
(* locks that make CREATE ... PARTITION OF wait for open inserts make the  *)
(* maintenance atomic here.                                                *)
(***************************************************************************)
EXTENDS Integers

CONSTANTS DaysBack, DaysAhead,    \* PARTITION_DAYS_BACK, PARTITION_DAYS_AHEAD
          RetainDays,             \* PARTITION_RETENTION_DAYS
          MaxSkew,                \* bound: how far event_time is from today
          MaxDay,                 \* bound: days this instance runs
          Default                 \* the name of events_default

ASSUME PartitionAssumption ==
    /\ DaysBack \in Nat /\ DaysAhead \in Nat /\ RetainDays \in Nat
    /\ DaysBack <= RetainDays
    /\ MaxSkew \in Nat /\ MaxDay \in Nat
    /\ Default \notin Int

VARIABLES today,     \* CURRENT_DATE
          parts,     \* days that have a partition events_YYYY_MM_DD
          policies,  \* tables that carry their own tenant_isolation policy
          rows,      \* [day, table]: event day and the table that holds it
          lastOk,    \* day of the last maintenance that committed
          failed     \* the last maintenance raised and was rolled back

vars == <<today, parts, policies, rows, lastOk, failed>>

\* Mutant: an exclusive upper end.
CreatedExclusive == (today - DaysBack)..(today + DaysAhead - 1)

\* Mutant: one day further than asked.
CreatedBeyond == (today - DaysBack)..(today + DaysAhead + 1)

\* The days of the loop, both ends included.
Created == (today - DaysBack)..(today + DaysAhead)

\* The days that the loop has to create: IF NOT EXISTS skips the others.
Missing == Created \ parts

\* Mutant: the last day to keep goes too.
ExpiredEarly == {d \in parts \cup Created : d <= today - RetainDays}

\* The tables that drop_old_partitions finds too old, once the loop is done.
Expired == {d \in parts \cup Created : d < today - RetainDays}

\* 02_schema.sql and 04_seed_partitions.sql on a fresh volume.  The seed uses
\* the functions' default window, which .env.example repeats.
Init ==
    /\ today = 0 /\ lastOk = 0 /\ failed = FALSE
    /\ parts = Created /\ policies = Created \cup {Default}
    /\ rows = {}

NewDay ==
    /\ today < MaxDay /\ today' = today + 1
    /\ UNCHANGED <<parts, policies, rows, lastOk, failed>>

Insert(d) ==
    /\ rows' = rows \cup {[day |-> d, table |-> IF d \in parts THEN d ELSE Default]}
    /\ UNCHANGED <<today, parts, policies, lastOk, failed>>

\* Mutant: only today's range is looked for in events_default.
BlockedToday ==
    \E r \in rows : r.table = Default /\ r.day = today /\ today \notin parts

\* CREATE TABLE ... PARTITION OF raises when events_default holds a row of
\* the new range.
Blocked == \E r \in rows : r.table = Default /\ r.day \in Missing

\* Mutant: new partitions get no policy of their own.
WithPolicyNone(tables) == policies

\* apply_tenant_rls on every one of these tables, new or not.
WithPolicy(tables) == policies \cup tables

\* create_daily_partitions, then drop_old_partitions; both commit together.
MakePartitions ==
    /\ ~Blocked
    /\ parts' = (parts \cup Created) \ Expired
    /\ policies' = WithPolicy(Created) \ Expired
    /\ rows' = {r \in rows : r.table \notin Expired}
    /\ lastOk' = today /\ failed' = FALSE
    /\ UNCHANGED today

MakePartitionsFails ==
    /\ Blocked /\ failed' = TRUE
    /\ UNCHANGED <<today, parts, policies, rows, lastOk>>

Next ==
    \/ NewDay
    \/ \E d \in (today - MaxSkew)..(today + MaxSkew) : Insert(d)
    \/ MakePartitions \/ MakePartitionsFails

Spec == Init /\ [][Next]_vars
-----------------------------------------------------------------------------
(* Properties                                                              *)

(***************************************************************************)
(* Types; partitions lie between the seeded window and the lookahead of    *)
(* the last maintenance, and a dropped table takes its policy with it.     *)
(***************************************************************************)
TypeOK ==
    /\ today \in Nat /\ lastOk \in 0..today /\ failed \in BOOLEAN
    /\ parts \subseteq (0 - DaysBack)..(lastOk + DaysAhead)
    /\ policies \subseteq parts \cup {Default}
    /\ rows \subseteq [day : Int, table : Int \cup {Default}]

(***************************************************************************)
(* Every row sits in the partition of its day, or in events_default when   *)
(* its day has none: no maintenance ever makes two tables claim one day.   *)
(***************************************************************************)
RowsRouted ==
    \A r \in rows : /\ r.table # Default => r.table = r.day /\ r.day \in parts
                    /\ r.table = Default => r.day \notin parts

(***************************************************************************)
(* Each table a row can be in has its own tenant policy, so that reading a *)
(* partition by name stays inside a tenant (02_schema.sql:107-122).        *)
(***************************************************************************)
TablesProtected == parts \cup {Default} \subseteq policies

(***************************************************************************)
(* While maintenance committed in the last DaysAhead days, today's and     *)
(* yesterday's rows have partitions to go to (03:18-19: otherwise they land*)
(* in events_default, where retention never reaches them).                 *)
(***************************************************************************)
TodayCovered ==
    today - lastOk <= DaysAhead => (today - DaysBack)..today \subseteq parts

(***************************************************************************)
(* Retention takes only rows older than RetainDays, and a maintenance that *)
(* commits leaves no partition older than that.                            *)
(***************************************************************************)
RetentionExact ==
    [][/\ \A r \in rows : r \notin rows' => r.day < today - RetainDays
       /\ lastOk' # lastOk => \A d \in parts' : d >= today - RetainDays]_vars

(***************************************************************************)
(* "Idempotent: safe to call repeatedly (IF NOT EXISTS), e.g. daily from   *)
(* cron to keep the lookahead window rolling forward" (03:15-16).          *)
(***************************************************************************)
AlwaysSafeToCall == ~failed
=============================================================================
