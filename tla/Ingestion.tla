------------------------------- MODULE Ingestion -------------------------------
(***************************************************************************)
(* How events come into the partitioned table: the batch loader            *)
(* (src/ingest/batch_loader.py) as a process of its own, syslog lines and  *)
(* POST /ingest, all through the dispatcher of Normalizers, while days pass*)
(* and the maintenance of Partitions runs or fails between any two of them.*)
(*                                                                         *)
(* Abstracted: the listener's queue (SyslogServer) and the requests' pool  *)
(* (TenantPool) are elsewhere, so a line or a POST is one step here.       *)
(***************************************************************************)
EXTENDS Partitions, EventTimes, Normalizers, Sequences, FiniteSets

CONSTANTS Tenants,
          BadTenant,    \* one the table refuses: '', or too long for its indexes
          Loads,        \* runs of the loader: [file, tenant, source, rebase]
          Bodies,       \* what clients POST: [source, payload]
          Lines,        \* what devices send: [shaped, payload]
          ListenerTenant,
          Late, Fast,   \* bounds: how late a line comes, how fast its clock is
          MaxRows       \* bound: with so many [day, table] rows nothing new begins

ASSUME IngestionAssumption ==
    /\ ListenerTenant \in Tenants /\ BadTenant \notin Tenants
    /\ Nothing \notin Tenants \cup {BadTenant}
    /\ Late \in Nat /\ Fast \in Nat /\ MaxRows \in Nat
    /\ \A l \in Loads :
           /\ l.file \in Seq({l.file[i] : i \in DOMAIN l.file})
           /\ l.tenant \in Tenants \cup {BadTenant, Nothing}
           /\ \A i \in DOMAIN l.file : /\ l.file[i].tenant \in Tenants \cup {BadTenant, Nothing}
                                      /\ l.file[i].payload.time \in Int
                                      /\ l.file[i].payload.severity \in Int

VARIABLES tick,      \* time of day
          phase,     \* the loader: "idle", "read", "writing", "done", "refused", "dead"
          load,      \* its command line and file
          events,    \* its list: index in the file -> event
          shiftedAt, \* when it rebased its times
          report,    \* the counts it printed
          written    \* rows it has committed: [index, tenant, time, table]

loaderVars == <<phase, load, events, shiftedAt, report, written>>
ingestVars == <<vars, tick, loaderVars>>

now == today * DayTicks + tick

\* Mutant: --tenant wins over the record's own.
TenantOfCli(r, l) == IF l.tenant = Nothing THEN r.tenant ELSE l.tenant

\* _resolve_tenant: the record's own, else --tenant.
TenantOf(r, l) == IF r.tenant = Nothing THEN l.tenant ELSE r.tenant

\* _resolve_source
SourceOf(r, l) == IF r.source = Nothing THEN l.source ELSE r.source

\* The records that have a tenant; the others are skipped and counted.
Kept(l) == {i \in DOMAIN l.file : TenantOf(l.file[i], l) # Nothing}

\* What PostgreSQL's jsonb, the table's indexes and its constraints refuse.
Refused(e) ==
    \/ e.unfit \/ e.long \/ e.tenant = BadTenant
    \/ e.severity # Nothing /\ e.severity \notin 0..10

NoEvents == [i \in {} |-> Nothing]

Idle == phase \notin {"read", "writing"}
Room == Cardinality(rows) < MaxRows

IngestInit ==
    /\ Init /\ tick = 0 /\ phase = "idle" /\ shiftedAt = 0 /\ written = {}
    /\ load = [file |-> <<>>, tenant |-> Nothing, source |-> Nothing, rebase |-> FALSE]
    /\ events = NoEvents /\ report = [inserted |-> 0, skipped |-> 0]

Clock ==
    /\ \/ tick + 1 < DayTicks /\ tick' = tick + 1 /\ UNCHANGED vars
       \/ tick + 1 = DayTicks /\ tick' = 0 /\ NewDay
    /\ UNCHANGED loaderVars

Maintain == (MakePartitions \/ MakePartitionsFails) /\ UNCHANGED <<tick, loaderVars>>

\* The row of one event, in a transaction of its own.
Store(e) == ~Refused(e) /\ Insert(Day(e.time))

\* main up to the rebasing: the whole file is normalized before anything is
\* written; a source that cannot be looked up ends the run here.
Read(l) ==
    /\ Idle /\ Room /\ load' = l /\ written' = {}
    /\ IF \E i \in Kept(l) : SourceOf(l.file[i], l) = Unhashable
       THEN phase' = "dead" /\ events' = NoEvents
       ELSE /\ phase' = IF l.rebase THEN "read" ELSE "writing"
            /\ events' = [i \in Kept(l) |-> Normalize(SourceOf(l.file[i], l), l.file[i].payload,
                                                      TenantOf(l.file[i], l), now)]
    /\ shiftedAt' = 0 /\ report' = [inserted |-> 0, skipped |-> 0]
    /\ UNCHANGED <<vars, tick>>

\* Mutant: the latest event becomes "now".
Last(i) == i \in DOMAIN events /\ \A j \in DOMAIN events : events[j].time <= events[i].time

\* min(e.event_time for e in events)
First(i) == i \in DOMAIN events /\ \A j \in DOMAIN events : events[i].time <= events[j].time

\* _rebase_timestamps: the same offset for all of them.  A time without a
\* zone cannot be subtracted from now, and ends the run.
Rebase ==
    /\ phase = "read"
    /\ \/ /\ \A i \in DOMAIN events : events[i].zoned
          /\ \/ DOMAIN events = {} /\ events' = events
             \/ \E f \in DOMAIN events :
                   /\ First(f)
                   /\ events' = [i \in DOMAIN events |->
                                   [events[i] EXCEPT !.time = @ + (now - events[f].time)]]
          /\ phase' = "writing" /\ shiftedAt' = now
       \/ /\ \E i \in DOMAIN events : ~events[i].zoned
          /\ phase' = "dead" /\ events' = NoEvents /\ UNCHANGED shiftedAt
    /\ UNCHANGED <<vars, tick, load, report, written>>

Pending == {i \in DOMAIN events : \A w \in written : w.index # i}

\* The loop's next event.
Turn(i) == phase = "writing" /\ i \in Pending /\ \A j \in Pending : i <= j

Write(i) ==
    /\ Turn(i) /\ Store(events[i])
    /\ written' = written \cup
          {[index |-> i, tenant |-> events[i].tenant, time |-> events[i].time,
            table |-> IF Day(events[i].time) \in parts THEN Day(events[i].time) ELSE Default]}
    /\ UNCHANGED <<tick, phase, load, events, shiftedAt, report>>

\* Mutant: an event the database refuses is passed over.
WriteSkips(i) ==
    /\ Turn(i) /\ Refused(events[i])
    /\ events' = [j \in DOMAIN events \ {i} |-> events[j]]
    /\ UNCHANGED <<vars, tick, phase, load, shiftedAt, report, written>>

\* The exception ends the run; what is committed stays.
WriteRefused(i) ==
    /\ Turn(i) /\ Refused(events[i]) /\ phase' = "refused" /\ events' = NoEvents
    /\ UNCHANGED <<vars, tick, load, shiftedAt, report, written>>

\* "N inserted, M skipped (no tenant)"
Report ==
    /\ phase = "writing" /\ Pending = {} /\ phase' = "done"
    /\ report' = [inserted |-> Cardinality(DOMAIN events),
                  skipped |-> Cardinality(DOMAIN load.file \ Kept(load))]
    /\ events' = NoEvents /\ UNCHANGED <<vars, tick, load, shiftedAt, written>>

\* Interrupted, or the connection is refused or lost.
Kill ==
    /\ ~Idle /\ phase' = "dead" /\ events' = NoEvents
    /\ UNCHANGED <<vars, tick, load, shiftedAt, report, written>>

Loader ==
    \/ \E l \in Loads : Read(l)
    \/ Rebase \/ Report \/ Kill
    \/ \E i \in DOMAIN events : Write(i) \/ WriteRefused(i)

\* POST /ingest: the event that the body says happened at time t.  A source
\* that cannot be looked up, and an event the table refuses, store nothing.
Post(b, t) ==
    /\ Room /\ b.source # Unhashable
    /\ Store(Normalize(b.source, [b.payload EXCEPT !.time = t], ListenerTenant, now))
    /\ UNCHANGED <<tick, loaderVars>>

\* parse_syslog_line: the time of a line, if it has the RFC3164 shape and a
\* date that its year has.
ParseSyslogLine(m, meant) == IF m.shaped THEN ParseRfc3164(Stamp(meant), now) ELSE NoTime

\* handle_message: a line that is not parsed goes through the dispatcher
\* without a hint.
HandleMessage(m, meant) ==
    LET t == ParseSyslogLine(m, meant)
    IN  IF t = NoTime THEN Fallback(m.payload, ListenerTenant, now)
        ELSE Normalize(SourceHint(m.payload.fields), [m.payload EXCEPT !.time = t],
                       ListenerTenant, now)

SyslogLine(m, meant) ==
    Room /\ Store(HandleMessage(m, meant)) /\ UNCHANGED <<tick, loaderVars>>

IngestNext ==
    \/ Clock \/ Maintain \/ Loader
    \/ \E b \in Bodies, d \in (0 - MaxSkew)..MaxSkew : Post(b, now + d * DayTicks)
    \/ \E m \in Lines, meant \in (now - Late)..(now + Fast) : SyslogLine(m, meant)

IngestSpec == IngestInit /\ [][IngestNext]_ingestVars
-----------------------------------------------------------------------------
(* Properties                                                              *)

\* The event a record stands for once the loader has it, by the rules of the
\* header and DECISIONS: recognised or not, with its time shifted or not.
Recognisable(i) == Recognised(SourceOf(load.file[i], load), load.file[i].payload)
OwnTenant(i) == IF load.file[i].tenant # Nothing THEN load.file[i].tenant ELSE load.tenant

(***************************************************************************)
(* Whatever interrupts it, a load leaves the rows of a prefix of its kept  *)
(* records, each under the tenant it names itself, or else --tenant, and   *)
(* never under none; nothing at all is written while a record cannot be    *)
(* looked up (batch_loader.py:72-92).                                      *)
(***************************************************************************)
LoadIsPrefix ==
    \A w \in written :
        /\ w.tenant = OwnTenant(w.index) /\ w.tenant \in Tenants
        /\ ~load.rebase /\ Recognisable(w.index) => w.time = load.file[w.index].payload.time
        /\ \A j \in DOMAIN load.file :
               /\ OwnTenant(j) # Nothing => SourceOf(load.file[j], load) # Unhashable
               /\ j < w.index /\ OwnTenant(j) # Nothing => \E v \in written : v.index = j

\* Exactly the kept records before record i are stored.
StoredBefore(i) ==
    \A j \in DOMAIN load.file :
        OwnTenant(j) # Nothing => (j < i <=> \E w \in written : w.index = j)

\* Record i is one that the table cannot take.
AtFault(i) ==
    LET p == load.file[i].payload
    IN  /\ OwnTenant(i) # Nothing
        /\ \/ OwnTenant(i) = BadTenant
           \/ p.unfit
           \/ /\ Recognisable(i)
              /\ \E k \in {"event_type", "event", "user"} \cap DOMAIN p.fields :
                    p.fields[k] = "long"

(***************************************************************************)
(* A load that reports has stored what it says, and every record is either *)
(* inserted or counted as skipped.  One that dies on an event has stored   *)
(* the kept records before it and none after, and the record at fault has  *)
(* a tenant the table refuses, or holds what jsonb refuses, or was         *)
(* recognised and names an event type or a user too long for their index;  *)
(* no severity ends a load, nor a long text of a record that fell back     *)
(* (batch_loader.py:88-94, models.py:50-57, 02_schema.sql:171-180).        *)
(***************************************************************************)
OutcomeHonest ==
    /\ phase = "done" => /\ report.inserted = Cardinality(written)
                         /\ report.inserted + report.skipped = Len(load.file)
    /\ phase = "refused" => \E i \in DOMAIN load.file : StoredBefore(i) /\ AtFault(i)

\* The earliest time in the file.
EarliestKept == CHOOSE t \in {load.file[i].payload.time : i \in Kept(load)} :
                    \A i \in Kept(load) : t <= load.file[i].payload.time

\* Where record i is due after a shift made when the clock showed shiftedAt.
DueDay(i) == Day(shiftedAt + load.file[i].payload.time - EarliestKept)

(***************************************************************************)
(* "Fresh, visible data": rows of a rebased load are stored in a daily     *)
(* partition while maintenance was last done between the shift and the     *)
(* lookahead less the load's own span before it (batch_loader.py:38-50,    *)
(* Makefile:40-42).  This needs every record recognised: one fallback event*)
(* already stands at "now" and is shifted with the others.                 *)
(***************************************************************************)
RebasedVisible ==
    [][\A w \in written' \ written :
          /\ load.rebase /\ \A i \in Kept(load) : Recognisable(i)
          /\ lastOk <= Day(shiftedAt) + DaysBack
          /\ \A i \in Kept(load) : DueDay(i) <= lastOk + DaysAhead
          => w.table = DueDay(w.index)]_ingestVars

(***************************************************************************)
(* At every moment of the run the year of a line is inferred as            *)
(* YearInferred of EventTimes says.                                        *)
(***************************************************************************)
LinesDatedRight == YearInferred(now)
=============================================================================
