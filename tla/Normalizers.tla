----------------------------- MODULE Normalizers -----------------------------
(***************************************************************************)
(* The dispatcher and the seven normalizers (src/ingest/normalizers/).     *)
(* A payload has the form of a JSON object or of a parsed syslog line; its *)
(* fields map the keys it has to "good", to "bad" (a value the event model *)
(* cannot convert), for a time without a zone to "naive", or to "long" (a  *)
(* text over the row limit of a B-tree index).  It carries its time, its   *)
(* severity on its own scale, and whether it is unfit for jsonb: a NUL, a  *)
(* lone surrogate, NaN or an infinity is somewhere in it.                  *)
(***************************************************************************)
EXTENDS Integers

CONSTANTS Nothing,       \* an absent value: no source, no severity
          Unhashable     \* a "source" that is a list or an object

\* A normalizer: the form it reads, the keys it indexes, the keys it passes
\* on to the event model when they are there, and those whose text comes to
\* stand in an index, in the columns event_type and user.
Api         == [form |-> "object", required |-> {"@timestamp", "event_type"},
                converted |-> {"ip", "user", "reason"}, indexed |-> {"event_type", "user"}]
Crowdstrike == [form |-> "object", required |-> {"@timestamp", "event_type", "severity"},
                converted |-> {"action", "host", "process"}, indexed |-> {"event_type"}]
Aws         == [form |-> "object", required |-> {"@timestamp", "event_type"},
                converted |-> {"user", "cloud"}, indexed |-> {"event_type", "user"}]
M365        == [form |-> "object", required |-> {"@timestamp", "event_type"},
                converted |-> {"ip", "user", "status"}, indexed |-> {"event_type", "user"}]
Ad          == [form |-> "object", required |-> {"@timestamp", "event_type"},
                converted |-> {"ip", "user", "host"}, indexed |-> {"event_type", "user"}]
Firewall    == [form |-> "line", required |-> {"action", "src", "spt", "dst", "dpt"},
                converted |-> {}, indexed |-> {}]
Network     == [form |-> "line", required |-> {"event"}, converted |-> {},
                indexed |-> {"event"}]

NORMALIZERS == [api |-> Api, crowdstrike |-> Crowdstrike, aws |-> Aws, m365 |-> M365,
                ad |-> Ad, firewall |-> Firewall, network |-> Network]

\* clamp_severity
Clamp(n) == IF n < 0 THEN 0 ELSE IF n > 10 THEN 10 ELSE n

\* CrowdStrike's own number, and a line's priority turned round; the others
\* leave the column empty.
Severity(hint, p) ==
    CASE hint = "crowdstrike" -> Clamp(p.severity)
      [] hint \in {"firewall", "network"} -> 7 - (p.severity % 8)
      [] OTHER -> Nothing

\* A value the event model takes, or can convert to a column's type.
Convertible(value) == value # "bad"

\* The normalizer for this hint exists and does not raise.
Recognised(hint, p) ==
    /\ hint \in DOMAIN NORMALIZERS
    /\ LET n == NORMALIZERS[hint]
       IN  /\ p.form = n.form
           /\ n.required \subseteq DOMAIN p.fields
           /\ \A k \in (n.required \cup n.converted) \cap DOMAIN p.fields : Convertible(p.fields[k])

\* A text that no index entry has room for is bound for an indexed column.
LongIndexed(hint, p) ==
    \E k \in NORMALIZERS[hint].indexed \cap DOMAIN p.fields : p.fields[k] = "long"

\* source="unknown", event_type="unparsed", stamped with the current time; the
\* payload goes to raw and to no other column.
Fallback(p, tenant, now) ==
    [tenant |-> tenant, time |-> now, zoned |-> TRUE, source |-> "unknown",
     severity |-> Nothing, unfit |-> p.unfit, long |-> FALSE]

\* normalize, for a hint that can be looked up.
Normalize(hint, p, tenant, now) ==
    IF Recognised(hint, p)
    THEN [tenant |-> tenant, time |-> p.time, source |-> hint, severity |-> Severity(hint, p),
          zoned |-> p.form = "line" \/ p.fields["@timestamp"] # "naive",
          unfit |-> p.unfit, long |-> LongIndexed(hint, p)]
    ELSE Fallback(p, tenant, now)

\* source_hint_from_fields
SourceHint(fields) ==
    IF {"action", "src"} \subseteq DOMAIN fields THEN "firewall"
    ELSE IF {"if", "event"} \subseteq DOMAIN fields THEN "network" ELSE "unknown"
=============================================================================
