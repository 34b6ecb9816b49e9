----------------------------- MODULE MCIngestion -----------------------------
(* Small instances of Ingestion for TLC. *)
EXTENDS Ingestion

Stored(keys, value) == [k \in keys |-> value]
Json(time, sev, zone) ==
    [form |-> "object", time |-> time, severity |-> sev, unfit |-> FALSE,
     fields |-> [k \in {"@timestamp", "event_type", "severity"} |->
                    IF k = "@timestamp" THEN zone ELSE "good"]]
Old    == Json(0 - 7, 12, "good")      \* a sample of long ago
Newer  == Json(0 - 5, 3, "good")
Naive  == Json(0 - 7, 3, "naive")
Broken == Json(0 - 7, 3, "bad")
NotANumber == [Newer EXCEPT !.unfit = TRUE]
Long   == [Newer EXCEPT !.fields["event_type"] = "long"]

Rec(t, s, p) == [tenant |-> t, source |-> s, payload |-> p]
CONSTANTS a, b
Load(f, t, s, r) == [file |-> f, tenant |-> t, source |-> s, rebase |-> r]

MCLoads ==
    {Load(<<Rec(a, "crowdstrike", Old), Rec(b, "api", Newer)>>, Nothing, Nothing, TRUE),
     Load(<<Rec(b, "crowdstrike", Newer), Rec(Nothing, Nothing, Old)>>, a, "crowdstrike", TRUE),
     Load(<<Rec(a, "crowdstrike", Old), Rec(Nothing, "api", Newer)>>, BadTenant, Nothing, FALSE),
     Load(<<Rec(Nothing, "api", Newer), Rec(a, "api", NotANumber), Rec(a, "api", Newer)>>, Nothing, Nothing, FALSE),
     Load(<<Rec(a, Nothing, Long), Rec(BadTenant, "api", Newer)>>, Nothing, Nothing, FALSE),
     Load(<<Rec(a, Nothing, NotANumber)>>, Nothing, Nothing, FALSE),
     Load(<<Rec(b, "api", Newer), Rec(a, "api", Long)>>, Nothing, Nothing, FALSE),
     Load(<<Rec(a, "api", Newer), Rec(b, Unhashable, Newer)>>, b, Nothing, FALSE),
     Load(<<Rec(a, "api", Old), Rec(b, "api", Naive)>>, Nothing, Nothing, TRUE),
     Load(<<Rec(a, "api", Old), Rec(b, "api", Broken)>>, Nothing, Nothing, TRUE),
     Load(<<Rec(Nothing, "api", Old)>>, Nothing, Nothing, TRUE)}

MCBodies == {[source |-> "api", payload |-> Newer], [source |-> "firewall", payload |-> Newer]}

Line(keys) == [form |-> "line", time |-> 0, severity |-> 134, unfit |-> FALSE,
               fields |-> Stored(keys, "good")]
MCLines == {[shaped |-> TRUE, payload |-> Line({"if", "event"})],
            [shaped |-> FALSE, payload |-> Line({})]}
=============================================================================
