--------------------------- MODULE MCSyslogServer ---------------------------
(* Small instances of SyslogServer for TLC. *)
EXTENDS SyslogServer, TLC

CONSTANTS c1, c2

OneTwo == [s \in Conns \cup {UDP} |-> IF s = c2 THEN 2 ELSE 1]
=============================================================================
