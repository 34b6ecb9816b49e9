------------------------------ MODULE IngestLog ------------------------------
(***************************************************************************)
(* What the syslog path promises about the events table: it is a log that  *)
(* only grows; a message that was offered enters it at most once; and the  *)
(* messages of one sender enter it in the order they were offered, with    *)
(* gaps for those that are lost.                                           *)
(***************************************************************************)
EXTENDS Naturals, Sequences

CONSTANTS Senders, Kinds

VARIABLES offered,   \* messages each sender has offered: sender -> number
          log        \* committed rows, in commit order: [from, seq, kind]

vars == <<offered, log>>

Init == offered = [s \in Senders |-> 0] /\ log = <<>>

Offer(s) == offered' = [offered EXCEPT ![s] = @ + 1] /\ log' = log

Store(m) ==
    /\ m.seq <= offered[m.from]
    /\ \A i \in DOMAIN log : log[i].from = m.from => log[i].seq < m.seq
    /\ log' = Append(log, m) /\ offered' = offered

Next == \E s \in Senders :
    \/ Offer(s)
    \/ \E n \in 1..offered[s], k \in Kinds : Store([from |-> s, seq |-> n, kind |-> k])

Spec == Init /\ [][Next]_vars
=============================================================================
