---------------------------- MODULE SyslogServer ----------------------------
(***************************************************************************)
(* The syslog listener (src/ingest/syslog_server.py): one event loop with  *)
(* a UDP callback, one task per TCP connection and one writer task, around *)
(* one bounded asyncio.Queue.  A step is what runs between two suspensions *)
(* of a task; asyncio.Queue is modelled with the futures a blocked put or  *)
(* get waits on, because a woken putter finds its slot taken when another  *)
(* task runs first.                                                        *)
(*                                                                         *)
(* Abstracted: a message is its sender, its number, and what its bytes do  *)
(* to the code: "text" is stored, "empty" is skipped on TCP, "long" breaks *)
(* readline's 64 KiB limit, "rejected" makes the INSERT raise: a NUL byte, *)
(* which neither text nor jsonb can hold, or an event= text too long for   *)
(* the index on event_type.  A datagram has no framing: it is stored as    *)
(* text even when it is empty.                                             *)
(***************************************************************************)
EXTENDS Integers, Sequences, FiniteSets

CONSTANTS Conns,        \* TCP connections
          UDP,          \* the datagram endpoint, as a sender
          QueueSize,    \* --queue-size
          Kinds,        \* kinds of messages this instance sends
          DbMayFail,    \* the database connection may die
          WriterMayDie, \* the writer task may end (cancelled)
          MaxLines      \* bound: messages per sender

ASSUME SyslogAssumption ==
    /\ UDP \notin Conns
    /\ QueueSize \in Nat \ {0} /\ MaxLines \in [Conns \cup {UDP} -> Nat]
    /\ Kinds \subseteq {"text", "empty", "long", "rejected"}
    /\ DbMayFail \in BOOLEAN /\ WriterMayDie \in BOOLEAN

Senders == Conns \cup {UDP}

Message == [from : Senders, seq : Nat \ {0}, kind : Kinds]

\* What handle_message made an event of.
Event == [from : Senders, seq : Nat \ {0}, kind : Kinds \cap {"text", "rejected"}]

VARIABLES
    sent,      \* messages sent, per sender
    socket,    \* per connection: lines received and not read
    eof,       \* per connection: the peer has closed
    tcp,       \* per connection: where handle_tcp_connection stands
    line,      \* per connection: the event a blocked put holds, as <<m>>
    queue,     \* the items of the asyncio.Queue
    putters,   \* its deque of blocked putters
    writer,    \* where writer_loop stands
    item,      \* the event the writer is writing, as <<m>>
    db,        \* the writer's only connection: "ok" or "lost"
    stored,    \* committed rows of events, in commit order
    dropped,   \* messages the server gave up, with the reason
    taken      \* history: the lines handle_tcp_connection parsed

netVars   == <<sent, socket, eof>>
queueVars == <<queue, putters>>
writeVars == <<item, db, stored>>
vars == <<netVars, tcp, line, queueVars, writer, writeVars, dropped, taken>>

Init ==
    /\ sent = [s \in Senders |-> 0]
    /\ socket = [c \in Conns |-> <<>>] /\ eof = [c \in Conns |-> FALSE]
    /\ tcp = [c \in Conns |-> "reading"] /\ line = [c \in Conns |-> <<>>]
    /\ queue = <<>> /\ putters = <<>>
    /\ writer = "ready" /\ item = <<>> /\ db = "ok"
    /\ stored = <<>> /\ dropped = {} /\ taken = {}
-----------------------------------------------------------------------------
(* asyncio.Queue                                                           *)

\* Mutation: asyncio.Queue() without its maxsize.
NeverFull == FALSE

Full == Len(queue) >= QueueSize

\* _put, then _wakeup_next(_getters): only the writer ever waits there.
Put(m) ==
    /\ queue' = Append(queue, m)
    /\ writer' = IF writer = "idle" THEN "woken" ELSE writer

\* put on a full queue: join the deque of putters and suspend.
Block(c, m) ==
    /\ putters' = Append(putters, c)
    /\ tcp' = [tcp EXCEPT ![c] = "waiting"]
    /\ line' = [line EXCEPT ![c] = <<m>>]

\* get_nowait: pop the item, then _wakeup_next(_putters).
Get ==
    /\ item' = <<Head(queue)>> /\ queue' = Tail(queue)
    /\ IF putters = <<>>
         THEN UNCHANGED <<putters, tcp>>
         ELSE /\ putters' = Tail(putters)
              /\ tcp' = [tcp EXCEPT ![Head(putters)] = "woken"]
-----------------------------------------------------------------------------
(* The network                                                             *)

NextMessage(s, k) == [from |-> s, seq |-> sent[s] + 1, kind |-> k]

PeerSends(c, k) ==
    /\ ~eof[c] /\ sent[c] < MaxLines[c]
    /\ sent' = [sent EXCEPT ![c] = @ + 1]
    /\ socket' = [socket EXCEPT ![c] = Append(@, NextMessage(c, k))]
    /\ UNCHANGED <<eof, tcp, line, queueVars, writer, writeVars, dropped, taken>>

PeerCloses(c) ==
    /\ ~eof[c] /\ eof' = [eof EXCEPT ![c] = TRUE]
    /\ UNCHANGED <<sent, socket, tcp, line, queueVars, writer, writeVars, dropped, taken>>

\* datagram_received: put_nowait, or drop on QueueFull.
DatagramReceived(k) ==
    /\ k \in {"text", "rejected"} /\ sent[UDP] < MaxLines[UDP]
    /\ sent' = [sent EXCEPT ![UDP] = @ + 1]
    /\ IF Full
         THEN /\ dropped' = dropped \cup {[msg |-> NextMessage(UDP, k), why |-> "full"]}
              /\ UNCHANGED <<queue, writer>>
         ELSE Put(NextMessage(UDP, k)) /\ dropped' = dropped
    /\ UNCHANGED <<socket, eof, tcp, line, putters, writeVars, taken>>
-----------------------------------------------------------------------------
(* handle_tcp_connection                                                   *)

Line(c) == Head(socket[c])

Reading(c) == tcp[c] = "reading" /\ socket[c] # <<>>

Consume(c) == socket' = [socket EXCEPT ![c] = Tail(@)] /\ UNCHANGED <<sent, eof>>

SkipEmptyLine(c) ==
    /\ Reading(c) /\ Line(c).kind = "empty"
    /\ Consume(c)
    /\ UNCHANGED <<tcp, line, queueVars, writer, writeVars, dropped, taken>>

\* readline raises ValueError: finally closes, the buffered lines are lost.
OverlongLine(c) ==
    /\ Reading(c) /\ Line(c).kind = "long"
    /\ socket' = [socket EXCEPT ![c] = <<>>] /\ eof' = [eof EXCEPT ![c] = TRUE]
    /\ tcp' = [tcp EXCEPT ![c] = "closed"]
    /\ UNCHANGED <<sent, line, queueVars, writer, writeVars, dropped, taken>>

\* Mutation: no `if not line: continue`.
ParsedEvenEmpty(c) == Reading(c) /\ Line(c).kind \in {"text", "rejected", "empty"}

Parsed(c) == Reading(c) /\ Line(c).kind \in {"text", "rejected"}

PutLine(c) ==
    /\ Parsed(c) /\ ~Full
    /\ Consume(c) /\ Put(Line(c)) /\ taken' = taken \cup {Line(c)}
    /\ UNCHANGED <<tcp, line, putters, writeVars, dropped>>

\* Mutation: put_nowait on TCP too, dropping on QueueFull.
PutLineDrops(c) ==
    /\ Parsed(c) /\ Full
    /\ Consume(c) /\ taken' = taken \cup {Line(c)}
    /\ dropped' = dropped \cup {[msg |-> Line(c), why |-> "full"]}
    /\ UNCHANGED <<tcp, line, queueVars, writer, writeVars>>

PutLineBlocks(c) ==
    /\ Parsed(c) /\ Full
    /\ Consume(c) /\ Block(c, Line(c)) /\ taken' = taken \cup {Line(c)}
    /\ UNCHANGED <<queue, writer, writeVars, dropped>>

\* while self.full(): the woken putter looks again, and may wait again.
PutterResumes(c) ==
    /\ tcp[c] = "woken" /\ ~Full
    /\ Put(line[c][1])
    /\ tcp' = [tcp EXCEPT ![c] = "reading"] /\ line' = [line EXCEPT ![c] = <<>>]
    /\ UNCHANGED <<netVars, putters, writeVars, dropped, taken>>

PutterWaitsAgain(c) ==
    /\ tcp[c] = "woken" /\ Full
    /\ Block(c, line[c][1])
    /\ UNCHANGED <<netVars, queue, writer, writeVars, dropped, taken>>

ReadEof(c) ==
    /\ tcp[c] = "reading" /\ socket[c] = <<>> /\ eof[c]
    /\ tcp' = [tcp EXCEPT ![c] = "closed"]
    /\ UNCHANGED <<netVars, line, queueVars, writer, writeVars, dropped, taken>>
-----------------------------------------------------------------------------
(* writer_loop                                                             *)

WriterWaits ==
    /\ writer \in {"ready", "woken"} /\ queue = <<>>
    /\ writer' = "idle"
    /\ UNCHANGED <<netVars, tcp, line, queueVars, writeVars, dropped, taken>>

\* Mutation: the writer pops the deque itself, which wakes no putter.
WriterPops ==
    /\ writer \in {"ready", "woken"} /\ queue # <<>>
    /\ item' = <<Head(queue)>> /\ queue' = Tail(queue) /\ writer' = "writing"
    /\ UNCHANGED <<netVars, tcp, line, putters, db, stored, dropped, taken>>

WriterGets ==
    /\ writer \in {"ready", "woken"} /\ queue # <<>>
    /\ Get /\ writer' = "writing"
    /\ UNCHANGED <<netVars, line, db, stored, dropped, taken>>

Written == writer' = "ready" /\ item' = <<>>
Stores  == stored' = Append(stored, item[1])
Drops   == dropped' = dropped \cup {[msg |-> item[1], why |-> "write"]}

WriteCommits ==
    /\ writer = "writing" /\ db = "ok" /\ item[1].kind # "rejected"
    /\ Stores /\ Written
    /\ UNCHANGED <<netVars, tcp, line, queueVars, db, dropped, taken>>

\* Mutation: no except, so the first failing write ends the task.
WriteFailsFatal ==
    /\ writer = "writing" /\ (db = "lost" \/ item[1].kind = "rejected")
    /\ Drops /\ writer' = "failed" /\ item' = <<>>
    /\ UNCHANGED <<netVars, tcp, line, queueVars, db, stored, taken>>

\* except Exception: "failed to write event, dropping it".
WriteFails ==
    /\ writer = "writing" /\ (db = "lost" \/ item[1].kind = "rejected")
    /\ Drops /\ Written
    /\ UNCHANGED <<netVars, tcp, line, queueVars, db, stored, taken>>

ConnectionLost ==
    /\ DbMayFail /\ db = "ok" /\ db' = "lost"
    /\ UNCHANGED <<netVars, tcp, line, queueVars, writer, item, stored, dropped, taken>>

\* Mutation: reconnect and write the event again.
CommitRetried ==
    /\ DbMayFail /\ writer = "writing" /\ db = "ok" /\ item[1].kind # "rejected"
    /\ Stores
    /\ UNCHANGED <<netVars, tcp, line, queueVars, writer, item, db, dropped, taken>>

\* The connection dies after the server committed and before it said so.
CommitUnacknowledged ==
    /\ DbMayFail /\ writer = "writing" /\ db = "ok" /\ item[1].kind # "rejected"
    /\ db' = "lost" /\ Stores /\ Drops /\ Written
    /\ UNCHANGED <<netVars, tcp, line, queueVars, taken>>

\* The task is cancelled: _writer_done logs it and the server goes on.
WriterDies ==
    /\ WriterMayDie /\ writer # "dead"
    /\ writer' = "dead" /\ item' = <<>>
    /\ dropped' = IF item = <<>> THEN dropped
                  ELSE dropped \cup {[msg |-> item[1], why |-> "write"]}
    /\ UNCHANGED <<netVars, tcp, line, queueVars, db, stored, taken>>
-----------------------------------------------------------------------------
Network == \/ \E c \in Conns, k \in Kinds : PeerSends(c, k)
           \/ \E c \in Conns : PeerCloses(c)
           \/ \E k \in Kinds : DatagramReceived(k)

Handler(c) == \/ SkipEmptyLine(c) \/ OverlongLine(c) \/ PutLine(c) \/ PutLineBlocks(c)
              \/ PutterResumes(c) \/ PutterWaitsAgain(c) \/ ReadEof(c)

Writer == WriterWaits \/ WriterGets \/ WriteCommits \/ WriteFails

Faults == ConnectionLost \/ CommitUnacknowledged \/ WriterDies

Next == Network \/ (\E c \in Conns : Handler(c)) \/ Writer \/ Faults

Spec == Init /\ [][Next]_vars

(***************************************************************************)
(* The event loop runs every ready callback: a task that can take its next *)
(* step eventually does.  Nothing is assumed of the network or of faults.  *)
(***************************************************************************)
FairSpec == Spec /\ (\A c \in Conns : WF_vars(Handler(c))) /\ WF_vars(Writer)
-----------------------------------------------------------------------------
(* Properties                                                              *)

AtMostOne(q) == q \in Seq(Event) /\ Len(q) <= 1

\* Only lines with content become events, wherever they are held.
TypeOK ==
    /\ sent \in [Senders -> Nat]
    /\ socket \in [Conns -> Seq(Message)] /\ eof \in [Conns -> BOOLEAN]
    /\ tcp \in [Conns -> {"reading", "waiting", "woken", "closed"}]
    /\ DOMAIN line = Conns /\ \A c \in Conns : AtMostOne(line[c])
    /\ queue \in Seq(Event) /\ putters \in Seq(Conns)
    /\ writer \in {"ready", "idle", "woken", "writing", "dead"}
    /\ AtMostOne(item) /\ db \in {"ok", "lost"}
    /\ stored \in Seq(Event)
    /\ dropped \subseteq [msg : Event, why : {"full", "write"}]
    /\ taken \subseteq Event

Members(s) == {s[i] : i \in DOMAIN s}

\* "bounded queue" (syslog_server.py:2-4): memory stays bounded however the
\* callbacks interleave with woken putters, and a blocked put holds one event.
Bounded == /\ Len(queue) <= QueueSize
           /\ \A c \in Conns : tcp[c] \in {"waiting", "woken"} <=> line[c] # <<>>
           /\ Cardinality(Members(putters)) = Len(putters)

(***************************************************************************)
(* No lost wakeup: while connections are blocked, every free slot has a    *)
(* woken putter on its way to it; and a writer that sleeps has nothing to  *)
(* write.  Otherwise a sender would hang on a queue with room in it.       *)
(***************************************************************************)
Woken == {c \in Conns : tcp[c] = "woken"}
NoLostWakeup ==
    /\ putters # <<>> => QueueSize - Len(queue) <= Cardinality(Woken)
    /\ queue # <<>> => writer # "idle"
    /\ \A c \in Conns : tcp[c] = "waiting" <=> c \in Members(putters)

(***************************************************************************)
(* "free, correct backpressure with no drops" (syslog_server.py:78-80):    *)
(* every line read from a connection is blocked, queued, being written,    *)
(* stored, or was given up by a failing write; never for lack of room.     *)
(***************************************************************************)
InFlight == Members(item) \cup Members(queue) \cup UNION {Members(line[c]) : c \in Conns}
GivenUp(why) == {d.msg : d \in {e \in dropped : e.why = why}}
Backpressure ==
    /\ taken \subseteq InFlight \cup Members(stored) \cup GivenUp("write")
    /\ \A m \in GivenUp("full") : m.from = UDP

(***************************************************************************)
(* The table is an IngestLog: at most once and in order for each sender,   *)
(* through blocking, stolen slots and unacknowledged commits.              *)
(***************************************************************************)
Log == INSTANCE IngestLog WITH offered <- sent, log <- stored
ImplementsIngestLog == Log!Spec

(***************************************************************************)
(* Under the event loop's fairness the server always catches up: again and *)
(* again every line it took from a connection is settled, stored or        *)
(* reported as dropped, unless the writer is cancelled.  Neither a failing *)
(* write nor a slot taken by a datagram leaves a line behind.              *)
(***************************************************************************)
Settled(m) == m \in Members(stored) \cup GivenUp("write")
EveryLineSettles == []<>(writer = "dead" \/ \A m \in taken : Settled(m))
=============================================================================
