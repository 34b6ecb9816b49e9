-------------------------- MODULE SyslogServerProofs --------------------------
(***************************************************************************)
(* The safety properties of SyslogServer, for any number of connections,   *)
(* any queue size and any messages, and its refinement of IngestLog.       *)
(***************************************************************************)
EXTENDS SyslogServer, FiniteSetTheorems, TLAPS

\* The writer holds an event exactly while it writes, and a connection waits
\* for its turn exactly once.
WriterHolds == writer = "writing" <=> item # <<>>
QueuedOnce == \A i, j \in DOMAIN putters : putters[i] = putters[j] => i = j

WakeInv ==
    /\ Bounded /\ NoLostWakeup /\ QueuedOnce
    /\ IsFiniteSet(Woken) /\ IsFiniteSet(Members(putters))

FlowInv == WriterHolds /\ Backpressure

(***************************************************************************)
(* The order of each sender's messages along the way: what is stored comes *)
(* before what is being written, that before what is queued, that before   *)
(* what a blocked put holds, and that before what is not read yet.         *)
(***************************************************************************)
Before(A, B) == \A x \in A, y \in B : x.from = y.from => x.seq < y.seq
Increasing(q) == \A i, j \in DOMAIN q : i < j /\ q[i].from = q[j].from => q[i].seq < q[j].seq

Sent(m) == m.from \in Senders /\ m.seq <= sent[m.from]

OrderInv ==
    /\ Increasing(queue) /\ \A c \in Conns : Increasing(socket[c])
    /\ Before(Members(stored), Members(item) \cup Members(queue))
    /\ Before(Members(item), Members(queue))
    /\ \A c \in Conns :
          /\ Before(Members(stored) \cup Members(item) \cup Members(queue),
                    Members(line[c]) \cup Members(socket[c]))
          /\ Before(Members(line[c]), Members(socket[c]))
          /\ \A m \in Members(line[c]) \cup Members(socket[c]) : m.from = c /\ Sent(m)
    /\ \A m \in Members(stored) \cup Members(item) \cup Members(queue) : Sent(m)
-----------------------------------------------------------------------------
(* Sequences and their members                                             *)

\* What a queue holds, as a set: nothing,
LEMMA MembersEmpty == Members(<<>>) = {}
  BY DEF Members

\* one item,
LEMMA MembersOne == ASSUME NEW m PROVE Members(<<m>>) = {m}
<1>1. DOMAIN <<m>> = {1} /\ <<m>>[1] = m
  OBVIOUS
<1> QED
  BY <1>1 DEF Members

\* one more,
LEMMA MembersAppend ==
    ASSUME NEW S, NEW q \in Seq(S), NEW m \in S
    PROVE  Members(Append(q, m)) = Members(q) \cup {m}
<1>1. /\ DOMAIN Append(q, m) = 1..(Len(q) + 1) /\ DOMAIN q = 1..Len(q) /\ Len(q) \in Nat
      /\ \A i \in 1..Len(q) : Append(q, m)[i] = q[i]
      /\ Append(q, m)[Len(q) + 1] = m
  OBVIOUS
<1>2. 1..(Len(q) + 1) = 1..Len(q) \cup {Len(q) + 1}
  BY <1>1
<1> QED
  BY <1>1, <1>2, ZenonT(60) DEF Members

\* its head and the rest.
LEMMA MembersHeadTail ==
    ASSUME NEW S, NEW q \in Seq(S), q # <<>>
    PROVE  /\ Members(q) = {Head(q)} \cup Members(Tail(q))
           /\ Head(q) = q[1] /\ Head(q) \in S /\ Tail(q) \in Seq(S)
<1>1. /\ Len(q) \in Nat \ {0} /\ DOMAIN q = 1..Len(q) /\ DOMAIN Tail(q) = 1..(Len(q) - 1)
      /\ \A i \in 1..(Len(q) - 1) : Tail(q)[i] = q[i + 1]
      /\ Head(q) = q[1] /\ Head(q) \in S /\ Tail(q) \in Seq(S)
  OBVIOUS
<1>2. ASSUME NEW x \in Members(q) PROVE x \in {Head(q)} \cup Members(Tail(q))
  <2>1. PICK i \in 1..Len(q) : x = q[i]
    BY <1>1, <1>2 DEF Members
  <2>2. CASE i # 1
    <3>1. i - 1 \in 1..(Len(q) - 1) /\ Tail(q)[i - 1] = q[i]
      BY <1>1, <2>2
    <3> QED
      BY <1>1, <2>1, <3>1 DEF Members
  <2> QED
    BY <1>1, <2>1, <2>2
<1>3. ASSUME NEW x \in Members(Tail(q)) PROVE x \in Members(q)
  <2>1. PICK i \in 1..(Len(q) - 1) : x = q[i + 1]
    BY <1>1, <1>3 DEF Members
  <2>2. i + 1 \in 1..Len(q)
    BY <1>1
  <2> QED
    BY <1>1, <2>1, <2>2 DEF Members
<1>4. Head(q) \in Members(q)
  <2>1. 1 \in 1..Len(q)
    BY <1>1
  <2> QED
    BY <1>1, <2>1 DEF Members
<1> QED
  BY <1>1, <1>2, <1>3, <1>4

\* An item of a later number may follow,
LEMMA IncreasingAppend ==
    ASSUME NEW S, NEW q \in Seq(S), NEW m \in S, Increasing(q), Before(Members(q), {m})
    PROVE  Increasing(Append(q, m))
<1>1. /\ DOMAIN Append(q, m) = 1..(Len(q) + 1) /\ DOMAIN q = 1..Len(q) /\ Len(q) \in Nat
      /\ \A i \in 1..Len(q) : Append(q, m)[i] = q[i]
      /\ Append(q, m)[Len(q) + 1] = m
  OBVIOUS
<1>2. ASSUME NEW i \in 1..(Len(q) + 1), NEW j \in 1..(Len(q) + 1), i < j,
             Append(q, m)[i].from = Append(q, m)[j].from
      PROVE  Append(q, m)[i].seq < Append(q, m)[j].seq
  <2>1. i \in 1..Len(q) /\ q[i] \in Members(q)
    BY <1>1, <1>2 DEF Members
  <2>2. CASE j = Len(q) + 1
    BY <1>1, <1>2, <2>1, <2>2 DEF Before
  <2>3. CASE j # Len(q) + 1
    <3>1. j \in 1..Len(q)
      BY <1>1, <2>3
    <3> QED
      BY <1>1, <1>2, <2>1, <3>1 DEF Increasing
  <2> QED
    BY <2>2, <2>3
<1> QED
  BY <1>1, <1>2 DEF Increasing

\* and the head was the first.
LEMMA IncreasingTail ==
    ASSUME NEW S, NEW q \in Seq(S), q # <<>>, Increasing(q)
    PROVE  Increasing(Tail(q)) /\ Before({Head(q)}, Members(Tail(q)))
<1>1. /\ Len(q) \in Nat \ {0} /\ DOMAIN q = 1..Len(q) /\ DOMAIN Tail(q) = 1..(Len(q) - 1)
      /\ \A i \in 1..(Len(q) - 1) : Tail(q)[i] = q[i + 1] /\ i + 1 \in 1..Len(q) /\ 1 < i + 1
      /\ Head(q) = q[1] /\ 1 \in 1..Len(q)
  OBVIOUS
<1>2. ASSUME NEW i \in 1..(Len(q) - 1), NEW j \in 1..(Len(q) - 1), i < j,
             Tail(q)[i].from = Tail(q)[j].from
      PROVE  Tail(q)[i].seq < Tail(q)[j].seq
  <2>1. i + 1 < j + 1
    BY <1>2
  <2> QED
    BY <1>1, <1>2, <2>1 DEF Increasing
<1>3. ASSUME NEW y \in Members(Tail(q)), Head(q).from = y.from PROVE Head(q).seq < y.seq
  <2>1. PICK i \in 1..(Len(q) - 1) : y = q[i + 1]
    BY <1>1, <1>3 DEF Members
  <2> QED
    BY <1>1, <1>3, <2>1 DEF Increasing
<1> QED
  BY <1>1, <1>2, <1>3 DEF Increasing, Before
-----------------------------------------------------------------------------
(* Types                                                                   *)

\* One member at most: the sequence and its set.
LEMMA OneMember ==
    ASSUME NEW q, AtMostOne(q)
    PROVE  /\ q = <<>> => Members(q) = {}
           /\ q # <<>> => q[1] \in Event /\ Members(q) = {q[1]}
<1>1. q \in Seq(Event) /\ Len(q) <= 1
  BY DEF AtMostOne
<1>2. CASE q # <<>>
  <2>0. Len(q) \in Nat /\ Len(q) # 0 /\ Len(q) <= 1
    BY <1>1, <1>2
  <2>a. \A n \in Nat : n # 0 /\ n <= 1 => n = 1
    OBVIOUS
  <2>1. Len(q) = 1
    BY <2>0, <2>a
  <2>2. DOMAIN q = {1} /\ q[1] \in Event
    BY <1>1, <2>1
  <2> QED
    BY <1>2, <2>2 DEF Members
<1> QED
  BY <1>2, MembersEmpty

\* A held event is a sequence of one.
LEMMA OneEvent ==
    ASSUME NEW m \in Event
    PROVE  AtMostOne(<<m>>) /\ <<m>> # <<>> /\ <<m>>[1] = m /\ Members(<<m>>) = {m}
<1>1. <<m>> \in Seq(Event) /\ Len(<<m>>) = 1 /\ <<m>> # <<>> /\ <<m>>[1] = m
  OBVIOUS
<1> QED
  BY <1>1, MembersOne DEF AtMostOne

\* What a connection offers next, and what is left.
LEMMA LineFacts ==
    ASSUME TypeOK, NEW c \in Conns, Reading(c)
    PROVE  /\ Line(c) \in Message /\ Line(c) = socket[c][1]
           /\ Tail(socket[c]) \in Seq(Message)
           /\ Line(c).kind \in {"text", "rejected"} => Line(c) \in Event
           /\ Members(socket[c]) = {Line(c)} \cup Members(Tail(socket[c]))
<1>1. socket[c] \in Seq(Message) /\ socket[c] # <<>>
  BY DEF TypeOK, Reading
<1>2. /\ Line(c) \in Message /\ Line(c) = socket[c][1] /\ Tail(socket[c]) \in Seq(Message)
      /\ Members(socket[c]) = {Line(c)} \cup Members(Tail(socket[c]))
  BY <1>1, MembersHeadTail DEF Line
<1> QED
  BY <1>2 DEF Message, Event

\* What a sender sends next is a message, and an event when it has text.
LEMMA NextMessageType ==
    ASSUME TypeOK, NEW s \in Senders, NEW k \in Kinds
    PROVE  /\ NextMessage(s, k) \in Message
           /\ k \in {"text", "rejected"} => NextMessage(s, k) \in Event
           /\ NextMessage(s, k).from = s /\ NextMessage(s, k).seq = sent[s] + 1
  BY DEF TypeOK, NextMessage, Message, Event

\* A writer that writes has an event in its hand.
LEMMA ItemFacts ==
    ASSUME TypeOK, FlowInv, writer = "writing"
    PROVE  item[1] \in Event /\ Members(item) = {item[1]}
  BY OneMember DEF TypeOK, FlowInv, WriterHolds

\* Every step keeps the types.
LEMMA TypeStep == ASSUME TypeOK, WakeInv, FlowInv, [Next]_vars PROVE TypeOK'
<1> USE DEF TypeOK, AtMostOne
<1>a. /\ AtMostOne(<<>>) /\ UDP \in Senders /\ Conns \subseteq Senders /\ QueueSize \in Nat \ {0}
      /\ MaxLines \in [Senders -> Nat]
  BY SyslogAssumption DEF Senders
<1>1. ASSUME NEW c \in Conns, NEW k \in Kinds, PeerSends(c, k) PROVE TypeOK'
  <2>1. c \in Senders /\ NextMessage(c, k) \in Message
    BY <1>a, NextMessageType
  <2>2. sent' \in [Senders -> Nat]
    BY <1>1, <2>1 DEF PeerSends
  <2>3. socket' \in [Conns -> Seq(Message)]
    BY <1>1, <2>1 DEF PeerSends
  <2> QED
    BY <1>1, <2>2, <2>3 DEF PeerSends, queueVars, writeVars
<1>2. ASSUME NEW c \in Conns, PeerCloses(c) PROVE TypeOK'
  BY <1>2 DEF PeerCloses, queueVars, writeVars
<1>3. ASSUME NEW k \in Kinds, DatagramReceived(k) PROVE TypeOK'
  <2>1. NextMessage(UDP, k) \in Event
    BY <1>a, <1>3, NextMessageType DEF DatagramReceived
  <2> QED
    <3>1. sent' \in [Senders -> Nat]
      BY <1>a, <1>3 DEF DatagramReceived
    <3>2. /\ queue' \in Seq(Event) /\ writer' \in {"ready", "idle", "woken", "writing", "dead"}
          /\ dropped' \subseteq [msg : Event, why : {"full", "write"}]
      <4>1. [msg |-> NextMessage(UDP, k), why |-> "full"] \in [msg : Event, why : {"full", "write"}]
        BY <2>1
      <4>2. Append(queue, NextMessage(UDP, k)) \in Seq(Event)
        BY <2>1
      <4>3. CASE Full
        BY <1>3, <4>1, <4>3 DEF DatagramReceived
      <4>4. CASE ~Full
        BY <1>3, <4>2, <4>4 DEF DatagramReceived, Put
      <4> QED
        BY <4>3, <4>4
    <3> QED
      BY <1>3, <3>1, <3>2 DEF DatagramReceived, writeVars
<1>4. ASSUME NEW c \in Conns, Handler(c) PROVE TypeOK'
  <2>1. CASE SkipEmptyLine(c)
    BY <2>1, LineFacts DEF SkipEmptyLine, Consume, queueVars, writeVars
  <2>2. CASE OverlongLine(c)
    BY <2>2 DEF OverlongLine, queueVars, writeVars
  <2>3. CASE PutLine(c)
    BY <2>3, LineFacts DEF PutLine, Parsed, Consume, Put, writeVars
  <2>4. CASE PutLineBlocks(c)
    <3>1. Line(c) \in Event /\ Tail(socket[c]) \in Seq(Message)
      BY <2>4, LineFacts DEF PutLineBlocks, Parsed
    <3> QED
      BY <2>4, <3>1, OneEvent DEF PutLineBlocks, Parsed, Consume, Block, writeVars
  <2>5. CASE PutterResumes(c)
    <3>1. line[c] # <<>> /\ line[c][1] \in Event
      BY <2>5, OneMember DEF PutterResumes, WakeInv, Bounded
    <3> QED
      BY <1>a, <2>5, <3>1 DEF PutterResumes, Put, netVars, writeVars
  <2>6. CASE PutterWaitsAgain(c)
    <3>1. line[c] # <<>> /\ line[c][1] \in Event
      BY <2>6, OneMember DEF PutterWaitsAgain, WakeInv, Bounded
    <3> QED
      BY <2>6, <3>1, OneEvent DEF PutterWaitsAgain, Block, netVars, writeVars
  <2>7. CASE ReadEof(c)
    BY <2>7 DEF ReadEof, netVars, queueVars, writeVars
  <2> QED
    BY <1>4, <2>1, <2>2, <2>3, <2>4, <2>5, <2>6, <2>7 DEF Handler
<1>5. CASE WriterWaits
  BY <1>5 DEF WriterWaits, netVars, queueVars, writeVars
<1>6. CASE WriterGets
  <2>1. Head(queue) \in Event /\ Tail(queue) \in Seq(Event)
    BY <1>6 DEF WriterGets
  <2>2. putters # <<>> => Head(putters) \in Conns /\ Tail(putters) \in Seq(Conns)
    OBVIOUS
  <2> QED
    BY <1>6, <2>1, <2>2, OneEvent DEF WriterGets, Get, netVars
<1>7. CASE WriteCommits \/ WriteFails \/ CommitUnacknowledged
  <2>1. item[1] \in Event
    BY <1>7, ItemFacts DEF WriteCommits, WriteFails, CommitUnacknowledged
  <2>2. /\ stored' \in Seq(Event) /\ dropped' \subseteq [msg : Event, why : {"full", "write"}]
    <3>1. [msg |-> item[1], why |-> "write"] \in [msg : Event, why : {"full", "write"}]
      BY <2>1
    <3>2. Append(stored, item[1]) \in Seq(Event)
      BY <2>1
    <3> QED
      BY <1>7, <3>1, <3>2 DEF WriteCommits, WriteFails, CommitUnacknowledged, Stores, Drops
  <2>3. writer' = "ready" /\ item' = <<>> /\ db' \in {"ok", "lost"}
    BY <1>7 DEF WriteCommits, WriteFails, CommitUnacknowledged, Written
  <2> QED
    BY <1>a, <1>7, <2>2, <2>3
       DEF WriteCommits, WriteFails, CommitUnacknowledged, netVars, queueVars
<1>8. CASE ConnectionLost
  BY <1>8 DEF ConnectionLost, netVars, queueVars
<1>9. CASE WriterDies
  <2>1. item # <<>> => item[1] \in Event
    BY OneMember
  <2> QED
    BY <1>a, <1>9, <2>1 DEF WriterDies, netVars, queueVars
<1>10. CASE UNCHANGED vars
  BY <1>10 DEF vars, netVars, queueVars, writeVars
<1> QED
  BY <1>1, <1>2, <1>3, <1>4, <1>5, <1>6, <1>7, <1>8, <1>9, <1>10 DEF Next, Network, Writer, Faults
-----------------------------------------------------------------------------
(* Wakeups: how each kind of step changes the putters and the free slots.  *)

\* The sets that NoLostWakeup counts are finite.
LEMMA WokenCount ==
    ASSUME TypeOK, WakeInv
    PROVE  /\ Cardinality(Woken) \in Nat /\ Cardinality(Members(putters)) = Len(putters)
           /\ Len(queue) \in Nat /\ Len(queue) <= QueueSize /\ QueueSize \in Nat \ {0}
  BY FS_CardinalityType, SyslogAssumption DEF TypeOK, WakeInv, Bounded

\* A step away from the queue and its futures keeps the wakeups.
LEMMA WakeSame ==
    ASSUME TypeOK, WakeInv, UNCHANGED <<queue, putters, tcp, line>>,
           queue # <<>> => writer' # "idle"
    PROVE  WakeInv'
  BY DEF WakeInv, Bounded, NoLostWakeup, QueuedOnce, Woken, Members

\* A put takes a free slot and wakes a sleeping writer.
LEMMA WakePut ==
    ASSUME TypeOK, WakeInv, NEW m \in Event, ~Full, Put(m), UNCHANGED <<putters, tcp, line>>
    PROVE  WakeInv'
<1>1. Len(queue') = Len(queue) + 1 /\ writer' # "idle" /\ Len(queue) < QueueSize
  BY WokenCount DEF Put, Full, TypeOK
<1>2. Woken' = Woken /\ Members(putters)' = Members(putters)
  BY DEF Woken, Members
<1> QED
  BY <1>1, <1>2, WokenCount DEF WakeInv, Bounded, NoLostWakeup, QueuedOnce

\* A connection that closes was blocked on nothing.
LEMMA WakeClose ==
    ASSUME TypeOK, WakeInv, NEW c \in Conns, tcp[c] = "reading",
           tcp' = [tcp EXCEPT ![c] = "closed"], UNCHANGED <<line, queue, putters, writer>>
    PROVE  WakeInv'
<1>1. tcp \in [Conns -> {"reading", "waiting", "woken", "closed"}]
  BY DEF TypeOK
<1>2. Woken' = Woken /\ Members(putters)' = Members(putters)
  BY <1>1 DEF Woken, Members
<1>3. \A d \in Conns : /\ tcp'[d] = "waiting" <=> tcp[d] = "waiting"
                       /\ tcp'[d] \in {"waiting", "woken"} <=> tcp[d] \in {"waiting", "woken"}
  BY <1>1
<1> QED
  BY <1>2, <1>3 DEF WakeInv, Bounded, NoLostWakeup, QueuedOnce

\* A connection blocks only on a full queue.
LEMMA WakeBlock ==
    ASSUME TypeOK, WakeInv, NEW c \in Conns, NEW m \in Event, Full,
           tcp[c] \in {"reading", "woken"}, Block(c, m), UNCHANGED <<queue, writer>>
    PROVE  WakeInv'
<1>1. /\ tcp \in [Conns -> {"reading", "waiting", "woken", "closed"}] /\ DOMAIN line = Conns
      /\ putters \in Seq(Conns) /\ Len(queue) = QueueSize /\ c \notin Members(putters)
  <2>1. tcp[c] # "waiting" /\ (tcp[c] = "waiting" <=> c \in Members(putters))
    BY DEF WakeInv, NoLostWakeup
  <2>2. Len(queue) = QueueSize
    BY WokenCount DEF Full
  <2> QED
    BY <2>1, <2>2 DEF TypeOK
<1>2. Members(putters)' = Members(putters) \cup {c} /\ Len(putters') = Len(putters) + 1
  <2>0. putters' = Append(putters, c)
    BY DEF Block
  <2>1. Members(putters)' = Members(Append(putters, c))
    BY <2>0 DEF Members
  <2>2. Members(Append(putters, c)) = Members(putters) \cup {c}
    BY <1>1, MembersAppend
  <2>3. Len(Append(putters, c)) = Len(putters) + 1
    BY <1>1
  <2> QED
    BY <2>0, <2>1, <2>2, <2>3
<1>3. /\ IsFiniteSet(Members(putters)')
      /\ Cardinality(Members(putters)') = Len(putters')
  <2>1. IsFiniteSet(Members(putters)) /\ Cardinality(Members(putters)) = Len(putters)
    BY WokenCount DEF WakeInv
  <2>2. /\ IsFiniteSet(Members(putters) \cup {c})
        /\ Cardinality(Members(putters) \cup {c}) = Cardinality(Members(putters)) + 1
    BY <1>1, <2>1, FS_AddElement, Zenon
  <2> QED
    BY <1>2, <2>1, <2>2, Zenon
<1>4. Woken' = Woken \ {c} /\ IsFiniteSet(Woken') /\ Cardinality(Woken') \in Nat
  <2>1. Woken' = Woken \ {c}
    BY <1>1 DEF Block, Woken
  <2> QED
    BY <2>1, FS_Subset, FS_CardinalityType DEF WakeInv
<1>5. QueuedOnce'
  <2>1. /\ DOMAIN putters = 1..Len(putters) /\ Len(putters) \in Nat
        /\ DOMAIN putters' = 1..(Len(putters) + 1) /\ putters'[Len(putters) + 1] = c
        /\ \A i \in 1..Len(putters) : putters'[i] = putters[i] /\ putters[i] # c
    BY <1>1 DEF Block, Members
  <2> QED
    BY <2>1 DEF WakeInv, QueuedOnce
<1>6. \A d \in Conns :
         /\ tcp'[d] = "waiting" <=> tcp[d] = "waiting" \/ d = c
         /\ tcp'[d] \in {"waiting", "woken"} <=> tcp[d] \in {"waiting", "woken"} \/ d = c
         /\ line'[d] = IF d = c THEN <<m>> ELSE line[d]
  BY <1>1 DEF Block
<1>7. <<m>> # <<>>
  OBVIOUS
<1>8. Bounded'
  BY <1>1, <1>3, <1>6, <1>7, WokenCount DEF WakeInv, Bounded
<1>9. NoLostWakeup'
  BY <1>1, <1>2, <1>4, <1>6, WokenCount DEF WakeInv, NoLostWakeup
<1> QED
  BY <1>3, <1>4, <1>5, <1>8, <1>9 DEF WakeInv

\* A woken putter takes the slot it was woken for.
LEMMA WakeResume ==
    ASSUME TypeOK, WakeInv, NEW c \in Conns, PutterResumes(c)
    PROVE  WakeInv'
<1>1. /\ tcp \in [Conns -> {"reading", "waiting", "woken", "closed"}] /\ DOMAIN line = Conns
      /\ tcp[c] = "woken" /\ line[c][1] \in Event
  BY OneMember DEF PutterResumes, TypeOK, WakeInv, Bounded
<1>2. /\ Len(queue') = Len(queue) + 1 /\ writer' # "idle" /\ Len(queue) < QueueSize
  BY <1>1, WokenCount DEF PutterResumes, Put, Full, TypeOK
<1>3. putters' = putters /\ Members(putters)' = Members(putters)
  BY DEF PutterResumes, Members
<1>4. Woken' = Woken \ {c} /\ c \in Woken
  BY <1>1 DEF PutterResumes, Woken
<1>5. IsFiniteSet(Woken') /\ Cardinality(Woken') = Cardinality(Woken) - 1
  BY <1>4, FS_RemoveElement DEF WakeInv
<1>6. \A d \in Conns :
         /\ tcp'[d] = "waiting" <=> tcp[d] = "waiting"
         /\ tcp'[d] \in {"waiting", "woken"} <=> tcp[d] \in {"waiting", "woken"} /\ d # c
         /\ line'[d] = IF d = c THEN <<>> ELSE line[d]
  BY <1>1 DEF PutterResumes
<1>7. Bounded'
  BY <1>2, <1>3, <1>6, WokenCount DEF WakeInv, Bounded
<1>8. NoLostWakeup'
  BY <1>2, <1>3, <1>5, <1>6, WokenCount DEF WakeInv, NoLostWakeup
<1> QED
  BY <1>3, <1>5, <1>7, <1>8 DEF WakeInv, QueuedOnce

\* A get frees a slot and wakes the first putter for it.
LEMMA WakeGet ==
    ASSUME TypeOK, WakeInv, WriterGets
    PROVE  WakeInv'
<1>1. /\ tcp \in [Conns -> {"reading", "waiting", "woken", "closed"}]
      /\ putters \in Seq(Conns) /\ queue \in Seq(Event) /\ queue # <<>>
  BY DEF TypeOK, WriterGets
<1>2. Len(queue') = Len(queue) - 1 /\ writer' = "writing" /\ Len(queue) > 0 /\ line' = line
  BY <1>1 DEF WriterGets, Get
<1>3. CASE putters = <<>>
  <2>1. UNCHANGED <<putters, tcp>>
    BY <1>3 DEF WriterGets, Get
  <2>2. Woken' = Woken /\ Members(putters)' = Members(putters)
    BY <2>1 DEF Woken, Members
  <2> QED
    BY <1>2, <1>3, <2>1, <2>2, WokenCount DEF WakeInv, Bounded, NoLostWakeup, QueuedOnce
<1>4. CASE putters # <<>>
  <2> DEFINE h == Head(putters)
  <2>1. /\ putters' = Tail(putters) /\ tcp' = [tcp EXCEPT ![h] = "woken"]
        /\ h \in Conns /\ Members(putters) = {h} \cup Members(Tail(putters))
    BY <1>1, <1>4, MembersHeadTail DEF WriterGets, Get
  <2>2. h \notin Members(Tail(putters)) /\ QueuedOnce' /\ Len(putters') = Len(putters) - 1
    <3>1. /\ Len(putters) \in Nat \ {0} /\ h = putters[1] /\ DOMAIN putters = 1..Len(putters)
          /\ DOMAIN putters' = 1..(Len(putters) - 1) /\ Len(putters') = Len(putters) - 1
          /\ \A i \in 1..(Len(putters) - 1) : putters'[i] = putters[i + 1] /\ i + 1 \in 1..Len(putters)
      BY <1>1, <1>4, <2>1
    <3>2. \A i \in 1..(Len(putters) - 1) : i + 1 # 1 /\ 1 \in 1..Len(putters)
      BY <3>1
    <3>3. h \notin Members(Tail(putters))
      BY <2>1, <3>1, <3>2 DEF Members, WakeInv, QueuedOnce
    <3>4. QueuedOnce'
      <4>1. \A i, j \in 1..Len(putters) : putters[i] = putters[j] => i = j
        BY <3>1 DEF WakeInv, QueuedOnce
      <4>2. ASSUME NEW i \in 1..(Len(putters) - 1), NEW j \in 1..(Len(putters) - 1),
                   putters'[i] = putters'[j]
            PROVE  i = j
        <5>1. putters[i + 1] = putters[j + 1]
          BY <3>1, <4>2
        <5>2. i + 1 = j + 1
          BY <3>1, <4>1, <5>1
        <5> QED
          BY <3>1, <5>2
      <4> QED
        BY <3>1, <4>2 DEF QueuedOnce
    <3> QED
      BY <3>1, <3>3, <3>4
  <2>3. Members(putters)' = Members(putters) \ {h}
    <3>1. Members(putters)' = Members(Tail(putters))
      BY <2>1 DEF Members
    <3> QED
      BY <2>1, <2>2, <3>1
  <2>4. IsFiniteSet(Members(putters)') /\ Cardinality(Members(putters)') = Len(putters')
    <3>1. IsFiniteSet(Members(putters)) /\ Cardinality(Members(putters)) = Len(putters)
      BY WokenCount DEF WakeInv
    <3>2. h \in Members(putters)
      BY <2>1
    <3>3. /\ IsFiniteSet(Members(putters) \ {h})
          /\ Cardinality(Members(putters) \ {h}) = Cardinality(Members(putters)) - 1
      BY <3>1, <3>2, FS_RemoveElement, Zenon
    <3> QED
      BY <2>2, <2>3, <3>1, <3>3, Zenon
  <2>5. tcp[h] = "waiting" /\ Woken' = Woken \cup {h} /\ h \notin Woken
    BY <1>1, <2>1 DEF WakeInv, NoLostWakeup, Woken
  <2>6. IsFiniteSet(Woken') /\ Cardinality(Woken') = Cardinality(Woken) + 1
    BY <2>5, FS_AddElement DEF WakeInv
  <2>7. \A d \in Conns :
           /\ tcp'[d] = "waiting" <=> tcp[d] = "waiting" /\ d # h
           /\ tcp'[d] \in {"waiting", "woken"} <=> tcp[d] \in {"waiting", "woken"}
    BY <1>1, <2>1, <2>5
  <2>8. Bounded'
    BY <1>2, <2>4, <2>7, WokenCount DEF WakeInv, Bounded
  <2>9. NoLostWakeup'
    BY <1>2, <1>4, <2>3, <2>6, <2>7, WokenCount DEF WakeInv, NoLostWakeup
  <2> QED
    BY <2>2, <2>4, <2>6, <2>8, <2>9 DEF WakeInv
<1> QED
  BY <1>3, <1>4

\* Every step keeps the wakeups.
LEMMA WakeStep == ASSUME TypeOK, WakeInv, FlowInv, [Next]_vars PROVE WakeInv'
<1>1. CASE \E c \in Conns, k \in Kinds : PeerSends(c, k)
  BY <1>1, WakeSame DEF PeerSends, queueVars, WakeInv, NoLostWakeup
<1>2. CASE \E c \in Conns : PeerCloses(c)
  BY <1>2, WakeSame DEF PeerCloses, queueVars, WakeInv, NoLostWakeup
<1>3. ASSUME NEW k \in Kinds, DatagramReceived(k) PROVE WakeInv'
  <2>1. NextMessage(UDP, k) \in Event
    BY <1>3, NextMessageType DEF DatagramReceived, Senders
  <2>2. CASE Full
    BY <1>3, <2>2, WakeSame DEF DatagramReceived, WakeInv, NoLostWakeup
  <2>3. CASE ~Full
    BY <1>3, <2>1, <2>3, WakePut DEF DatagramReceived
  <2> QED
    BY <2>2, <2>3
<1>4. ASSUME NEW c \in Conns, Handler(c) PROVE WakeInv'
  <2>1. CASE SkipEmptyLine(c)
    BY <2>1, WakeSame DEF SkipEmptyLine, queueVars, WakeInv, NoLostWakeup
  <2>2. CASE OverlongLine(c)
    BY <2>2, WakeClose DEF OverlongLine, Reading, queueVars
  <2>3. CASE PutLine(c)
    BY <2>3, LineFacts, WakePut DEF PutLine, Parsed
  <2>4. CASE PutLineBlocks(c)
    <3>1. Line(c) \in Event /\ tcp[c] = "reading"
      BY <2>4, LineFacts DEF PutLineBlocks, Parsed, Reading
    <3> QED
      BY <2>4, <3>1, WakeBlock DEF PutLineBlocks, Parsed
  <2>5. CASE PutterResumes(c)
    BY <2>5, WakeResume
  <2>6. CASE PutterWaitsAgain(c)
    <3>1. line[c][1] \in Event /\ tcp[c] = "woken"
      BY <2>6, OneMember DEF PutterWaitsAgain, TypeOK, WakeInv, Bounded
    <3> QED
      BY <2>6, <3>1, WakeBlock DEF PutterWaitsAgain
  <2>7. CASE ReadEof(c)
    BY <2>7, WakeClose DEF ReadEof, queueVars
  <2> QED
    BY <1>4, <2>1, <2>2, <2>3, <2>4, <2>5, <2>6, <2>7 DEF Handler
<1>5. CASE WriterWaits
  BY <1>5, WakeSame DEF WriterWaits, queueVars
<1>6. CASE WriterGets
  BY <1>6, WakeGet
<1>7. CASE WriteCommits \/ WriteFails \/ CommitUnacknowledged \/ ConnectionLost \/ WriterDies
  BY <1>7, WakeSame DEF WriteCommits, WriteFails, CommitUnacknowledged, ConnectionLost,
                        WriterDies, Written, queueVars, WakeInv, NoLostWakeup
<1>8. CASE UNCHANGED vars
  BY <1>8, WakeSame DEF vars, queueVars, WakeInv, NoLostWakeup
<1> QED
  BY <1>1, <1>2, <1>3, <1>4, <1>5, <1>6, <1>7, <1>8 DEF Next, Network, Writer, Faults
-----------------------------------------------------------------------------
(* How each kind of step moves an event along.                             *)

\* What a sequence holds is of its type.
LEMMA MembersType == ASSUME NEW S, NEW q \in Seq(S) PROVE Members(q) \subseteq S
  BY DEF Members

\* A put adds its event at the end,
LEMMA PutMoves ==
    ASSUME TypeOK, NEW m \in Event, Put(m)
    PROVE  /\ Members(queue)' = Members(queue) \cup {m}
           /\ Increasing(queue) /\ Before(Members(queue), {m}) => Increasing(queue)'
<1>1. queue' = Append(queue, m) /\ queue \in Seq(Event)
  BY DEF Put, TypeOK
<1>2. Members(queue)' = Members(Append(queue, m)) /\ Increasing(queue)' = Increasing(Append(queue, m))
  BY <1>1 DEF Members, Increasing
<1>3. Members(Append(queue, m)) = Members(queue) \cup {m}
  BY <1>1, MembersAppend
<1>4. Increasing(queue) /\ Before(Members(queue), {m}) => Increasing(Append(queue, m))
  BY <1>1, IncreasingAppend
<1> QED
  BY <1>2, <1>3, <1>4

\* a get moves the head to the writer,
LEMMA GetMoves ==
    ASSUME TypeOK, FlowInv, WriterGets
    PROVE  /\ Members(item) = {} /\ Members(item)' = {Head(queue)}
           /\ Members(queue) = {Head(queue)} \cup Members(queue)'
           /\ Increasing(queue) => Increasing(queue)' /\ Before(Members(item)', Members(queue)')
<1>1. /\ queue \in Seq(Event) /\ queue # <<>> /\ item = <<>>
      /\ queue' = Tail(queue) /\ item' = <<Head(queue)>>
  BY DEF TypeOK, WriterGets, Get, FlowInv, WriterHolds
<1>2. Members(queue)' = Members(Tail(queue)) /\ Increasing(queue)' = Increasing(Tail(queue))
  BY <1>1 DEF Members, Increasing
<1>3. Members(item)' = Members(<<Head(queue)>>) /\ Members(item) = Members(<<>>)
  BY <1>1 DEF Members
<1>4. Members(queue) = {Head(queue)} \cup Members(Tail(queue))
  BY <1>1, MembersHeadTail
<1>5. Increasing(queue) => Increasing(Tail(queue)) /\ Before({Head(queue)}, Members(Tail(queue)))
  BY <1>1, IncreasingTail
<1> QED
  BY <1>2, <1>3, <1>4, <1>5, MembersEmpty, MembersOne

\* reading takes the first line of one socket,
LEMMA ConsumeMoves ==
    ASSUME TypeOK, NEW c \in Conns, Reading(c), Consume(c)
    PROVE  /\ \A d \in Conns : d # c => socket'[d] = socket[d]
           /\ socket'[c] = Tail(socket[c])
           /\ Members(socket[c]) = {Line(c)} \cup Members(socket'[c])
           /\ Increasing(socket[c]) =>
                Increasing(socket'[c]) /\ Before({Line(c)}, Members(socket'[c]))
<1>1. /\ socket[c] \in Seq(Message) /\ socket[c] # <<>>
      /\ socket' = [socket EXCEPT ![c] = Tail(socket[c])] /\ DOMAIN socket = Conns
  BY DEF TypeOK, Reading, Consume
<1>2. socket'[c] = Tail(socket[c]) /\ \A d \in Conns : d # c => socket'[d] = socket[d]
  BY <1>1
<1>3. Increasing(socket[c]) =>
        Increasing(Tail(socket[c])) /\ Before({Head(socket[c])}, Members(Tail(socket[c])))
  BY <1>1, IncreasingTail
<1> QED
  BY <1>2, <1>3, LineFacts DEF Line

\* a commit adds one row,
LEMMA StoreMoves ==
    ASSUME TypeOK, NEW m \in Event, stored' = Append(stored, m)
    PROVE  Members(stored)' = Members(stored) \cup {m}
<1>1. Members(stored)' = Members(Append(stored, m)) /\ stored \in Seq(Event)
  BY DEF Members, TypeOK
<1> QED
  BY <1>1, MembersAppend

\* a blocked put holds one event,
LEMMA BlockMoves ==
    ASSUME TypeOK, NEW c \in Conns, NEW m \in Event, Block(c, m)
    PROVE  Members(line'[c]) = {m} /\ \A d \in Conns : d # c => line'[d] = line[d]
<1>1. line'[c] = <<m>> /\ \A d \in Conns : d # c => line'[d] = line[d]
  BY DEF Block, TypeOK
<1> QED
  BY <1>1, MembersOne

\* and a drop is for one reason.
LEMMA GiveUpMoves ==
    ASSUME NEW m, NEW why, dropped' = dropped \cup {[msg |-> m, why |-> why]}
    PROVE  /\ GivenUp(why)' = GivenUp(why) \cup {m}
           /\ \A w : w # why => GivenUp(w)' = GivenUp(w)
<1> DEFINE r == [msg |-> m, why |-> why]
<1>1. r.msg = m /\ r.why = why
  OBVIOUS
<1> HIDE DEF r
<1>2. dropped' = dropped \cup {r}
  BY DEF r
<1> QED
  BY <1>1, <1>2 DEF GivenUp

\* A connection that reads holds no event; one that waits holds exactly one.
LEMMA LineHeld ==
    ASSUME TypeOK, WakeInv, NEW c \in Conns
    PROVE  /\ tcp[c] \in {"waiting", "woken"} => line[c][1] \in Event /\ Members(line[c]) = {line[c][1]}
           /\ tcp[c] \notin {"waiting", "woken"} => Members(line[c]) = {}
  BY OneMember DEF TypeOK, WakeInv, Bounded
-----------------------------------------------------------------------------
(* No line that was read is lost on the way.                               *)

Given == <<GivenUp("write"), GivenUp("full")>>

Kept == InFlight \cup Members(stored) \cup GivenUp("write")

\* Lines are kept if nothing held is forgotten.
LEMMA FlowKept ==
    ASSUME FlowInv, WriterHolds', Kept \subseteq Kept', taken' \subseteq taken \cup Kept',
           GivenUp("full")' = GivenUp("full")
    PROVE  FlowInv'
  BY DEF FlowInv, Backpressure, Kept

\* Blocked puts hold what they held.
LEMMA LinesSame ==
    ASSUME UNCHANGED line
    PROVE  \A d \in Conns : Members(line'[d]) = Members(line[d])
  BY DEF Members

\* Where a kept line can be, before and after a step.
LEMMA KeptParts ==
    /\ \A m : m \in Kept <=> \/ m \in Members(item) \/ m \in Members(queue) \/ m \in Members(stored)
                             \/ m \in GivenUp("write") \/ \E c \in Conns : m \in Members(line[c])
    /\ \A m : m \in Kept' <=>
                \/ m \in Members(item)' \/ m \in Members(queue)' \/ m \in Members(stored)'
                \/ m \in GivenUp("write")' \/ \E c \in Conns : m \in Members(line'[c])
<1>1. \A m : m \in UNION {Members(line[c]) : c \in Conns} <=> \E c \in Conns : m \in Members(line[c])
  OBVIOUS
<1>2. Kept' = InFlight' \cup Members(stored)' \cup GivenUp("write")'
  BY DEF Kept
<1>3. InFlight' = Members(item)' \cup Members(queue)' \cup UNION {Members(line'[c]) : c \in Conns}
  BY DEF InFlight, Members
<1>4. \A m : m \in UNION {Members(line'[c]) : c \in Conns} <=> \E c \in Conns : m \in Members(line'[c])
  OBVIOUS
<1> HIDE DEF Kept
<1> QED
  BY <1>1, <1>2, <1>3, <1>4 DEF Kept, InFlight

\* What was given up, by reason, depends on dropped alone.
LEMMA GivenSame ==
    /\ UNCHANGED dropped => Given' = Given
    /\ Given' = Given => GivenUp("write")' = GivenUp("write") /\ GivenUp("full")' = GivenUp("full")
  BY DEF Given, GivenUp

\* Every step keeps every line.
LEMMA FlowStep == ASSUME TypeOK, WakeInv, FlowInv, [Next]_vars PROVE FlowInv'
<1>0. ASSUME UNCHANGED <<line, queue, writer, item, stored, dropped, taken>> PROVE FlowInv'
  <2>1. /\ Members(item)' = Members(item) /\ Members(queue)' = Members(queue)
        /\ Members(stored)' = Members(stored) /\ Given' = Given
    BY <1>0, GivenSame DEF Members
  <2>2. WriterHolds'
    BY <1>0 DEF FlowInv, WriterHolds
  <2> QED
    BY <1>0, <2>1, <2>2, FlowKept, KeptParts, GivenSame, LinesSame
<1>p. ASSUME NEW m \in Event, Put(m), UNCHANGED <<item, stored, dropped>>,
             writer # "writing" \/ writer' = writer,
             taken' \subseteq taken \cup {m},
             \A d \in Conns : Members(line[d]) \subseteq Members(line'[d]) \cup {m}
      PROVE  FlowInv'
  <2>1. /\ Members(item)' = Members(item) /\ Members(queue)' = Members(queue) \cup {m}
        /\ Members(stored)' = Members(stored) /\ Given' = Given
    <3>1. Members(queue)' = Members(queue) \cup {m}
      BY <1>p, PutMoves
    <3>2. Members(item)' = Members(item) /\ Members(stored)' = Members(stored)
      BY <1>p DEF Members
    <3> QED
      BY <1>p, <3>1, <3>2, GivenSame
  <2>2. WriterHolds'
    BY <1>p DEF FlowInv, WriterHolds, Put
  <2> QED
    BY <1>p, <2>1, <2>2, FlowKept, KeptParts, GivenSame
<1>b. ASSUME NEW c \in Conns, NEW m \in Event, Block(c, m), Members(line[c]) \subseteq {m},
             UNCHANGED <<queue, writer, item, stored, dropped>>, taken' \subseteq taken \cup {m}
      PROVE  FlowInv'
  <2>1. /\ Members(item)' = Members(item) /\ Members(queue)' = Members(queue)
        /\ Members(stored)' = Members(stored) /\ Given' = Given
    BY <1>b, GivenSame DEF Members
  <2>2. WriterHolds'
    BY <1>b DEF FlowInv, WriterHolds
  <2>3. Members(line'[c]) = {m} /\ \A d \in Conns : d # c => Members(line'[d]) = Members(line[d])
    BY <1>b, BlockMoves DEF Members
  <2> QED
    BY <1>b, <2>1, <2>2, <2>3, FlowKept, KeptParts, GivenSame
<1>w. ASSUME item' = <<>>, writer' \in {"ready", "dead"}, UNCHANGED <<line, queue, taken>>,
             Members(stored) \subseteq Members(stored)',
             Members(item) \subseteq Members(stored)' \cup GivenUp("write")',
             GivenUp("write") \subseteq GivenUp("write")', GivenUp("full")' = GivenUp("full")
      PROVE  FlowInv'
  <2>1. Members(queue)' = Members(queue)
    BY <1>w DEF Members
  <2>2. WriterHolds'
    BY <1>w DEF WriterHolds
  <2> QED
    BY <1>w, <2>1, <2>2, FlowKept, KeptParts, GivenSame, LinesSame
<1>1. CASE \E c \in Conns, k \in Kinds : PeerSends(c, k)
  BY <1>0, <1>1 DEF PeerSends, queueVars, writeVars
<1>2. CASE \E c \in Conns : PeerCloses(c)
  BY <1>0, <1>2 DEF PeerCloses, queueVars, writeVars
<1>3. ASSUME NEW k \in Kinds, DatagramReceived(k) PROVE FlowInv'
  <2>1. NextMessage(UDP, k) \in Event /\ NextMessage(UDP, k).from = UDP
    BY <1>3, NextMessageType DEF DatagramReceived, Senders
  <2>2. CASE Full
    <3>1. /\ UNCHANGED <<line, queue, writer, item, stored, taken>>
          /\ dropped' = dropped \cup {[msg |-> NextMessage(UDP, k), why |-> "full"]}
      BY <1>3, <2>2 DEF DatagramReceived, writeVars
    <3>2. /\ GivenUp("full")' = GivenUp("full") \cup {NextMessage(UDP, k)}
          /\ GivenUp("write")' = GivenUp("write")
      BY <3>1, GiveUpMoves
    <3>3. /\ Members(item)' = Members(item) /\ Members(queue)' = Members(queue)
          /\ Members(stored)' = Members(stored) /\ WriterHolds'
      BY <3>1 DEF Members, FlowInv, WriterHolds
    <3>4. Kept' = Kept
      BY <3>1, <3>2, <3>3, KeptParts, LinesSame
    <3> QED
      BY <2>1, <3>1, <3>2, <3>3, <3>4 DEF FlowInv, Backpressure, Kept
  <2>3. CASE ~Full
    <3>1. /\ Put(NextMessage(UDP, k)) /\ UNCHANGED <<line, item, stored, dropped, taken>>
          /\ writer # "writing" \/ writer' = writer
      BY <1>3, <2>3 DEF DatagramReceived, Put, writeVars
    <3>2. \A d \in Conns : Members(line[d]) \subseteq Members(line'[d]) \cup {NextMessage(UDP, k)}
      BY <3>1, LinesSame
    <3> QED
      BY <1>p, <2>1, <3>1, <3>2
  <2> QED
    BY <2>2, <2>3
<1>4. ASSUME NEW c \in Conns, Handler(c) PROVE FlowInv'
  <2>1. CASE SkipEmptyLine(c)
    BY <1>0, <2>1 DEF SkipEmptyLine, queueVars, writeVars
  <2>2. CASE OverlongLine(c)
    BY <1>0, <2>2 DEF OverlongLine, queueVars, writeVars
  <2>3. CASE PutLine(c)
    <3>1. /\ Line(c) \in Event /\ Put(Line(c)) /\ UNCHANGED <<line, item, stored, dropped>>
          /\ taken' = taken \cup {Line(c)} /\ (writer # "writing" \/ writer' = writer)
      BY <2>3, LineFacts DEF PutLine, Parsed, Put, writeVars
    <3>2. \A d \in Conns : Members(line[d]) \subseteq Members(line'[d]) \cup {Line(c)}
      BY <3>1, LinesSame
    <3> QED
      BY <1>p, <3>1, <3>2
  <2>4. CASE PutLineBlocks(c)
    <3>1. /\ Line(c) \in Event /\ Block(c, Line(c)) /\ taken' = taken \cup {Line(c)}
          /\ UNCHANGED <<queue, writer, item, stored, dropped>> /\ Members(line[c]) = {}
      BY <2>4, LineFacts, LineHeld DEF PutLineBlocks, Parsed, Reading, writeVars
    <3> QED
      BY <1>b, <3>1
  <2>5. CASE PutterResumes(c)
    <3>1. /\ line[c][1] \in Event /\ Members(line[c]) = {line[c][1]} /\ Put(line[c][1])
          /\ UNCHANGED <<item, stored, dropped, taken>> /\ (writer # "writing" \/ writer' = writer)
          /\ \A d \in Conns : d # c => line'[d] = line[d]
      BY <2>5, LineHeld DEF PutterResumes, Put, writeVars, TypeOK
    <3>2. \A d \in Conns : Members(line[d]) \subseteq Members(line'[d]) \cup {line[c][1]}
      BY <3>1 DEF Members
    <3> QED
      BY <1>p, <3>1, <3>2
  <2>6. CASE PutterWaitsAgain(c)
    <3>1. /\ line[c][1] \in Event /\ Members(line[c]) = {line[c][1]} /\ Block(c, line[c][1])
          /\ UNCHANGED <<queue, writer, item, stored, dropped, taken>>
      BY <2>6, LineHeld DEF PutterWaitsAgain, writeVars
    <3> QED
      BY <1>b, <3>1
  <2>7. CASE ReadEof(c)
    BY <1>0, <2>7 DEF ReadEof, queueVars, writeVars
  <2> QED
    BY <1>4, <2>1, <2>2, <2>3, <2>4, <2>5, <2>6, <2>7 DEF Handler
<1>5. CASE WriterWaits
  <2>1. /\ UNCHANGED <<line, queue, item, stored, dropped, taken>>
        /\ writer \in {"ready", "woken"} /\ writer' = "idle"
    BY <1>5 DEF WriterWaits, queueVars, writeVars
  <2>2. /\ Members(item)' = Members(item) /\ Members(queue)' = Members(queue)
        /\ Members(stored)' = Members(stored) /\ Given' = Given /\ WriterHolds'
    BY <2>1, GivenSame DEF Members, FlowInv, WriterHolds
  <2> QED
    BY <2>1, <2>2, FlowKept, KeptParts, GivenSame, LinesSame
<1>6. CASE WriterGets
  <2>1. /\ UNCHANGED <<line, stored, dropped, taken>> /\ writer' = "writing"
        /\ item' = <<Head(queue)>>
    BY <1>6 DEF WriterGets, Get
  <2>2. /\ Members(stored)' = Members(stored) /\ Given' = Given
    BY <2>1, GivenSame DEF Members
  <2>3. WriterHolds'
    BY <2>1 DEF WriterHolds
  <2> QED
    BY <1>6, <2>1, <2>2, <2>3, GetMoves, FlowKept, KeptParts, GivenSame, LinesSame
<1>7. CASE WriteCommits
  <2>1. /\ stored' = Append(stored, item[1]) /\ item' = <<>> /\ writer' = "ready"
        /\ UNCHANGED <<line, queue, taken, dropped>> /\ item[1] \in Event
        /\ Members(item) = {item[1]}
    BY <1>7, ItemFacts DEF WriteCommits, Stores, Written, queueVars
  <2>2. Members(stored)' = Members(stored) \cup {item[1]} /\ Given' = Given
    BY <2>1, StoreMoves, GivenSame
  <2> QED
    BY <1>w, <2>1, <2>2, GivenSame
<1>8. CASE WriteFails \/ CommitUnacknowledged
  <2>1. /\ dropped' = dropped \cup {[msg |-> item[1], why |-> "write"]} /\ item' = <<>>
        /\ writer' = "ready" /\ UNCHANGED <<line, queue, taken>> /\ item[1] \in Event
        /\ Members(item) = {item[1]} /\ (stored' = stored \/ stored' = Append(stored, item[1]))
    BY <1>8, ItemFacts DEF WriteFails, CommitUnacknowledged, Stores, Drops, Written, queueVars
  <2>2. /\ GivenUp("write")' = GivenUp("write") \cup {item[1]}
        /\ GivenUp("full")' = GivenUp("full")
    <3>1. dropped' = dropped \cup {[msg |-> item[1], why |-> "write"]}
      BY <2>1
    <3> QED
      BY <3>1, GiveUpMoves
  <2>3. Members(stored) \subseteq Members(stored)'
    <3>1. CASE stored' = stored
      BY <3>1 DEF Members
    <3> QED
      BY <2>1, <3>1, StoreMoves
  <2> QED
    BY <1>w, <2>1, <2>2, <2>3
<1>9. CASE ConnectionLost
  BY <1>0, <1>9 DEF ConnectionLost, queueVars
<1>10. CASE WriterDies
  <2>1. /\ item' = <<>> /\ writer' = "dead" /\ UNCHANGED <<line, queue, stored, taken>>
    BY <1>10 DEF WriterDies, queueVars
  <2>2. Members(stored)' = Members(stored)
    BY <2>1 DEF Members
  <2>3. CASE item = <<>>
    <3>1. UNCHANGED dropped
      BY <1>10, <2>3 DEF WriterDies
    <3>2. Members(item) = {} /\ Given' = Given
      BY <2>3, <3>1, MembersEmpty, GivenSame
    <3> QED
      BY <1>w, <2>1, <2>2, <3>2, GivenSame
  <2>4. CASE item # <<>>
    <3>1. /\ dropped' = dropped \cup {[msg |-> item[1], why |-> "write"]}
          /\ Members(item) = {item[1]}
      BY <1>10, <2>4, OneMember DEF WriterDies, TypeOK
    <3>2. /\ GivenUp("write")' = GivenUp("write") \cup {item[1]}
          /\ GivenUp("full")' = GivenUp("full")
      BY <3>1, GiveUpMoves
    <3> QED
      BY <1>w, <2>1, <2>2, <3>1, <3>2
  <2> QED
    BY <2>3, <2>4
<1>11. CASE UNCHANGED vars
  BY <1>0, <1>11 DEF vars, queueVars, writeVars
<1> QED
  BY <1>1, <1>2, <1>3, <1>4, <1>5, <1>6, <1>7, <1>8, <1>9, <1>10, <1>11
     DEF Next, Network, Writer, Faults
-----------------------------------------------------------------------------
(* No sender's messages overtake one another.                              *)

InHand == Members(stored) \cup Members(item) \cup Members(queue)

\* What the server has in hand are events.
LEMMA HandTypes ==
    ASSUME TypeOK
    PROVE  /\ InHand \subseteq Event
           /\ \A c \in Conns : Members(line[c]) \subseteq Event /\ Members(socket[c]) \subseteq Message
  BY MembersType DEF TypeOK, AtMostOne, InHand

\* A step that offers nothing new and keeps every set and its order.
LEMMA OrderShrink ==
    ASSUME OrderInv, UNCHANGED sent, Increasing(queue)',
           Members(stored)' \subseteq Members(stored), Members(item)' \subseteq Members(item),
           Members(queue)' \subseteq Members(queue),
           \A d \in Conns : /\ Members(line'[d]) \subseteq Members(line[d])
                            /\ Members(socket'[d]) \subseteq Members(socket[d])
                            /\ Increasing(socket'[d])
    PROVE  OrderInv'
<1>1. Before(Members(stored)', Members(item)' \cup Members(queue)')
  BY DEF OrderInv, Before
<1>2. Before(Members(item)', Members(queue)')
  BY DEF OrderInv, Before
<1>3. ASSUME NEW d \in Conns
      PROVE  /\ Before(Members(stored)' \cup Members(item)' \cup Members(queue)',
                       Members(line'[d]) \cup Members(socket'[d]))
             /\ Before(Members(line'[d]), Members(socket'[d]))
  BY <1>3 DEF OrderInv, Before
<1>4. ASSUME NEW d \in Conns, NEW m \in Members(line'[d]) \cup Members(socket'[d])
      PROVE  m.from = d /\ Sent(m)'
  BY <1>4 DEF OrderInv, Sent
<1>5. ASSUME NEW m \in Members(stored)' \cup Members(item)' \cup Members(queue)'
      PROVE  Sent(m)'
  BY <1>5 DEF OrderInv, Sent
<1>6. \A d \in Conns : Members(line[d])' = Members(line'[d]) /\ Members(socket[d])' = Members(socket'[d])
  BY DEF Members
<1> QED
  BY <1>1, <1>2, <1>3, <1>4, <1>5, <1>6 DEF OrderInv

\* A step that moves no message keeps the order.
LEMMA OrderSame ==
    ASSUME OrderInv, UNCHANGED <<sent, socket, line, queue, item, stored>>
    PROVE  OrderInv'
<1>1. /\ Members(stored)' = Members(stored) /\ Members(item)' = Members(item)
      /\ Members(queue)' = Members(queue)
      /\ \A d \in Conns : /\ Members(line'[d]) = Members(line[d])
                          /\ Members(socket'[d]) = Members(socket[d])
  BY DEF Members
<1>2. Increasing(queue)' /\ \A d \in Conns : Increasing(socket'[d])
  BY DEF Increasing, OrderInv
<1> QED
  BY <1>1, <1>2, OrderShrink

\* What was sent stays sent.
LEMMA SentKept ==
    ASSUME TypeOK, NEW s \in Senders, sent' = [sent EXCEPT ![s] = @ + 1]
    PROVE  \A m \in Message : Sent(m) => Sent(m)'
<1>1. sent \in [Senders -> Nat] /\ DOMAIN sent' = Senders
      /\ \A t \in Senders : sent[t] \in Nat /\ sent'[t] \in Nat /\ sent[t] <= sent'[t]
  BY DEF TypeOK
<1>2. ASSUME NEW m \in Message, Sent(m) PROVE Sent(m)'
  <2>1. m.from \in Senders /\ m.seq \in Nat /\ m.seq <= sent[m.from]
    BY <1>2 DEF Sent, Message
  <2> QED
    BY <1>1, <2>1 DEF Sent
<1> QED
  BY <1>2

\* A put keeps it, when all that is in hand came before.
LEMMA OrderPut ==
    ASSUME TypeOK, OrderInv, NEW m \in Event, Put(m), UNCHANGED <<item, stored>>,
           Before(InHand, {m}), Sent(m)', \A x \in Message : Sent(x) => Sent(x)',
           \A d \in Conns : /\ Members(line'[d]) \subseteq Members(line[d])
                            /\ Members(socket'[d]) \subseteq Members(socket[d])
                            /\ Increasing(socket'[d])
                            /\ Before({m}, Members(line'[d]) \cup Members(socket'[d]))
    PROVE  OrderInv'
<1>0. Event \subseteq Message
  BY DEF Event, Message
<1>1. /\ Members(stored)' = Members(stored) /\ Members(item)' = Members(item)
  BY DEF Members
<1>2. Members(queue)' = Members(queue) \cup {m} /\ Increasing(queue)'
  <2>1. Increasing(queue) /\ Before(Members(queue), {m})
    BY DEF OrderInv, Before, InHand
  <2> QED
    BY <2>1, PutMoves
<1>3. Before(Members(stored)', Members(item)' \cup Members(queue)')
  BY <1>1, <1>2 DEF OrderInv, Before, InHand
<1>4. Before(Members(item)', Members(queue)')
  BY <1>1, <1>2 DEF OrderInv, Before, InHand
<1>5. ASSUME NEW d \in Conns
      PROVE  /\ Before(Members(stored)' \cup Members(item)' \cup Members(queue)',
                       Members(line'[d]) \cup Members(socket'[d]))
             /\ Before(Members(line'[d]), Members(socket'[d]))
  BY <1>1, <1>2, <1>5 DEF OrderInv, Before
<1>6. ASSUME NEW d \in Conns, NEW x \in Members(line'[d]) \cup Members(socket'[d])
      PROVE  x.from = d /\ Sent(x)'
  <2>1. x \in Members(line[d]) \cup Members(socket[d]) /\ x \in Message
    BY <1>0, <1>6, HandTypes
  <2> QED
    BY <2>1 DEF OrderInv
<1>7. ASSUME NEW x \in Members(stored)' \cup Members(item)' \cup Members(queue)'
      PROVE  Sent(x)'
  <2>1. x = m \/ x \in InHand
    BY <1>1, <1>2, <1>7 DEF InHand
  <2>2. CASE x \in InHand
    <3>1. Sent(x) /\ x \in Message
      BY <1>0, <2>2, HandTypes DEF OrderInv, InHand
    <3> QED
      BY <3>1
  <2> QED
    BY <2>1, <2>2
<1>8. \A d \in Conns : Members(line[d])' = Members(line'[d]) /\ Members(socket[d])' = Members(socket'[d])
  BY DEF Members
<1> QED
  BY <1>2, <1>3, <1>4, <1>5, <1>6, <1>7, <1>8 DEF OrderInv

\* A peer sends its next number.
LEMMA OrderOffer ==
    ASSUME TypeOK, OrderInv, NEW c \in Conns, NEW k \in Kinds, PeerSends(c, k)
    PROVE  OrderInv'
<1>0. PICK m \in Message : m = NextMessage(c, k)
  BY NextMessageType DEF Senders
<1>1. /\ m \in Message /\ m.from = c /\ m.seq = sent[c] + 1 /\ c \in Senders
      /\ sent' = [sent EXCEPT ![c] = @ + 1] /\ sent \in [Senders -> Nat]
      /\ socket' = [socket EXCEPT ![c] = Append(@, m)] /\ socket \in [Conns -> Seq(Message)]
      /\ UNCHANGED <<line, queue, item, stored>>
  BY <1>0, NextMessageType DEF PeerSends, Senders, TypeOK, queueVars, writeVars
<1>2. Sent(m)' /\ \A x \in Message : Sent(x) => Sent(x)' /\ (x.from = c => x.seq < m.seq)
  <2>1. Sent(m)'
    BY <1>1 DEF Sent
  <2>2. ASSUME NEW x \in Message, Sent(x), x.from = c PROVE x.seq < m.seq
    <3>1. x.seq \in Nat /\ x.seq <= sent[c] /\ sent[c] \in Nat
      BY <1>1, <2>2 DEF Sent, Message
    <3> QED
      BY <1>1, <3>1
  <2> QED
    BY <1>1, <2>1, <2>2, SentKept
<1>3. /\ socket'[c] = Append(socket[c], m) /\ socket[c] \in Seq(Message)
      /\ \A d \in Conns : d # c => socket'[d] = socket[d]
  BY <1>1
<1>4. Members(socket'[c]) = Members(socket[c]) \cup {m} /\ Increasing(socket'[c])
  <2>1. Increasing(socket[c]) /\ \A x \in Members(socket[c]) : x.from = c /\ Sent(x) /\ x \in Message
    BY HandTypes DEF OrderInv
  <2>2. Before(Members(socket[c]), {m})
    BY <1>2, <2>1 DEF Before
  <2> QED
    BY <1>1, <1>3, <2>1, <2>2, MembersAppend, IncreasingAppend
<1>5. /\ Members(stored)' = Members(stored) /\ Members(item)' = Members(item)
      /\ Members(queue)' = Members(queue) /\ Increasing(queue)'
      /\ \A d \in Conns : Members(line'[d]) = Members(line[d])
  BY <1>1 DEF Members, Increasing, OrderInv
<1>6. \A x \in InHand : x \in Message /\ Sent(x) /\ Sent(x)'
  BY <1>2, HandTypes DEF OrderInv, InHand, Event, Message
<1>7. \A d \in Conns : /\ Increasing(socket'[d]) /\ Members(socket'[d]) \subseteq Members(socket[d]) \cup {m}
                       /\ d # c => Members(socket'[d]) = Members(socket[d])
  BY <1>3, <1>4 DEF OrderInv
<1>8. ASSUME NEW d \in Conns
      PROVE  /\ Before(InHand, Members(line[d]) \cup Members(socket'[d]))
             /\ Before(Members(line[d]), Members(socket'[d]))
             /\ \A x \in Members(line[d]) \cup Members(socket'[d]) : x.from = d /\ Sent(x)'
  <2>1. /\ Before(InHand, Members(line[d]) \cup Members(socket[d]))
        /\ Before(Members(line[d]), Members(socket[d]))
        /\ \A x \in Members(line[d]) \cup Members(socket[d]) : x \in Message /\ x.from = d /\ Sent(x)
    BY HandTypes DEF OrderInv, InHand, Event, Message
  <2>2. CASE d # c
    <3>1. Members(socket'[d]) = Members(socket[d])
      BY <1>7, <2>2
    <3>2. \A x \in Members(line[d]) \cup Members(socket[d]) : Sent(x)'
      BY <1>2, <2>1
    <3> QED
      BY <2>1, <3>1, <3>2
  <2>3. CASE d = c
    BY <1>1, <1>2, <1>6, <1>7, <2>1, <2>3 DEF Before
  <2> QED
    BY <2>2, <2>3
<1>9. \A d \in Conns : Members(line[d])' = Members(line'[d]) /\ Members(socket[d])' = Members(socket'[d])
  BY DEF Members
<1>10. /\ Before(Members(stored)', Members(item)' \cup Members(queue)')
       /\ Before(Members(item)', Members(queue)')
  BY <1>5 DEF OrderInv
<1>11. Members(stored)' \cup Members(item)' \cup Members(queue)' = InHand
  BY <1>5 DEF InHand
<1> QED
  BY <1>5, <1>6, <1>7, <1>8, <1>9, <1>10, <1>11 DEF OrderInv

\* A datagram has its number and goes to the queue or nowhere.
LEMMA OrderDatagram ==
    ASSUME TypeOK, OrderInv, NEW k \in Kinds, DatagramReceived(k)
    PROVE  OrderInv'
<1>0. PICK m \in Event : m = NextMessage(UDP, k)
  BY NextMessageType DEF DatagramReceived, Senders
<1>1. /\ m \in Event /\ m.from = UDP /\ m.seq = sent[UDP] + 1 /\ UDP \in Senders /\ UDP \notin Conns
      /\ sent' = [sent EXCEPT ![UDP] = @ + 1] /\ sent \in [Senders -> Nat]
      /\ UNCHANGED <<socket, line, item, stored>>
      /\ (UNCHANGED queue \/ Put(m))
  BY <1>0, NextMessageType, SyslogAssumption DEF DatagramReceived, Senders, TypeOK, writeVars
<1>2. \A x \in Message : Sent(x) => Sent(x)'
  BY <1>1, SentKept
<1>3. \A d \in Conns : /\ Members(line'[d]) = Members(line[d]) /\ Members(socket'[d]) = Members(socket[d])
                       /\ Increasing(socket'[d])
  BY <1>1 DEF Members, OrderInv, Increasing
<1>4. CASE Put(m)
  <2>1. Sent(m)'
    BY <1>1 DEF Sent
  <2>2. Before(InHand, {m})
    <3>1. ASSUME NEW x \in InHand, x.from = UDP PROVE x.seq < m.seq
      <4>1. x \in Event /\ Sent(x)
        BY <3>1, HandTypes DEF OrderInv, InHand
      <4>2. x.seq \in Nat /\ x.seq <= sent[UDP] /\ sent[UDP] \in Nat
        BY <1>1, <3>1, <4>1 DEF Sent, Event
      <4> QED
        BY <1>1, <4>2
    <3> QED
      BY <1>1, <3>1 DEF Before
  <2>3. \A d \in Conns : Before({m}, Members(line'[d]) \cup Members(socket'[d]))
    BY <1>1, <1>3 DEF Before, OrderInv
  <2> QED
    BY <1>1, <1>2, <1>3, <1>4, <2>1, <2>2, <2>3, OrderPut
<1>5. CASE UNCHANGED queue
  <2>1. /\ Members(stored)' = Members(stored) /\ Members(item)' = Members(item)
        /\ Members(queue)' = Members(queue) /\ Increasing(queue)'
    BY <1>1, <1>5 DEF Members, OrderInv, Increasing
  <2>2. \A x \in InHand : Sent(x) /\ Sent(x)'
    BY <1>2, HandTypes DEF OrderInv, InHand, Event, Message
  <2>3. ASSUME NEW d \in Conns, NEW x \in Members(line[d]) \cup Members(socket[d])
        PROVE  x.from = d /\ Sent(x)'
    <3>1. x \in Message /\ Sent(x) /\ x.from = d
      BY <2>3, HandTypes DEF OrderInv, Event, Message
    <3> QED
      BY <1>2, <3>1
  <2>4. \A d \in Conns : Members(line[d])' = Members(line'[d]) /\ Members(socket[d])' = Members(socket'[d])
    BY DEF Members
  <2>5. \A d \in Conns : Increasing(socket[d])'
    BY <1>3 DEF Increasing
  <2>6. Members(stored)' \cup Members(item)' \cup Members(queue)' = InHand
    BY <2>1 DEF InHand
  <2>7. /\ Before(Members(stored)', Members(item)' \cup Members(queue)')
        /\ Before(Members(item)', Members(queue)')
        /\ \A d \in Conns :
              /\ Before(InHand, Members(line'[d]) \cup Members(socket'[d]))
              /\ Before(Members(line'[d]), Members(socket'[d]))
    BY <1>3, <2>1 DEF OrderInv, InHand
  <2> QED
    BY <1>3, <2>1, <2>2, <2>3, <2>4, <2>5, <2>6, <2>7 DEF OrderInv
<1> QED
  BY <1>1, <1>4, <1>5

\* A step that takes nothing from the sockets and nothing from a blocked put.
LEMMA SocketsSame ==
    ASSUME OrderInv, UNCHANGED socket
    PROVE  \A d \in Conns : Members(socket'[d]) = Members(socket[d]) /\ Increasing(socket'[d])
  BY DEF Members, Increasing, OrderInv

\* One that reads a line from one of them.
LEMMA SocketsRead ==
    ASSUME TypeOK, OrderInv, NEW c \in Conns, Reading(c), Consume(c)
    PROVE  /\ \A d \in Conns : /\ Members(socket'[d]) \subseteq Members(socket[d])
                               /\ Increasing(socket'[d])
           /\ Before({Line(c)}, Members(socket'[c]))
           /\ Line(c) \in Members(socket[c])
<1>1. /\ \A d \in Conns : d # c => socket'[d] = socket[d]
      /\ Members(socket[c]) = {Line(c)} \cup Members(socket'[c])
      /\ Increasing(socket'[c]) /\ Before({Line(c)}, Members(socket'[c]))
  BY ConsumeMoves DEF OrderInv
<1>2. \A d \in Conns : Increasing(socket[d])
  BY DEF OrderInv
<1>3. \A d \in Conns : d # c => Members(socket'[d]) = Members(socket[d])
  BY <1>1 DEF Members
<1> QED
  BY <1>1, <1>2, <1>3

\* A line goes from its socket to the queue,
LEMMA OrderPutLine ==
    ASSUME TypeOK, WakeInv, OrderInv, NEW c \in Conns, PutLine(c)
    PROVE  OrderInv'
<1>1. /\ Reading(c) /\ Consume(c) /\ Line(c) \in Event /\ tcp[c] = "reading"
      /\ UNCHANGED <<line, item, stored, sent>> /\ Put(Line(c))
  BY LineFacts DEF PutLine, Parsed, Reading, Consume, writeVars
<1>2. PICK m \in Event : m = Line(c)
  BY <1>1
<1>3. /\ m \in Members(socket[c]) /\ Before({m}, Members(socket'[c]))
      /\ \A d \in Conns : Members(socket'[d]) \subseteq Members(socket[d]) /\ Increasing(socket'[d])
  BY <1>1, <1>2, SocketsRead
<1>4. /\ Before(InHand, {m}) /\ m.from = c /\ Sent(m)
  BY <1>3 DEF OrderInv, InHand, Before
<1>5. Sent(m)' /\ \A x \in Message : Sent(x) => Sent(x)'
  BY <1>1, <1>4 DEF Sent
<1>6. \A d \in Conns : Members(line'[d]) = Members(line[d])
  BY <1>1, LinesSame
<1>7. ASSUME NEW d \in Conns PROVE Before({m}, Members(line'[d]) \cup Members(socket'[d]))
  <2>1. CASE d = c
    <3>1. Members(line[c]) = {}
      BY <1>1, LineHeld
    <3> QED
      BY <1>3, <1>6, <2>1, <3>1
  <2>2. CASE d # c
    <3>1. \A x \in Members(line'[d]) \cup Members(socket'[d]) : x.from = d
      BY <1>3, <1>6 DEF OrderInv
    <3> QED
      BY <1>4, <2>2, <3>1 DEF Before
  <2> QED
    BY <2>1, <2>2
<1> QED
  BY <1>1, <1>2, <1>3, <1>4, <1>5, <1>6, <1>7, OrderPut

\* from a blocked put to the queue,
LEMMA OrderResume ==
    ASSUME TypeOK, WakeInv, OrderInv, NEW c \in Conns, PutterResumes(c)
    PROVE  OrderInv'
<1>1. /\ tcp[c] = "woken" /\ UNCHANGED <<sent, socket, item, stored>> /\ Put(line[c][1])
      /\ line' = [line EXCEPT ![c] = <<>>] /\ DOMAIN line = Conns
      /\ line[c][1] \in Event /\ Members(line[c]) = {line[c][1]}
  BY LineHeld DEF PutterResumes, netVars, writeVars, TypeOK
<1>2. PICK m \in Event : m = line[c][1]
  BY <1>1
<1>3. Before(InHand, {m}) /\ m.from = c /\ Sent(m) /\ Before({m}, Members(socket[c]))
  BY <1>1, <1>2 DEF OrderInv, InHand, Before
<1>4. Sent(m)' /\ \A x \in Message : Sent(x) => Sent(x)'
  BY <1>1, <1>3 DEF Sent
<1>5. \A d \in Conns : Members(socket'[d]) = Members(socket[d]) /\ Increasing(socket'[d])
  BY <1>1, SocketsSame
<1>6. /\ Members(line'[c]) = {}
      /\ \A d \in Conns : d # c => Members(line'[d]) = Members(line[d])
  <2>1. line'[c] = <<>> /\ \A d \in Conns : d # c => line'[d] = line[d]
    BY <1>1
  <2> QED
    BY <2>1, MembersEmpty DEF Members
<1>7. ASSUME NEW d \in Conns
      PROVE  /\ Members(line'[d]) \subseteq Members(line[d])
             /\ Before({m}, Members(line'[d]) \cup Members(socket'[d]))
  <2>1. CASE d = c
    BY <1>3, <1>5, <1>6, <2>1
  <2>2. CASE d # c
    <3>1. \A x \in Members(line'[d]) \cup Members(socket'[d]) : x.from = d
      BY <1>5, <1>6, <2>2 DEF OrderInv
    <3> QED
      BY <1>3, <1>6, <2>2, <3>1 DEF Before
  <2> QED
    BY <2>1, <2>2
<1> QED
  BY <1>1, <1>2, <1>3, <1>4, <1>5, <1>7, OrderPut

\* from its socket to a blocked put,
LEMMA OrderBlock ==
    ASSUME TypeOK, WakeInv, OrderInv, NEW c \in Conns, PutLineBlocks(c)
    PROVE  OrderInv'
<1>1. /\ Reading(c) /\ Consume(c) /\ Line(c) \in Event /\ tcp[c] = "reading"
      /\ UNCHANGED <<queue, item, stored, sent>> /\ Block(c, Line(c))
  BY LineFacts DEF PutLineBlocks, Parsed, Reading, Consume, writeVars
<1>2. PICK m \in Event : m = Line(c)
  BY <1>1
<1>3. /\ m \in Members(socket[c]) /\ Before({m}, Members(socket'[c]))
      /\ \A d \in Conns : Members(socket'[d]) \subseteq Members(socket[d]) /\ Increasing(socket'[d])
  BY <1>1, <1>2, SocketsRead
<1>4. Members(line'[c]) = {m} /\ \A d \in Conns : d # c => Members(line'[d]) = Members(line[d])
  <2>1. Members(line'[c]) = {m} /\ \A d \in Conns : d # c => line'[d] = line[d]
    BY <1>1, <1>2, BlockMoves
  <2> QED
    BY <2>1 DEF Members
<1>5. /\ Members(stored)' = Members(stored) /\ Members(item)' = Members(item)
      /\ Members(queue)' = Members(queue) /\ Increasing(queue)'
  BY <1>1 DEF Members, Increasing, OrderInv
<1>6. \A x : Sent(x)' = Sent(x)
  BY <1>1 DEF Sent
<1>7. ASSUME NEW d \in Conns
      PROVE  /\ Before(InHand, Members(line'[d]) \cup Members(socket'[d]))
             /\ Before(Members(line'[d]), Members(socket'[d]))
             /\ \A x \in Members(line'[d]) \cup Members(socket'[d]) : x.from = d /\ Sent(x)
  <2>1. /\ Before(InHand, Members(line[d]) \cup Members(socket[d]))
        /\ Before(Members(line[d]), Members(socket[d]))
        /\ \A x \in Members(line[d]) \cup Members(socket[d]) : x.from = d /\ Sent(x)
    BY DEF OrderInv, InHand
  <2>2. CASE d = c
    <3>1. Members(line'[d]) \cup Members(socket'[d]) \subseteq Members(socket[d])
      BY <1>3, <1>4, <2>2
    <3> QED
      BY <1>3, <1>4, <2>1, <2>2, <3>1 DEF Before
  <2>3. CASE d # c
    BY <1>3, <1>4, <2>1, <2>3 DEF Before
  <2> QED
    BY <2>2, <2>3
<1>8. \A d \in Conns : Members(line[d])' = Members(line'[d]) /\ Members(socket[d])' = Members(socket'[d])
  BY DEF Members
<1>9. Members(stored)' \cup Members(item)' \cup Members(queue)' = InHand
  BY <1>5 DEF InHand
<1>10. \A d \in Conns : Increasing(socket[d])'
  BY <1>3 DEF Increasing
<1> QED
  BY <1>5, <1>6, <1>7, <1>8, <1>9, <1>10 DEF OrderInv, InHand

\* from the queue to the writer,
LEMMA OrderGet ==
    ASSUME TypeOK, FlowInv, OrderInv, WriterGets
    PROVE  OrderInv'
<1>1. UNCHANGED <<sent, socket, line, stored>>
  BY DEF WriterGets, Get, netVars
<1>2. /\ Members(item)' \subseteq Members(queue) /\ Members(queue)' \subseteq Members(queue)
      /\ Increasing(queue)' /\ Before(Members(item)', Members(queue)')
  BY GetMoves DEF OrderInv
<1>3. /\ Members(stored)' = Members(stored)
      /\ \A d \in Conns : Members(line'[d]) = Members(line[d])
  BY <1>1 DEF Members
<1>4. \A x : Sent(x)' = Sent(x)
  BY <1>1 DEF Sent
<1>5. Before(Members(stored)', Members(item)' \cup Members(queue)')
  BY <1>2, <1>3 DEF OrderInv, Before
<1>6. ASSUME NEW d \in Conns
      PROVE  /\ Before(Members(stored)' \cup Members(item)' \cup Members(queue)',
                       Members(line'[d]) \cup Members(socket'[d]))
             /\ Before(Members(line'[d]), Members(socket'[d]))
             /\ \A m \in Members(line'[d]) \cup Members(socket'[d]) : m.from = d /\ Sent(m)'
  BY <1>1, <1>2, <1>3, <1>4, SocketsSame DEF OrderInv, Before
<1>7. \A m \in Members(stored)' \cup Members(item)' \cup Members(queue)' : Sent(m)'
  BY <1>2, <1>3, <1>4 DEF OrderInv
<1>8. \A d \in Conns : Members(line[d])' = Members(line'[d]) /\ Members(socket[d])' = Members(socket'[d])
  BY DEF Members
<1>9. \A d \in Conns : Increasing(socket[d])'
  BY <1>1 DEF OrderInv, Increasing
<1> QED
  BY <1>2, <1>5, <1>6, <1>7, <1>8, <1>9 DEF OrderInv

\* and from the writer to the table.
LEMMA OrderCommit ==
    ASSUME TypeOK, FlowInv, OrderInv, WriteCommits \/ CommitUnacknowledged
    PROVE  OrderInv'
<1>1. /\ UNCHANGED <<sent, socket, line, queue>> /\ stored' = Append(stored, item[1])
      /\ item' = <<>> /\ item[1] \in Event /\ Members(item) = {item[1]}
  BY ItemFacts DEF WriteCommits, CommitUnacknowledged, Stores, Written, netVars, queueVars
<1>2. /\ Members(stored)' = Members(stored) \cup Members(item) /\ Members(queue)' = Members(queue)
      /\ Members(item)' = {}
  <2>1. Members(stored)' = Members(stored) \cup {item[1]}
    BY <1>1, StoreMoves
  <2>2. Members(item)' = {} /\ Members(queue)' = Members(queue)
    BY <1>1, MembersEmpty DEF Members
  <2> QED
    BY <1>1, <2>1, <2>2
<1>3. /\ Increasing(queue)' /\ \A d \in Conns : Members(line'[d]) = Members(line[d])
  BY <1>1 DEF Members, OrderInv, Increasing
<1>4. \A x : Sent(x)' = Sent(x)
  BY <1>1 DEF Sent
<1>5. /\ Before(Members(stored)', Members(item)' \cup Members(queue)')
      /\ Before(Members(item)', Members(queue)')
  BY <1>2 DEF OrderInv, Before
<1>6. ASSUME NEW d \in Conns
      PROVE  /\ Before(Members(stored)' \cup Members(item)' \cup Members(queue)',
                       Members(line'[d]) \cup Members(socket'[d]))
             /\ Before(Members(line'[d]), Members(socket'[d]))
             /\ \A m \in Members(line'[d]) \cup Members(socket'[d]) : m.from = d /\ Sent(m)'
  BY <1>1, <1>2, <1>3, <1>4, SocketsSame DEF OrderInv, Before
<1>7. \A m \in Members(stored)' \cup Members(item)' \cup Members(queue)' : Sent(m)'
  BY <1>2, <1>4 DEF OrderInv
<1>8. \A d \in Conns : Members(line[d])' = Members(line'[d]) /\ Members(socket[d])' = Members(socket'[d])
  BY DEF Members
<1>9. \A d \in Conns : Increasing(socket[d])'
  BY <1>1 DEF OrderInv, Increasing
<1> QED
  BY <1>3, <1>5, <1>6, <1>7, <1>8, <1>9 DEF OrderInv

\* Every step keeps the order of each sender.
LEMMA OrderStep == ASSUME TypeOK, WakeInv, FlowInv, OrderInv, [Next]_vars PROVE OrderInv'
<1>a. ASSUME UNCHANGED <<sent, line, queue, item, stored>>,
             \A d \in Conns : Members(socket'[d]) \subseteq Members(socket[d]) /\ Increasing(socket'[d])
      PROVE  OrderInv'
  <2>1. /\ Members(stored)' = Members(stored) /\ Members(item)' = Members(item)
        /\ Members(queue)' = Members(queue) /\ Increasing(queue)'
        /\ \A d \in Conns : Members(line'[d]) = Members(line[d])
    BY <1>a DEF Members, OrderInv, Increasing
  <2> QED
    BY <1>a, <2>1, OrderShrink
<1>b. ASSUME UNCHANGED <<sent, socket, line, queue, stored>>, item' = <<>>
      PROVE  OrderInv'
  <2>1. /\ Members(stored)' = Members(stored) /\ Members(item)' = {}
        /\ Members(queue)' = Members(queue) /\ Increasing(queue)'
        /\ \A d \in Conns : Members(line'[d]) = Members(line[d])
    BY <1>b, MembersEmpty DEF Members, OrderInv, Increasing
  <2> QED
    BY <1>b, <2>1, OrderShrink, SocketsSame
<1>1. CASE \E c \in Conns, k \in Kinds : PeerSends(c, k)
  BY <1>1, OrderOffer
<1>2. CASE \E c \in Conns : PeerCloses(c)
  BY <1>2, OrderSame DEF PeerCloses, queueVars, writeVars
<1>3. CASE \E k \in Kinds : DatagramReceived(k)
  BY <1>3, OrderDatagram
<1>4. ASSUME NEW c \in Conns, Handler(c) PROVE OrderInv'
  <2>1. CASE SkipEmptyLine(c)
    <3>1. /\ Reading(c) /\ Consume(c) /\ UNCHANGED <<sent, line, queue, item, stored>>
      BY <2>1 DEF SkipEmptyLine, Consume, queueVars, writeVars
    <3> QED
      BY <1>a, <3>1, SocketsRead
  <2>2. CASE OverlongLine(c)
    <3>1. /\ UNCHANGED <<sent, line, queue, item, stored>> /\ socket'[c] = <<>>
          /\ \A d \in Conns : d # c => socket'[d] = socket[d]
      BY <2>2 DEF OverlongLine, queueVars, writeVars, TypeOK
    <3>2. ASSUME NEW d \in Conns
          PROVE  Members(socket'[d]) \subseteq Members(socket[d]) /\ Increasing(socket'[d])
      <4>1. CASE d = c
        BY <3>1, <4>1, MembersEmpty DEF Increasing
      <4>2. CASE d # c
        BY <3>1, <4>2 DEF OrderInv, Increasing
      <4> QED
        BY <4>1, <4>2
    <3> QED
      BY <1>a, <3>1, <3>2
  <2>3. CASE PutLine(c)
    BY <2>3, OrderPutLine
  <2>4. CASE PutLineBlocks(c)
    BY <2>4, OrderBlock
  <2>5. CASE PutterResumes(c)
    BY <2>5, OrderResume
  <2>6. CASE PutterWaitsAgain(c)
    <3>1. /\ UNCHANGED <<sent, socket, queue, item, stored>> /\ Block(c, line[c][1])
          /\ tcp[c] = "woken" /\ line[c][1] \in Event /\ Members(line[c]) = {line[c][1]}
      BY <2>6, LineHeld DEF PutterWaitsAgain, netVars, writeVars
    <3>2. \A d \in Conns : Members(line'[d]) = Members(line[d])
      <4>1. /\ Members(line'[c]) = {line[c][1]} /\ \A d \in Conns : d # c => line'[d] = line[d]
        BY <3>1, BlockMoves
      <4> QED
        BY <3>1, <4>1 DEF Members
    <3>3. /\ Members(stored)' = Members(stored) /\ Members(item)' = Members(item)
          /\ Members(queue)' = Members(queue) /\ Increasing(queue)'
      BY <3>1 DEF Members, OrderInv, Increasing
    <3> QED
      BY <3>1, <3>2, <3>3, OrderShrink, SocketsSame
  <2>7. CASE ReadEof(c)
    BY <2>7, OrderSame DEF ReadEof, netVars, queueVars, writeVars
  <2> QED
    BY <1>4, <2>1, <2>2, <2>3, <2>4, <2>5, <2>6, <2>7 DEF Handler
<1>5. CASE WriterWaits
  BY <1>5, OrderSame DEF WriterWaits, netVars, queueVars, writeVars
<1>6. CASE WriterGets
  BY <1>6, OrderGet
<1>7. CASE WriteCommits \/ CommitUnacknowledged
  BY <1>7, OrderCommit
<1>8. CASE WriteFails \/ WriterDies
  <2>1. UNCHANGED <<sent, socket, line, queue, stored>> /\ item' = <<>>
    BY <1>8 DEF WriteFails, WriterDies, Written, netVars, queueVars
  <2> QED
    BY <1>b, <2>1
<1>9. CASE ConnectionLost
  BY <1>9, OrderSame DEF ConnectionLost, netVars, queueVars
<1>10. CASE UNCHANGED vars
  BY <1>10, OrderSame DEF vars, netVars, queueVars, writeVars
<1> QED
  BY <1>1, <1>2, <1>3, <1>4, <1>5, <1>6, <1>7, <1>8, <1>9, <1>10 DEF Next, Network, Writer, Faults
-----------------------------------------------------------------------------
(* The theorems                                                            *)

SInv == TypeOK /\ WakeInv /\ FlowInv /\ OrderInv

\* Nothing was sent yet.
LEMMA InitSInv == Init => SInv
<1> SUFFICES ASSUME Init PROVE SInv
  OBVIOUS
<1>1. /\ stored = <<>> /\ item = <<>> /\ queue = <<>> /\ putters = <<>> /\ taken = {} /\ dropped = {}
      /\ \A c \in Conns : line[c] = <<>> /\ socket[c] = <<>> /\ tcp[c] = "reading"
      /\ sent = [s \in Senders |-> 0] /\ writer = "ready"
  BY DEF Init
<1>2. /\ Members(stored) = {} /\ Members(item) = {} /\ Members(queue) = {} /\ Members(putters) = {}
      /\ \A c \in Conns : Members(line[c]) = {} /\ Members(socket[c]) = {}
  BY <1>1, MembersEmpty
<1>3. TypeOK
  BY DEF Init, TypeOK, AtMostOne
<1>4. WakeInv
  <2>1. Woken = {} /\ IsFiniteSet({}) /\ Cardinality({}) = 0
    BY <1>1, FS_EmptySet DEF Woken
  <2> QED
    <3>1. Len(queue) = 0 /\ Len(putters) = 0 /\ DOMAIN putters = {} /\ QueueSize \in Nat
      BY <1>1, SyslogAssumption
    <3>2. Bounded
      <4>1. Cardinality(Members(putters)) = Len(putters)
        BY <1>2, <2>1, <3>1, Zenon
      <4>2. Len(queue) <= QueueSize
        BY <3>1
      <4>3. \A c \in Conns : tcp[c] \in {"waiting", "woken"} <=> line[c] # <<>>
        BY <1>1
      <4> QED
        BY <4>1, <4>2, <4>3 DEF Bounded
    <3>3. NoLostWakeup /\ QueuedOnce
      BY <1>1, <1>2, <3>1 DEF NoLostWakeup, QueuedOnce
    <3> QED
      BY <1>2, <2>1, <3>2, <3>3 DEF WakeInv
<1>5. FlowInv
  BY <1>1 DEF FlowInv, WriterHolds, Backpressure, GivenUp
<1>6. OrderInv
  <2>1. Increasing(queue) /\ \A c \in Conns : Increasing(socket[c])
    BY <1>1 DEF Increasing
  <2> QED
    BY <1>2, <2>1 DEF OrderInv, Before
<1> QED
  BY <1>3, <1>4, <1>5, <1>6 DEF SInv

\* Every reachable state of the listener has its shape, its wakeups, its
\* flow and its order, however the event loop schedules the tasks.
THEOREM ListenerInvariant == Spec => []SInv
<1>1. SInv /\ [Next]_vars => SInv'
  BY TypeStep, WakeStep, FlowStep, OrderStep DEF SInv
<1> QED
  BY InitSInv, <1>1, PTL DEF Spec

\* Only lines with content become events, wherever the listener holds them.
THEOREM TypeCorrect == Spec => []TypeOK
  BY ListenerInvariant, PTL DEF SInv

\* The queue never outgrows --queue-size and a blocked put holds one event.
THEOREM QueueBounded == Spec => []Bounded
<1>1. SInv => Bounded
  BY DEF SInv, WakeInv
<1> QED
  BY <1>1, ListenerInvariant, PTL

\* A free slot of the queue always has a woken putter on its way while some
\* connection is blocked, and a writer that sleeps has nothing to write.
THEOREM WakeupsKept == Spec => []NoLostWakeup
<1>1. SInv => NoLostWakeup
  BY DEF SInv, WakeInv
<1> QED
  BY <1>1, ListenerInvariant, PTL

(***************************************************************************)
(* The safety half of EveryLineSettles.  While a line that was read is not *)
(* settled and the writer lives, somebody has a step that moves a line on: *)
(* the writer writes or gets, or, when there is nothing to get, a woken    *)
(* connection finds room.  The tasks never all wait for one another.       *)
(***************************************************************************)
WriterMoves == writer = "writing" \/ (writer \in {"ready", "woken"} /\ queue # <<>>)
PutterMoves == ~Full /\ Woken # {}
LinesMove == (\E m \in taken : ~Settled(m)) => writer = "dead" \/ WriterMoves \/ PutterMoves

THEOREM NeverStuck == Spec => []LinesMove
<1>1. SInv => LinesMove
  <2> SUFFICES ASSUME SInv, NEW m \in taken, ~Settled(m), writer # "dead", ~WriterMoves
               PROVE  PutterMoves
    BY DEF LinesMove
  <2>1. TypeOK /\ WakeInv /\ FlowInv
    BY DEF SInv
  <2>2. queue = <<>> /\ item = <<>>
    <3>1. writer \in {"ready", "idle", "woken"}
      BY <2>1 DEF WriterMoves, TypeOK
    <3> QED
      BY <2>1, <3>1 DEF WriterMoves, FlowInv, WriterHolds, WakeInv, NoLostWakeup
  <2>3. PICK c \in Conns : m \in Members(line[c])
    <3>1. m \in Kept /\ m \notin Members(stored) /\ m \notin GivenUp("write")
      BY <2>1 DEF FlowInv, Backpressure, Kept, Settled
    <3>2. Members(item) = {} /\ Members(queue) = {}
      BY <2>2, MembersEmpty
    <3> QED
      BY <3>1, <3>2, KeptParts
  <2>4. tcp[c] \in {"waiting", "woken"}
    BY <2>1, <2>3, LineHeld
  <2>5. Len(queue) = 0 /\ QueueSize \in Nat \ {0} /\ Cardinality(Woken) \in Nat
    BY <2>1, <2>2, WokenCount
  <2>6. ASSUME tcp[c] = "waiting" PROVE Woken # {}
    <3>1. putters # <<>>
      BY <2>1, <2>6, MembersEmpty DEF WakeInv, NoLostWakeup
    <3>2. QueueSize - Len(queue) <= Cardinality(Woken)
      BY <2>1, <3>1 DEF WakeInv, NoLostWakeup
    <3>3. Cardinality(Woken) # 0
      BY <2>5, <3>2
    <3> QED
      BY <3>3, FS_EmptySet
  <2>7. ASSUME tcp[c] = "woken" PROVE Woken # {}
    BY <2>7 DEF Woken
  <2> QED
    BY <2>4, <2>5, <2>6, <2>7 DEF PutterMoves, Full
<1> QED
  BY <1>1, ListenerInvariant, PTL

\* No line read from a connection is dropped for lack of room: it is held,
\* stored, or given up by a failing write; only datagrams find the queue full.
THEOREM LinesKept == Spec => []Backpressure
<1>1. SInv => Backpressure
  BY DEF SInv, FlowInv
<1> QED
  BY <1>1, ListenerInvariant, PTL

\* Each step is one of IngestLog, or one that IngestLog does not see.
LEMMA LogStep == ASSUME SInv, [Next]_vars PROVE [Log!Next]_(Log!vars)
<1> USE DEF SInv
<1>0. ASSUME UNCHANGED <<sent, stored>> PROVE UNCHANGED Log!vars
  BY <1>0 DEF Log!vars
<1>1. ASSUME NEW s \in Senders, sent' = [sent EXCEPT ![s] = @ + 1], UNCHANGED stored PROVE Log!Next
  BY <1>1 DEF Log!Next, Log!Offer
<1>2. CASE WriteCommits \/ CommitUnacknowledged
  <2>1. PICK m \in Event : m = item[1]
    BY <1>2, ItemFacts DEF WriteCommits, CommitUnacknowledged
  <2>2. /\ UNCHANGED sent /\ stored' = Append(stored, m) /\ m \in Members(item)
    BY <1>2, <2>1, ItemFacts DEF WriteCommits, CommitUnacknowledged, Stores, netVars
  <2>3. /\ m.from \in Senders /\ m.seq \in Nat \ {0} /\ m.kind \in Kinds
        /\ m = [from |-> m.from, seq |-> m.seq, kind |-> m.kind]
    BY DEF Event
  <2>4. m.seq <= sent[m.from] /\ sent[m.from] \in Nat
    BY <2>2, <2>3 DEF OrderInv, Sent, TypeOK
  <2>5. \A i \in DOMAIN stored : stored[i].from = m.from => stored[i].seq < m.seq
    BY <2>2 DEF OrderInv, Before, Members
  <2>6. Log!Store(m)
    BY <2>2, <2>4, <2>5 DEF Log!Store
  <2>7. m.seq \in 1..sent[m.from]
    BY <2>3, <2>4
  <2>8. Log!Store([from |-> m.from, seq |-> m.seq, kind |-> m.kind])
    BY <2>3, <2>6
  <2> QED
    BY <2>3, <2>7, <2>8 DEF Log!Next
<1>3. CASE \E c \in Conns, k \in Kinds : PeerSends(c, k)
  BY <1>1, <1>3 DEF PeerSends, Senders, writeVars
<1>4. CASE \E k \in Kinds : DatagramReceived(k)
  BY <1>1, <1>4 DEF DatagramReceived, Senders, writeVars
<1>5. CASE \E c \in Conns : PeerCloses(c) \/ Handler(c)
  BY <1>0, <1>5 DEF PeerCloses, Handler, SkipEmptyLine, OverlongLine, PutLine, PutLineBlocks,
                    PutterResumes, PutterWaitsAgain, ReadEof, Consume, netVars, writeVars
<1>6. CASE WriterWaits \/ WriterGets \/ WriteFails \/ ConnectionLost \/ WriterDies
  BY <1>0, <1>6 DEF WriterWaits, WriterGets, WriteFails, ConnectionLost, WriterDies, netVars,
                    writeVars
<1>7. CASE UNCHANGED vars
  BY <1>0, <1>7 DEF vars, netVars, writeVars
<1> QED
  BY <1>2, <1>3, <1>4, <1>5, <1>6, <1>7 DEF Next, Network, Writer, Faults

\* The events table is an IngestLog whatever the connections, the scheduling
\* and the failures: each message enters it at most once and every sender's
\* in the order they were sent.
THEOREM RefinesIngestLog == Spec => ImplementsIngestLog
<1>1. Init => Log!Init
  BY DEF Init, Log!Init
<1>2. SInv /\ [Next]_vars => [Log!Next]_(Log!vars)
  BY LogStep
<1> QED
  BY <1>1, <1>2, ListenerInvariant, PTL DEF Spec, ImplementsIngestLog, Log!Spec
=============================================================================
