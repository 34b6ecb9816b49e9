--------------------------- MODULE PartitionsProofs ---------------------------
(***************************************************************************)
(* Proofs about Partitions, for every window, retention and bound.  The    *)
(* inductive invariant PInv is the four invariants of the run together     *)
(* with Window, which says where the partitions of the last maintenance    *)
(* lie: TodayCovered needs it, because days pass while nobody calls.       *)
(***************************************************************************)
EXTENDS Partitions, TLAPS

\* What the last committed maintenance left in place.
Window == (lastOk - DaysBack)..(lastOk + DaysAhead) \subseteq parts

PInv == TypeOK /\ RowsRouted /\ TablesProtected /\ Window

(***************************************************************************)
(* The seeded database satisfies the invariant.                            *)
(***************************************************************************)
LEMMA PInvInit == Init => PInv
<1> SUFFICES ASSUME Init PROVE PInv
  OBVIOUS
<1> USE PartitionAssumption
<1>1. today = 0 /\ lastOk = 0 /\ rows = {} /\ failed = FALSE
  BY DEF Init
<1>2. parts = (0 - DaysBack)..DaysAhead
  BY <1>1 DEF Init, Created
<1>3. policies = parts \cup {Default}
  BY DEF Init
<1>4. TypeOK
  <2>1. parts \subseteq (0 - DaysBack)..(lastOk + DaysAhead)
    BY <1>1, <1>2
  <2>2. rows \subseteq [day : Int, table : Int \cup {Default}] /\ failed \in BOOLEAN
    BY <1>1
  <2>3. today \in Nat /\ lastOk \in 0..today /\ policies \subseteq parts \cup {Default}
    BY <1>1, <1>3
  <2>4. QED
    BY <2>1, <2>2, <2>3 DEF TypeOK
<1>5. RowsRouted /\ TablesProtected
  BY <1>1, <1>3 DEF RowsRouted, TablesProtected
<1>6. Window
  BY <1>1, <1>2 DEF Window
<1>7. QED
  BY <1>4, <1>5, <1>6 DEF PInv

(***************************************************************************)
(* A row is stored where its day belongs (tuple routing).                  *)
(***************************************************************************)
LEMMA PInvInsert ==
  ASSUME PInv, NEW d \in Int, Insert(d)
  PROVE  PInv'
<1> DEFINE new == [day |-> d, table |-> IF d \in parts THEN d ELSE Default]
<1>1. rows' = rows \cup {new} /\ UNCHANGED <<today, parts, policies, lastOk, failed>>
  BY DEF Insert
<1>2. new \in [day : Int, table : Int \cup {Default}]
  OBVIOUS
<1>3. TypeOK'
  BY <1>1, <1>2 DEF PInv, TypeOK
<1>4. RowsRouted'
  BY <1>1, PartitionAssumption DEF PInv, RowsRouted
<1>5. QED
  BY <1>1, <1>3, <1>4 DEF PInv, TablesProtected, Window

(***************************************************************************)
(* Maintenance that commits re-establishes the window, and creates a       *)
(* partition only for a day that events_default has no row of.             *)
(***************************************************************************)
LEMMA PInvMaintenance ==
  ASSUME PInv, MakePartitions
  PROVE  PInv'
<1> USE PartitionAssumption
<1>1. today \in Nat /\ lastOk \in 0..today
  BY DEF PInv, TypeOK
<1>2. \A d \in Created : d \in Int /\ d >= today - DaysBack /\ d <= today + DaysAhead
  BY <1>1 DEF Created
<1>3. Created \cap Expired = {}
  BY <1>1, <1>2 DEF Expired
<1>4. /\ parts' = (parts \cup Created) \ Expired /\ lastOk' = today /\ today' = today
      /\ policies' = (policies \cup Created) \ Expired
  BY DEF MakePartitions, WithPolicy
<1>5. TypeOK'
  <2>1. parts' \subseteq (0 - DaysBack)..(today + DaysAhead)
    <3> SUFFICES ASSUME NEW d \in parts'
                 PROVE  d \in (0 - DaysBack)..(today + DaysAhead)
      OBVIOUS
    <3>1. CASE d \in Created
      BY <1>1, <1>2, <3>1
    <3>2. CASE d \in parts
      BY <1>1, <3>2 DEF PInv, TypeOK
    <3>3. QED
      BY <1>4, <3>1, <3>2
  <2>2. policies' \subseteq parts' \cup {Default}
    BY <1>4 DEF PInv, TypeOK
  <2>3. rows' \subseteq rows /\ failed' \in BOOLEAN
    BY DEF MakePartitions
  <2>4. QED
    BY <1>1, <1>4, <2>1, <2>2, <2>3 DEF PInv, TypeOK
<1>6. RowsRouted'
  <2> SUFFICES ASSUME NEW r \in rows'
               PROVE  /\ r.table # Default => r.table = r.day /\ r.day \in parts'
                      /\ r.table = Default => r.day \notin parts'
    BY DEF RowsRouted
  <2>1. r \in rows /\ r.table \notin Expired
    BY DEF MakePartitions
  <2>2. CASE r.table # Default
    BY <1>4, <2>1, <2>2 DEF PInv, RowsRouted
  <2>3. CASE r.table = Default
    BY <1>4, <2>1, <2>3 DEF PInv, RowsRouted, MakePartitions, Blocked, Missing
  <2>4. QED
    BY <2>2, <2>3
<1>7. TablesProtected'
  <2>1. Created \subseteq Int /\ parts \subseteq Int
    BY <1>1 DEF Created, PInv, TypeOK
  <2>2. Default \notin Expired
    BY <2>1 DEF Expired
  <2>3. QED
    BY <2>2, <1>4 DEF PInv, TablesProtected
<1>8. Window'
  BY <1>1, <1>3, <1>4 DEF Window, Created
<1>9. QED
  BY <1>5, <1>6, <1>7, <1>8 DEF PInv

(***************************************************************************)
(* Every step keeps the invariant.                                         *)
(***************************************************************************)
LEMMA PInvStep == PInv /\ [Next]_vars => PInv'
<1> SUFFICES ASSUME PInv, [Next]_vars PROVE PInv'
  OBVIOUS
<1>1. CASE NewDay
  BY <1>1, PartitionAssumption
     DEF NewDay, PInv, TypeOK, RowsRouted, TablesProtected, Window
<1>2. ASSUME NEW d \in (today - MaxSkew)..(today + MaxSkew), Insert(d)
      PROVE  PInv'
  <2>1. d \in Int
    BY PartitionAssumption DEF PInv, TypeOK
  <2>2. QED
    BY <1>2, <2>1, PInvInsert
<1>3. CASE MakePartitions
  BY <1>3, PInvMaintenance
<1>4. CASE MakePartitionsFails
  BY <1>4
     DEF MakePartitionsFails, PInv, TypeOK, RowsRouted, TablesProtected, Window
<1>5. CASE UNCHANGED vars
  BY <1>5 DEF vars, PInv, TypeOK, RowsRouted, TablesProtected, Window
<1>6. QED
  BY <1>1, <1>2, <1>3, <1>4, <1>5 DEF Next

(***************************************************************************)
(* The window of the last maintenance still reaches today while no more    *)
(* than DaysAhead days have passed since.                                  *)
(***************************************************************************)
LEMMA WindowReachesToday == PInv => TodayCovered
<1> SUFFICES ASSUME PInv, today - lastOk <= DaysAhead,
                    NEW d \in (today - DaysBack)..today
             PROVE  d \in parts
  BY DEF TodayCovered
<1>1. today \in Nat /\ lastOk \in 0..today
  BY DEF PInv, TypeOK
<1>2. d \in (lastOk - DaysBack)..(lastOk + DaysAhead)
  BY <1>1, PartitionAssumption
<1>3. QED
  BY <1>2 DEF PInv, Window

(***************************************************************************)
(* A step that removes a row, or that is a maintenance, removed only days  *)
(* past retention.                                                         *)
(***************************************************************************)
LEMMA StepRetains ==
  ASSUME PInv, Next
  PROVE  /\ \A r \in rows : r \notin rows' => r.day < today - RetainDays
         /\ lastOk' # lastOk => \A d \in parts' : d >= today - RetainDays
<1>1. CASE MakePartitions
  <2>1. ASSUME NEW r \in rows, r \notin rows'
        PROVE  r.day < today - RetainDays
    <3>1. r.table \in Expired
      BY <1>1, <2>1 DEF MakePartitions
    <3>2. Created \subseteq Int /\ parts \subseteq Int
      BY PartitionAssumption DEF Created, PInv, TypeOK
    <3>3. r.table # Default
      BY <3>1, <3>2, PartitionAssumption DEF Expired
    <3>4. r.table = r.day
      BY <2>1, <3>3 DEF PInv, RowsRouted
    <3>5. r.table < today - RetainDays
      BY <3>1 DEF Expired
    <3>6. QED
      BY <3>4, <3>5
  <2>2. ASSUME NEW d \in parts'
        PROVE  d >= today - RetainDays
    BY <1>1, <2>2, PartitionAssumption
       DEF MakePartitions, Expired, Created, PInv, TypeOK
  <2>3. QED
    BY <2>1, <2>2
<1>2. CASE ~MakePartitions
  BY <1>2 DEF Next, NewDay, Insert, MakePartitionsFails
<1>3. QED
  BY <1>1, <1>2

(***************************************************************************)
(* Types, and no partition outside the windows that maintenance asked for. *)
(***************************************************************************)
THEOREM PartitionTypes == Spec => []TypeOK
<1>1. PInv => TypeOK
  BY DEF PInv
<1>2. QED
  BY PInvInit, PInvStep, <1>1, PTL DEF Spec

(***************************************************************************)
(* No maintenance makes a row unreachable: each row stays in the table that*)
(* its day routes to.                                                      *)
(***************************************************************************)
THEOREM Routing == Spec => []RowsRouted
<1>1. PInv => RowsRouted
  BY DEF PInv
<1>2. QED
  BY PInvInit, PInvStep, <1>1, PTL DEF Spec

(***************************************************************************)
(* Every table a row can be in carries its own tenant policy.              *)
(***************************************************************************)
THEOREM Protection == Spec => []TablesProtected
<1>1. PInv => TablesProtected
  BY DEF PInv
<1>2. QED
  BY PInvInit, PInvStep, <1>1, PTL DEF Spec

(***************************************************************************)
(* A maintenance every DaysAhead days is often enough: today's rows never  *)
(* go to events_default while that is kept.                                *)
(***************************************************************************)
THEOREM Coverage == Spec => []TodayCovered
  BY PInvInit, PInvStep, WindowReachesToday, PTL DEF Spec

(***************************************************************************)
(* Retention removes exactly what is older than RetainDays.                *)
(***************************************************************************)
THEOREM Retention == Spec => RetentionExact
<1>1. PInv /\ [Next]_vars =>
        [/\ \A r \in rows : r \notin rows' => r.day < today - RetainDays
         /\ lastOk' # lastOk => \A d \in parts' : d >= today - RetainDays]_vars
  BY StepRetains
<1>2. QED
  BY PInvInit, PInvStep, <1>1, PTL DEF Spec, RetentionExact
=============================================================================
