---------------------------- MODULE IngestionProofs ----------------------------
(***************************************************************************)
(* Proofs about Ingestion, for every calendar, window, file and payload.   *)
(* Its steps change the table only as Insert, NewDay and the maintenance of*)
(* Partitions do, whatever day an event names: so PInv of PartitionsProofs *)
(* is an invariant of the composed system too.  The loader has an invariant*)
(* of its own, which says how its list relates to its file.                *)
(***************************************************************************)
EXTENDS Ingestion, PartitionsProofs, FiniteSetTheorems

\* The command line and the file are of the kinds Loads has.
LoadTyped ==
    /\ DOMAIN load.file \subseteq Nat /\ load.tenant \in Tenants \cup {BadTenant, Nothing}
    /\ \A i \in DOMAIN load.file : /\ load.file[i].tenant \in Tenants \cup {BadTenant, Nothing}
                                   /\ load.file[i].payload.time \in Int

Hashable == \A j \in Kept(load) : SourceOf(load.file[j], load) # Unhashable

\* The list holds kept records, each under its tenant, at its own time
\* until it is rebased.
EventsInv ==
    /\ DOMAIN events \subseteq Kept(load)
    /\ ~Idle => DOMAIN events = Kept(load) /\ Hashable
    /\ phase = "read" => load.rebase
    /\ \A i \in DOMAIN events :
           /\ events[i].time \in Int
           /\ events[i].tenant = TenantOf(load.file[i], load)
           /\ (phase = "read" \/ ~load.rebase) /\ Recognisable(i)
                 => events[i].time = load.file[i].payload.time

WrittenInv ==
    \A w \in written :
        /\ w.index \in Kept(load) /\ Hashable
        /\ w.tenant = TenantOf(load.file[w.index], load) /\ w.tenant \in Tenants
        /\ ~load.rebase /\ Recognisable(w.index) => w.time = load.file[w.index].payload.time
        /\ \A j \in Kept(load) : j < w.index => \E v \in written : v.index = j

TableInv == PInv /\ tick \in Int

\* Once a load of recognised records is rebased, its events stand as far
\* from the shift as their records do from the earliest of them.
ShiftInv ==
    phase = "writing" /\ load.rebase /\ (\A j \in Kept(load) : Recognisable(j)) =>
        \A i \in DOMAIN events :
            /\ shiftedAt \in Int /\ EarliestKept \in Int
            /\ EarliestKept <= load.file[i].payload.time
            /\ events[i].time = shiftedAt + load.file[i].payload.time - EarliestKept

LoaderInv == LoadTyped /\ EventsInv /\ WrittenInv

IngestInv == TableInv /\ LoaderInv

ShiftedInv == IngestInv /\ ShiftInv

-----------------------------------------------------------------------------
(* The calendar of EventTimes: division by the lengths of a year and of a  *)
(* cycle of years, what day a year begins on, and the year of a line.      *)

\* What multiplying by a positive number keeps of the order.
LEMMA Multiples ==
  ASSUME NEW b \in Nat \ {0}, NEW p \in Int, NEW q \in Int
  PROVE  /\ p * b \in Int /\ (p + 1) * b = p * b + b
         /\ p <= q => p * b <= q * b
         /\ p < q => p * b + b <= q * b
<1>1. p * b \in Int /\ q * b \in Int /\ (p + 1) * b = p * b + b
  OBVIOUS
<1>2. ASSUME NEW d \in Nat PROVE (p + d) * b = p * b + d * b /\ d * b \in Nat
  OBVIOUS
<1>3. ASSUME p <= q PROVE p * b <= q * b
  <2>1. q - p \in Nat /\ p + (q - p) = q
    BY <1>3
  <2>2. q * b = p * b + (q - p) * b /\ (q - p) * b \in Nat
    BY <2>1, <1>2
  <2>3. QED
    BY <2>2, <1>1
<1>4. ASSUME p < q PROVE p * b + b <= q * b
  <2>1. q - (p + 1) \in Nat /\ (p + 1) + (q - (p + 1)) = q
    BY <1>4
  <2> DEFINE d == q - (p + 1)
  <2>2. q * b = (p + 1) * b + d * b /\ d * b \in Nat
    BY <2>1
  <2>3. QED
    BY <2>2, <1>1
<1>5. QED
  BY <1>1, <1>3, <1>4

\* Quotient and remainder, and that no other pair is theirs.
LEMMA Division ==
  ASSUME NEW b \in Nat \ {0}, NEW a \in Int
  PROVE  /\ a \div b \in Int /\ a % b \in 0..(b - 1)
         /\ a = (a \div b) * b + (a % b)
  OBVIOUS

\* Quotient and remainder are determined by what they add up to.
LEMMA Quotient ==
  ASSUME NEW b \in Nat \ {0}, NEW q \in Int, NEW r \in 0..(b - 1), NEW a \in Int, a = q * b + r
  PROVE  a \div b = q /\ a % b = r
<1> DEFINE p == a \div b
           s == a % b
<1>1. p \in Int /\ s \in 0..(b - 1) /\ a = p * b + s
  BY Division
<1> HIDE DEF p, s
<1>2. p * b \in Int /\ q * b \in Int
  BY <1>1, Multiples
<1>3. ~(p < q)
  <2> SUFFICES ASSUME p < q PROVE FALSE
    OBVIOUS
  <2>1. p * b + b <= q * b
    BY <1>1, Multiples
  <2>2. QED
    BY <1>1, <1>2, <2>1
<1>4. ~(q < p)
  <2> SUFFICES ASSUME q < p PROVE FALSE
    OBVIOUS
  <2>1. q * b + b <= p * b
    BY <1>1, Multiples
  <2>2. QED
    BY <1>1, <1>2, <2>1
<1>5. p = q
  BY <1>1, <1>3, <1>4
<1>6. s = r
  BY <1>1, <1>2, <1>5
<1>7. QED
  BY <1>5, <1>6 DEF p, s

\* A later instant has a later quotient.
LEMMA QuotientGrows ==
  ASSUME NEW b \in Nat \ {0}, NEW a \in Int, NEW c \in Int, a <= c
  PROVE  a \div b <= c \div b
<1> DEFINE p == a \div b
           q == c \div b
           r == a % b
           s == c % b
<1>1. /\ p \in Int /\ r \in 0..(b - 1) /\ a = p * b + r
      /\ q \in Int /\ s \in 0..(b - 1) /\ c = q * b + s
  BY Division
<1> HIDE DEF p, q, r, s
<1>2. ~(q < p)
  <2> SUFFICES ASSUME q < p PROVE FALSE
    OBVIOUS
  <2>1. q * b + b <= p * b /\ p * b \in Int /\ q * b \in Int
    BY <1>1, Multiples
  <2>2. QED
    BY <1>1, <2>1
<1>3. p <= q
  BY <1>1, <1>2
<1>4. QED
  BY <1>3 DEF p, q

(***************************************************************************)
(* The calendar: within a cycle the leap year comes first, so year k of    *)
(* cycle c begins k years and, but for the first, one day after the cycle. *)
(***************************************************************************)
Cycle == LeapEvery * YearDays + 1

\* A leap cycle has days.
LEMMA CycleType == Cycle \in Nat \ {0}
<1>1. LeapEvery * YearDays \in Nat
  BY CalendarAssumption
<1>2. QED
  BY <1>1 DEF Cycle

\* The first year of a cycle is the leap year.
LEMMA NewYearInCycle ==
  ASSUME NEW c \in Int, NEW k \in 0..LeapEvery
  PROVE  NewYear(c * LeapEvery + k) = c * Cycle + k * YearDays + (IF k = 0 THEN 0 ELSE 1)
<1> USE CalendarAssumption
<1> DEFINE y == c * LeapEvery + k
<1>1. /\ c * LeapEvery \in Int /\ k \in Int /\ y \in Int /\ c * Cycle \in Int
      /\ (c + 1) * LeapEvery = c * LeapEvery + LeapEvery
  BY CycleType
<1>2. (y + LeapEvery - 1) \div LeapEvery = c + (IF k = 0 THEN 0 ELSE 1)
  <2>1. CASE k = 0
    <3>1. y + LeapEvery - 1 = c * LeapEvery + (LeapEvery - 1)
      BY <1>1, <2>1
    <3>2. LeapEvery - 1 \in 0..(LeapEvery - 1) /\ y + LeapEvery - 1 \in Int
      BY <1>1
    <3> HIDE DEF y
    <3>3. QED
      BY <2>1, <3>1, <3>2, Quotient
  <2>2. CASE k # 0
    <3> DEFINE a == y + LeapEvery - 1
               q == c + 1
    <3>1. a = q * LeapEvery + (k - 1)
      BY <1>1, <2>2
    <3>2. k - 1 \in 0..(LeapEvery - 1) /\ a \in Int /\ q \in Int
      BY <1>1, <2>2
    <3> HIDE DEF a, q
    <3>3. a \div LeapEvery = q
      BY <3>1, <3>2, Quotient
    <3> USE DEF a, q
    <3>4. QED
      BY <2>2, <3>3
  <2>3. QED
    BY <2>1, <2>2
<1>3. y * YearDays = c * (LeapEvery * YearDays) + k * YearDays
  OBVIOUS
<1>4. c * Cycle = c * (LeapEvery * YearDays) + c
  BY DEF Cycle
<1>5. NewYear(y) = y * YearDays + (c + (IF k = 0 THEN 0 ELSE 1))
  BY <1>2 DEF NewYear
<1> DEFINE m == c * (LeapEvery * YearDays)
           n == k * YearDays
<1>m. m \in Int /\ n \in Int
  BY <1>1
<1> HIDE DEF y, m, n
<1>n. y * YearDays = m + n /\ c * Cycle = m + c
  BY <1>3, <1>4 DEF m, n
<1> USE DEF n
<1>6. NewYear(y) = c * Cycle + k * YearDays + (IF k = 0 THEN 0 ELSE 1)
  BY <1>m, <1>n, <1>5
<1>7. QED
  BY <1>6 DEF y

\* A year is YearDays long, and a day more when it is a leap year.
LEMMA YearLength ==
  ASSUME NEW y \in Int
  PROVE  /\ NewYear(y) \in Int
         /\ NewYear(y + 1) = NewYear(y) + YearDays + (IF IsLeap(y) THEN 1 ELSE 0)
<1> USE CalendarAssumption
<1> DEFINE c == y \div LeapEvery
           k == y % LeapEvery
<1>1. c \in Int /\ k \in 0..(LeapEvery - 1) /\ y = c * LeapEvery + k
  BY Division
<1>2. k \in 0..LeapEvery /\ k + 1 \in 0..LeapEvery /\ k + 1 # 0
  BY <1>1
<1>3. IsLeap(y) <=> k = 0
  BY DEF IsLeap
<1> HIDE DEF c, k
<1>4. c * LeapEvery \in Int /\ c * Cycle \in Int /\ k * YearDays \in Int
      /\ (k + 1) * YearDays = k * YearDays + YearDays
  BY <1>1, CycleType
<1>5. y + 1 = c * LeapEvery + (k + 1)
  BY <1>1, <1>4
<1>6. NewYear(y) = c * Cycle + k * YearDays + (IF k = 0 THEN 0 ELSE 1)
  BY <1>1, <1>2, NewYearInCycle
<1>7. NewYear(y + 1) = c * Cycle + (k + 1) * YearDays + 1
  BY <1>1, <1>2, <1>5, NewYearInCycle
<1>8. QED
  BY <1>1, <1>3, <1>4, <1>6, <1>7

\* Years begin in their order.
LEMMA NewYearGrows ==
  ASSUME NEW y \in Int, NEW z \in Int, y <= z
  PROVE  NewYear(y) <= NewYear(z)
<1> USE CalendarAssumption
<1>1. y * YearDays <= z * YearDays /\ y * YearDays \in Int /\ z * YearDays \in Int
  BY Multiples
<1> DEFINE a == y + LeapEvery - 1
           b == z + LeapEvery - 1
<1>2. a \in Int /\ b \in Int /\ a <= b
  OBVIOUS
<1>3. NewYear(y) = y * YearDays + a \div LeapEvery /\ NewYear(z) = z * YearDays + b \div LeapEvery
  BY DEF NewYear
<1> HIDE DEF a, b
<1>4. a \div LeapEvery <= b \div LeapEvery /\ a \div LeapEvery \in Int /\ b \div LeapEvery \in Int
  BY <1>2, QuotientGrows, Division
<1>5. QED
  BY <1>1, <1>3, <1>4

\* A day lies in the year YearOf gives it.
LEMMA YearBounds ==
  ASSUME NEW d \in Int
  PROVE  /\ YearOf(d) \in Int
         /\ NewYear(YearOf(d)) <= d /\ d < NewYear(YearOf(d) + 1)
<1> USE CalendarAssumption
<1> DEFINE c == d \div Cycle
           r == d % Cycle
           k == IF r <= YearDays THEN 0 ELSE (r - 1) \div YearDays
<1>1. c \in Int /\ r \in 0..(Cycle - 1) /\ d = c * Cycle + r
  BY CycleType, Division
<1>2. YearOf(d) = c * LeapEvery + k
  BY DEF YearOf, Cycle
<1> HIDE DEF c, r
<1>3. /\ k \in 0..(LeapEvery - 1)
      /\ k * YearDays + (IF k = 0 THEN 0 ELSE 1) <= r
      /\ r < (k + 1) * YearDays + 1
  <2>1. CASE r <= YearDays
    <3>1. k = 0 /\ k * YearDays = 0 /\ (k + 1) * YearDays = YearDays
      BY <2>1
    <3>2. QED
      BY <1>1, <2>1, <3>1, CycleType
  <2>2. CASE ~(r <= YearDays)
    <3> DEFINE s == (r - 1) % YearDays
    <3>1. r - 1 \in Int /\ k = (r - 1) \div YearDays
      BY <1>1, <2>2, CycleType
    <3>2. k \in Int /\ s \in 0..(YearDays - 1) /\ r - 1 = k * YearDays + s
      BY <3>1, Division
    <3> HIDE DEF k, s
    <3>3. /\ k * YearDays \in Int /\ (k + 1) * YearDays = k * YearDays + YearDays
          /\ LeapEvery * YearDays \in Int
      BY <3>2
    <3>4. r - 1 < LeapEvery * YearDays
      BY <1>1, <3>3 DEF Cycle
    <3>5. k < LeapEvery
      <4> SUFFICES ASSUME LeapEvery <= k PROVE FALSE
        BY <3>2
      <4>1. LeapEvery * YearDays <= k * YearDays
        BY <3>2, Multiples
      <4>2. QED
        BY <1>1, <3>2, <3>3, <3>4, <4>1, CycleType
    <3>6. 0 < k
      <4> SUFFICES ASSUME k <= 0 PROVE FALSE
        BY <3>2
      <4>1. k * YearDays <= 0 * YearDays /\ 0 * YearDays = 0
        BY <3>2, Multiples
      <4>2. QED
        BY <1>1, <2>2, <3>2, <3>3, <4>1, CycleType
    <3>7. QED
      BY <1>1, <3>2, <3>3, <3>5, <3>6, CycleType
  <2>3. QED
    BY <2>1, <2>2
<1> HIDE DEF k
<1>4. /\ c * LeapEvery \in Int /\ c * Cycle \in Int
      /\ k * YearDays \in Int /\ (k + 1) * YearDays \in Int
  BY <1>1, <1>3, CycleType
<1>5. /\ NewYear(c * LeapEvery + k) = c * Cycle + k * YearDays + (IF k = 0 THEN 0 ELSE 1)
      /\ NewYear(c * LeapEvery + (k + 1)) = c * Cycle + (k + 1) * YearDays + 1
  <2>1. k \in 0..LeapEvery /\ k + 1 \in 0..LeapEvery /\ k + 1 # 0
    BY <1>3
  <2>2. NewYear(c * LeapEvery + k) = c * Cycle + k * YearDays + (IF k = 0 THEN 0 ELSE 1)
    BY <1>1, <2>1, NewYearInCycle
  <2> DEFINE n == k + 1
  <2>3. n \in 0..LeapEvery /\ n # 0
    BY <2>1
  <2> HIDE DEF n
  <2>4. NewYear(c * LeapEvery + n) = c * Cycle + n * YearDays + 1
    BY <1>1, <2>3, NewYearInCycle
  <2>5. QED
    BY <2>2, <2>4 DEF n
<1>6. (c * LeapEvery + k) + 1 = c * LeapEvery + (k + 1)
  BY <1>3, <1>4
<1>7. QED
  BY <1>1, <1>2, <1>3, <1>4, <1>5, <1>6, CycleType

\* A day and a tick in it make an instant.
LEMMA DayAndTick ==
  ASSUME NEW t \in Int
  PROVE  Day(t) \in Int /\ t % DayTicks \in 0..(DayTicks - 1) /\ t = Day(t) * DayTicks + (t % DayTicks)
  BY CalendarAssumption, Division DEF Day

\* A stamp that is read in its own year gives the instant back.
LEMMA ReadInOwnYear ==
  ASSUME NEW t \in Int
  PROVE  InYear(Stamp(t), YearOf(Day(t))) = t
<1> USE CalendarAssumption
<1> DEFINE y == YearOf(Day(t))
           n == Day(t) - NewYear(y)
           tk == t % DayTicks
<1>1. Day(t) \in Int /\ tk \in 0..(DayTicks - 1) /\ t = Day(t) * DayTicks + tk
  BY DayAndTick
<1>2. y \in Int /\ NewYear(y) \in Int /\ n \in Int /\ NewYear(y) + n = Day(t)
  BY <1>1, YearBounds, YearLength
<1>3. Stamp(t) = [date |-> IF ~IsLeap(y) /\ n >= LeapDay THEN n + 1 ELSE n, tick |-> tk]
  BY DEF Stamp
<1> HIDE DEF y, n, tk
<1>4. CASE ~IsLeap(y) /\ n >= LeapDay
  <2>1. Stamp(t).date = n + 1 /\ Stamp(t).tick = tk
    BY <1>3, <1>4
  <2>2. n + 1 # LeapDay /\ n + 1 > LeapDay /\ (n + 1) - 1 = n
    BY <1>2, <1>4
  <2>3. InYear(Stamp(t), y) = (NewYear(y) + n) * DayTicks + tk
    BY <1>4, <2>1, <2>2 DEF InYear
  <2>4. QED
    BY <1>1, <1>2, <2>3 DEF y
<1>5. CASE ~(~IsLeap(y) /\ n >= LeapDay)
  <2>1. Stamp(t).date = n /\ Stamp(t).tick = tk
    BY <1>3, <1>5
  <2>2. IsLeap(y) \/ (n # LeapDay /\ ~(n > LeapDay))
    BY <1>2, <1>5
  <2>3. InYear(Stamp(t), y) = (NewYear(y) + n) * DayTicks + tk
    BY <2>1, <2>2 DEF InYear
  <2>4. QED
    BY <1>1, <1>2, <2>3 DEF y
<1>6. QED
  BY <1>4, <1>5 DEF y

(***************************************************************************)
(* Read in the year after, it is at least YearDays later, or is a Feb 29   *)
(* which that year lacks.                                                  *)
(***************************************************************************)
LEMMA ReadAYearLater ==
  ASSUME NEW t \in Int, NEW y \in Int, y = YearOf(Day(t)) + 1, InYear(Stamp(t), y) # NoTime
  PROVE  InYear(Stamp(t), y) \in Int /\ InYear(Stamp(t), y) >= t + YearDays * DayTicks
<1> USE CalendarAssumption
<1> DEFINE x == YearOf(Day(t))
           n == Day(t) - NewYear(x)
           tk == t % DayTicks
           s == Stamp(t)
           m == IF ~IsLeap(y) /\ s.date > LeapDay THEN s.date - 1 ELSE s.date
           e == NewYear(y) + m
<1>1. Day(t) \in Int /\ tk \in 0..(DayTicks - 1) /\ t = Day(t) * DayTicks + tk
  BY DayAndTick
<1>2. x \in Int /\ NewYear(x) \in Int /\ n \in Int /\ NewYear(x) + n = Day(t) /\ y = x + 1
  BY <1>1, YearBounds, YearLength
<1>3. s.date = (IF ~IsLeap(x) /\ n >= LeapDay THEN n + 1 ELSE n) /\ s.tick = tk
  BY DEF Stamp
<1>4. ~(s.date = LeapDay /\ ~IsLeap(y))
  BY DEF InYear
<1>5. InYear(s, y) = e * DayTicks + tk
  BY <1>3, <1>4 DEF InYear
<1>6. NewYear(y) = NewYear(x) + YearDays + (IF IsLeap(x) THEN 1 ELSE 0) /\ NewYear(y) \in Int
  BY <1>2, YearLength
<1>7. s.date \in Int /\ m \in Int /\ e \in Int
  BY <1>2, <1>3, <1>6
<1> HIDE DEF x, n, tk, s
<1>8. m >= n - (IF IsLeap(x) THEN 1 ELSE 0)
  BY <1>2, <1>3, <1>4, <1>7
<1>9. e >= Day(t) + YearDays
  BY <1>2, <1>6, <1>7, <1>8
<1> HIDE DEF e, m
<1>10. (Day(t) + YearDays) * DayTicks <= e * DayTicks
  BY <1>1, <1>7, <1>9, Multiples
<1>11. (Day(t) + YearDays) * DayTicks = Day(t) * DayTicks + YearDays * DayTicks
  BY <1>1
<1>12. e * DayTicks \in Int /\ Day(t) * DayTicks \in Int /\ YearDays * DayTicks \in Int
  BY <1>1, <1>7
<1>13. QED
  BY <1>1, <1>5, <1>10, <1>11, <1>12 DEF s

\* Two instants less than YearDays apart are in one year or in two that meet.
LEMMA NextYear ==
  ASSUME NEW t \in Int, NEW n \in Int, t > n - YearDays * DayTicks,
         YearOf(Day(t)) < YearOf(Day(n))
  PROVE  YearOf(Day(n)) = YearOf(Day(t)) + 1
<1> USE CalendarAssumption
<1> DEFINE x == YearOf(Day(t))
           y == YearOf(Day(n))
<1>1. /\ Day(t) \in Int /\ t % DayTicks \in 0..(DayTicks - 1) /\ t = Day(t) * DayTicks + (t % DayTicks)
      /\ Day(n) \in Int /\ n % DayTicks \in 0..(DayTicks - 1) /\ n = Day(n) * DayTicks + (n % DayTicks)
  BY DayAndTick
<1>2. x \in Int /\ y \in Int /\ Day(t) < NewYear(x + 1) /\ NewYear(y) <= Day(n) /\ x < y
  BY <1>1, YearBounds
<1>3. ASSUME x + 1 < y PROVE FALSE
  <2>1. NewYear(x + 1) <= NewYear(y - 1) /\ NewYear(x + 1) \in Int
    BY <1>2, <1>3, NewYearGrows, YearLength
  <2>2. NewYear(y) >= NewYear(y - 1) + YearDays /\ NewYear(y - 1) \in Int /\ NewYear(y) \in Int
    <3>1. y - 1 \in Int /\ (y - 1) + 1 = y
      BY <1>2
    <3>2. QED
      BY <3>1, YearLength
  <2>3. (Day(t) + YearDays) + 1 <= Day(n)
    BY <1>1, <1>2, <2>1, <2>2
  <2>4. (Day(t) + YearDays) * DayTicks + DayTicks <= Day(n) * DayTicks
    BY <1>1, <2>3, Multiples
  <2>5. (Day(t) + YearDays) * DayTicks = Day(t) * DayTicks + YearDays * DayTicks
    BY <1>1
  <2>6. Day(n) * DayTicks \in Int /\ Day(t) * DayTicks \in Int /\ YearDays * DayTicks \in Int
    BY <1>1
  <2>7. QED
    BY <1>1, <2>4, <2>5, <2>6
<1>4. QED
  BY <1>2, <1>3

\* A stamp has a date and a tick,
LEMMA StampType == ASSUME NEW t \in Int PROVE Stamp(t) \in [date : Int, tick : Int]
<1>1. NewYear(YearOf(Day(t))) \in Int /\ Day(t) \in Int
  BY DayAndTick, YearBounds, YearLength
<1>2. t % DayTicks \in Int
  BY CalendarAssumption
<1>3. QED
  BY <1>1, <1>2 DEF Stamp

(***************************************************************************)
(* The year of an RFC3164 line is inferred as YearInferred asks, for every *)
(* calendar and at every instant.                                          *)
(***************************************************************************)
LEMMA YearIsInferred == ASSUME NEW n \in Int PROVE YearInferred(n)
<1> USE CalendarAssumption
<1> SUFFICES ASSUME NEW meant \in (n - YearDays * DayTicks + Tolerance + 1)..(n + Tolerance),
                    YearOf(Day(meant)) <= YearOf(Day(n)),
                    ParseRfc3164(Stamp(meant), n) # meant
             PROVE  /\ ParseRfc3164(Stamp(meant), n) = NoTime
                    /\ Stamp(meant).date = LeapDay /\ ~IsLeap(YearOf(Day(n)))
  BY DEF YearInferred
<1> DEFINE s == Stamp(meant)
           x == YearOf(Day(meant))
           y == YearOf(Day(n))
<1>1. YearDays * DayTicks \in Int
  OBVIOUS
<1>2. meant \in Int /\ meant <= n + Tolerance /\ meant + YearDays * DayTicks > n + Tolerance
  BY <1>1
<1>3. x \in Int /\ y \in Int
  BY <1>2, DayAndTick, YearBounds
<1>4. InYear(s, x) = meant /\ meant # NoTime
  BY <1>2, ReadInOwnYear
<1>5. x # y
  <2> SUFFICES ASSUME x = y PROVE FALSE
    OBVIOUS
  <2>1. InYear(s, y) = meant /\ ~(meant > n + Tolerance)
    BY <1>2, <1>4
  <2>2. QED
    BY <1>4, <2>1 DEF ParseRfc3164
<1>6. y = x + 1
  <2>1. meant > n - YearDays * DayTicks /\ x < y
    BY <1>1, <1>2, <1>3, <1>5
  <2>2. QED
    BY <1>2, <2>1, NextYear
<1>7. InYear(s, y) = NoTime
  <2> SUFFICES ASSUME InYear(s, y) # NoTime PROVE FALSE
    OBVIOUS
  <2>1. InYear(s, y) \in Int /\ InYear(s, y) >= meant + YearDays * DayTicks
    BY <1>2, <1>3, <1>6, ReadAYearLater
  <2>2. InYear(s, y) > n + Tolerance
    BY <1>1, <1>2, <2>1
  <2>3. y - 1 = x
    BY <1>3, <1>6
  <2>4. ParseRfc3164(s, n) = InYear(s, x)
    BY <2>2, <2>3 DEF ParseRfc3164
  <2>5. QED
    BY <1>4, <2>4
<1>8. s.date = LeapDay /\ ~IsLeap(y)
  <2> SUFFICES ASSUME ~(s.date = LeapDay /\ ~IsLeap(y)) PROVE FALSE
    OBVIOUS
  <2>1. InYear(s, y) \in Int
    <3>1. s \in [date : Int, tick : Int]
      BY <1>2, StampType
    <3>2. QED
      BY <3>1, <1>3, YearLength DEF InYear
  <2>2. QED
    BY <1>7, <2>1
<1>9. ParseRfc3164(s, n) = NoTime
  BY <1>7 DEF ParseRfc3164
<1>10. QED
  BY <1>8, <1>9
-----------------------------------------------------------------------------
(***************************************************************************)
(* The clock and the days of event times are integers; a stamp read in any *)
(* year is an instant or no time at all.                                   *)
(***************************************************************************)
LEMMA DayType == ASSUME NEW t \in Int PROVE Day(t) \in Int
  BY CalendarAssumption DEF Day

\* the clock an instant,
LEMMA NowType == TableInv => now \in Int
  BY CalendarAssumption DEF TableInv, PInv, TypeOK, now

\* and a reading of a stamp is an instant, or none (the 29th of February),
LEMMA ReadingType ==
  ASSUME NEW s \in [date : Int, tick : Int], NEW y \in Int
  PROVE  InYear(s, y) \in Int \cup {NoTime}
<1> DEFINE n == IF ~IsLeap(y) /\ s.date > LeapDay THEN s.date - 1 ELSE s.date
<1>1. NewYear(y) + n \in Int
  BY YearLength
<1>2. (NewYear(y) + n) * DayTicks + s.tick \in Int
  BY <1>1, CalendarAssumption
<1>3. QED
  BY <1>2 DEF InYear

\* as is what parse_rfc3164 makes of it.
LEMMA ParseType ==
  ASSUME NEW s \in [date : Int, tick : Int], NEW n \in Int
  PROVE  ParseRfc3164(s, n) \in Int \cup {NoTime}
<1>1. YearOf(Day(n)) \in Int /\ YearOf(Day(n)) - 1 \in Int
  BY DayType, YearBounds
<1>2. QED
  BY <1>1, ReadingType DEF ParseRfc3164

(***************************************************************************)
(* The dispatcher gives an event an instant, whatever it was handed.       *)
(***************************************************************************)
LEMMA NormalizeTime ==
  ASSUME NEW h, NEW p, NEW t, NEW n \in Int, p.time \in Int
  PROVE  /\ Normalize(h, p, t, n).time \in Int
         /\ Normalize(h, p, t, n).tenant = t
         /\ Recognised(h, p) => Normalize(h, p, t, n).time = p.time
  BY DEF Normalize, Fallback

(***************************************************************************)
(* A row stored by any of the three ways in is an Insert of Partitions.    *)
(***************************************************************************)
LEMMA StoreKeepsTable ==
  ASSUME PInv, NEW e, e.time \in Int, Store(e)
  PROVE  PInv'
<1>1. Day(e.time) \in Int /\ Insert(Day(e.time))
  BY DayType DEF Store
<1>2. QED
  BY <1>1, PInvInsert

(***************************************************************************)
(* What a line becomes is stamped with an instant, its own or the present. *)
(***************************************************************************)
LEMMA MessageTime ==
  ASSUME TableInv, NEW m, NEW meant \in Int
  PROVE  HandleMessage(m, meant).time \in Int
<1> DEFINE t == ParseSyslogLine(m, meant)
           p == [m.payload EXCEPT !.time = t]
<1>1. now \in Int
  BY NowType
<1>2. t \in Int \cup {NoTime}
  BY <1>1, StampType, ParseType DEF ParseSyslogLine
<1>3. CASE t = NoTime
  BY <1>1, <1>3 DEF HandleMessage, Fallback
<1>4. CASE t # NoTime
  <2>1. HandleMessage(m, meant) = Normalize(SourceHint(m.payload.fields), p, ListenerTenant, now)
    BY <1>4 DEF HandleMessage
  <2>2. QED
    BY <1>1, <1>2, <1>4, <2>1 DEF Normalize, Fallback
<1>5. QED
  BY <1>3, <1>4

(***************************************************************************)
(* Every step of the composed system keeps the table's invariant: a day    *)
(* passes, maintenance runs or fails, or one row is inserted.              *)
(***************************************************************************)
LEMMA TableStep == IngestInv /\ [IngestNext]_ingestVars => TableInv'
<1> SUFFICES ASSUME IngestInv, [IngestNext]_ingestVars PROVE TableInv'
  OBVIOUS
<1>a. TableInv /\ PInv /\ tick \in Int
  BY DEF IngestInv, TableInv
<1>1. ASSUME UNCHANGED vars PROVE PInv'
  BY <1>a, <1>1, PInvStep
<1>2. CASE Clock
  <2>1. PInv'
    BY <1>a, <1>1, <1>2, PInvStep DEF Clock, Next
  <2>2. QED
    BY <1>a, <1>2, <2>1 DEF Clock, TableInv
<1>3. CASE Maintain
  BY <1>a, <1>3, PInvStep DEF Maintain, Next, TableInv
<1>4. ASSUME NEW l \in Loads, Read(l) PROVE TableInv'
  BY <1>a, <1>1, <1>4 DEF Read, TableInv
<1>5. CASE Rebase
  BY <1>a, <1>1, <1>5 DEF Rebase, TableInv
<1>6. CASE Report \/ Kill
  BY <1>a, <1>1, <1>6 DEF Report, Kill, TableInv
<1>7. ASSUME NEW i \in DOMAIN events, Write(i) \/ WriteRefused(i) PROVE TableInv'
  <2>1. CASE Write(i)
    <3>1. events[i].time \in Int
      BY DEF IngestInv, LoaderInv, EventsInv
    <3>2. PInv'
      BY <1>a, <2>1, <3>1, StoreKeepsTable DEF Write
    <3>3. QED
      BY <1>a, <2>1, <3>2 DEF Write, TableInv
  <2>2. CASE WriteRefused(i)
    BY <1>a, <1>1, <2>2 DEF WriteRefused, TableInv
  <2>3. QED
    BY <1>7, <2>1, <2>2
<1>8. ASSUME NEW b \in Bodies, NEW d \in (0 - MaxSkew)..MaxSkew, Post(b, now + d * DayTicks)
      PROVE  TableInv'
  <2> DEFINE t == now + d * DayTicks
             e == Normalize(b.source, [b.payload EXCEPT !.time = t], ListenerTenant, now)
  <2>1. now \in Int /\ t \in Int
    BY <1>a, NowType, PartitionAssumption, CalendarAssumption
  <2>2. e.time \in Int
    BY <2>1 DEF Normalize, Fallback
  <2>3. Store(e) /\ tick' = tick
    BY <1>8 DEF Post
  <2>4. QED
    BY <1>a, <2>2, <2>3, StoreKeepsTable DEF TableInv
<1>9. ASSUME NEW m \in Lines, NEW meant \in (now - Late)..(now + Fast), SyslogLine(m, meant)
      PROVE  TableInv'
  <2>1. meant \in Int
    BY <1>a, NowType, IngestionAssumption
  <2>2. HandleMessage(m, meant).time \in Int
    BY <1>a, <2>1, MessageTime
  <2>3. Store(HandleMessage(m, meant)) /\ tick' = tick
    BY <1>9 DEF SyslogLine
  <2>4. QED
    BY <1>a, <2>2, <2>3, StoreKeepsTable DEF TableInv
<1>10. CASE UNCHANGED ingestVars
  BY <1>a, <1>1, <1>10 DEF ingestVars, TableInv
<1>11. QED
  BY <1>2, <1>3, <1>4, <1>5, <1>6, <1>7, <1>8, <1>9, <1>10 DEF IngestNext, Loader

(***************************************************************************)
(* Reading a file: every kept record has an event, or the run is over.     *)
(***************************************************************************)
LEMMA ReadStep ==
  ASSUME IngestInv, NEW l \in Loads, Read(l)
  PROVE  LoaderInv'
<1>1. load' = l /\ written' = {}
  BY DEF Read
<1>2. LoadTyped'
  <2>1. DOMAIN l.file = 1..Len(l.file) /\ Len(l.file) \in Nat
    BY IngestionAssumption
  <2>2. DOMAIN l.file \subseteq Nat
    BY <2>1
  <2>3. QED
    BY <1>1, <2>2, IngestionAssumption DEF LoadTyped
<1>3. WrittenInv'
  BY <1>1 DEF WrittenInv
<1>4. now \in Int
  BY NowType DEF IngestInv
<1>5. CASE \E i \in Kept(l) : SourceOf(l.file[i], l) = Unhashable
  <2>1. phase' = "dead" /\ events' = NoEvents
    BY <1>5 DEF Read
  <2>2. DOMAIN events' = {}
    BY <2>1 DEF NoEvents
  <2>3. QED
    BY <1>2, <1>3, <2>1, <2>2 DEF LoaderInv, EventsInv, Idle
<1>6. CASE \A i \in Kept(l) : SourceOf(l.file[i], l) # Unhashable
  <2> DEFINE e(i) == Normalize(SourceOf(l.file[i], l), l.file[i].payload, TenantOf(l.file[i], l), now)
  <2>1. /\ phase' = IF l.rebase THEN "read" ELSE "writing"
        /\ events' = [i \in Kept(l) |-> e(i)]
    BY <1>6 DEF Read
  <2>2. Hashable' /\ DOMAIN events' = Kept(load')
    BY <1>1, <1>6, <2>1 DEF Hashable, Kept, SourceOf, TenantOf
  <2>3. ASSUME NEW i \in Kept(l)
        PROVE  /\ e(i).time \in Int /\ e(i).tenant = TenantOf(l.file[i], l)
               /\ Recognised(SourceOf(l.file[i], l), l.file[i].payload)
                     => e(i).time = l.file[i].payload.time
    <3>1. l.file[i].payload.time \in Int
      BY IngestionAssumption DEF Kept
    <3>2. QED
      BY <1>4, <3>1, NormalizeTime
  <2>4. \A i \in DOMAIN events' :
           /\ events'[i].time \in Int /\ events'[i].tenant = TenantOf(l.file[i], l)
           /\ Recognised(SourceOf(l.file[i], l), l.file[i].payload)
                 => events'[i].time = l.file[i].payload.time
    BY <2>1, <2>3
  <2>5. EventsInv'
    BY <1>1, <2>1, <2>2, <2>4 DEF EventsInv, Recognisable, TenantOf, SourceOf
  <2>6. QED
    BY <1>2, <1>3, <2>5 DEF LoaderInv
<1>7. QED
  BY <1>5, <1>6

(***************************************************************************)
(* Rebasing moves times only, and only of a load that asked for it.        *)
(***************************************************************************)
LEMMA RebaseStep ==
  ASSUME IngestInv, Rebase
  PROVE  LoaderInv'
<1>1. /\ phase = "read" /\ load.rebase /\ load' = load /\ written' = written
      /\ DOMAIN events = Kept(load) /\ Hashable
  BY DEF Rebase, IngestInv, LoaderInv, EventsInv, Idle
<1>2. LoadTyped' /\ WrittenInv'
  BY <1>1 DEF IngestInv, LoaderInv, LoadTyped, WrittenInv, Kept, Hashable, TenantOf,
              SourceOf, Recognisable
<1>3. now \in Int
  BY NowType DEF IngestInv
<1>4. EventsInv'
  <2>1. CASE phase' = "writing" /\ DOMAIN events = {} /\ events' = events
    BY <1>1, <2>1 DEF IngestInv, LoaderInv, EventsInv, Hashable, Kept, TenantOf, SourceOf, Idle
  <2>2. ASSUME NEW f \in DOMAIN events, phase' = "writing",
               events' = [i \in DOMAIN events |->
                             [events[i] EXCEPT !.time = @ + (now - events[f].time)]]
        PROVE  EventsInv'
    <3>1. ASSUME NEW i \in DOMAIN events
          PROVE  events'[i].time \in Int /\ events'[i].tenant = TenantOf(load.file[i], load)
      <4>1. /\ events[i].time \in Int /\ events[f].time \in Int
            /\ events[i].tenant = TenantOf(load.file[i], load)
        BY DEF IngestInv, LoaderInv, EventsInv
      <4>2. events[i].time + (now - events[f].time) \in Int
        BY <1>3, <4>1
      <4>3. events'[i] = [events[i] EXCEPT !.time = events[i].time + (now - events[f].time)]
        BY <2>2
      <4>4. QED
        BY <4>1, <4>2, <4>3
    <3>2. DOMAIN events' = Kept(load)
      BY <1>1, <2>2
    <3>3. QED
      BY <1>1, <2>2, <3>1, <3>2 DEF EventsInv, Hashable, Kept, TenantOf, SourceOf, Idle
  <2>3. CASE phase' = "dead" /\ events' = NoEvents
    BY <2>3 DEF EventsInv, Idle, NoEvents
  <2>4. QED
    BY <2>1, <2>2, <2>3 DEF Rebase
<1>5. QED
  BY <1>2, <1>4 DEF LoaderInv

(***************************************************************************)
(* The event whose turn it is comes right after those already written.     *)
(***************************************************************************)
LEMMA WriteStep ==
  ASSUME IngestInv, NEW i \in DOMAIN events, Write(i)
  PROVE  LoaderInv'
<1> DEFINE w == [index |-> i, tenant |-> events[i].tenant, time |-> events[i].time,
                 table |-> IF Day(events[i].time) \in parts THEN Day(events[i].time) ELSE Default]
<1>1. /\ phase = "writing" /\ written' = written \cup {w}
      /\ UNCHANGED <<phase, load, events>>
  BY DEF Write, Turn
<1>2. LoadTyped' /\ EventsInv'
  BY <1>1 DEF IngestInv, LoaderInv, LoadTyped, EventsInv, Hashable, Kept, TenantOf, SourceOf,
              Recognisable, Idle
<1>3. DOMAIN events = Kept(load) /\ Hashable
  BY <1>1 DEF IngestInv, LoaderInv, EventsInv, Idle
<1>4. i \in Kept(load) /\ \A j \in Kept(load) : j < i => \E v \in written : v.index = j
  <2>1. \A j \in Kept(load) : j < i => j \notin Pending
    <3> SUFFICES ASSUME NEW j \in Pending, j < i PROVE FALSE
      OBVIOUS
    <3>1. i <= j
      BY DEF Write, Turn
    <3>2. i \in Int /\ j \in Int
      BY <1>3 DEF IngestInv, LoaderInv, LoadTyped, Kept, Pending
    <3>3. QED
      BY <3>1, <3>2
  <2>2. QED
    BY <1>3, <2>1 DEF Pending
<1>5. w.tenant = TenantOf(load.file[i], load) /\ w.tenant \in Tenants
  <2>1. events[i].tenant = TenantOf(load.file[i], load) /\ TenantOf(load.file[i], load) # Nothing
    BY <1>3 DEF IngestInv, LoaderInv, EventsInv, Kept
  <2>2. events[i].tenant # BadTenant
    BY DEF Write, Store, Refused
  <2>3. TenantOf(load.file[i], load) \in Tenants \cup {BadTenant, Nothing}
    BY <1>3 DEF IngestInv, LoaderInv, LoadTyped, TenantOf, Kept
  <2>4. QED
    BY <2>1, <2>2, <2>3
<1>6. ~load.rebase /\ Recognisable(i) => w.time = load.file[i].payload.time
  BY DEF IngestInv, LoaderInv, EventsInv
<1>7. WrittenInv'
  <2> SUFFICES ASSUME NEW x \in written'
               PROVE  /\ x.index \in Kept(load) /\ Hashable
                      /\ x.tenant = TenantOf(load.file[x.index], load) /\ x.tenant \in Tenants
                      /\ ~load.rebase /\ Recognisable(x.index) => x.time = load.file[x.index].payload.time
                      /\ \A j \in Kept(load) : j < x.index => \E v \in written' : v.index = j
    BY <1>1 DEF WrittenInv, Kept, Hashable, TenantOf, SourceOf, Recognisable
  <2>1. CASE x \in written
    BY <1>1, <2>1 DEF IngestInv, LoaderInv, WrittenInv
  <2>2. CASE x = w
    BY <1>1, <1>3, <1>4, <1>5, <1>6, <2>2
  <2>3. QED
    BY <1>1, <2>1, <2>2
<1>8. QED
  BY <1>2, <1>7 DEF LoaderInv

(***************************************************************************)
(* The remaining steps leave the file and the rows of the load alone, and  *)
(* keep its list or drop it.                                               *)
(***************************************************************************)
LEMMA OtherSteps ==
  ASSUME IngestInv, UNCHANGED <<load, written>>,
         \/ UNCHANGED <<phase, events>>
         \/ phase' \in {"done", "dead", "refused"} /\ events' = NoEvents
  PROVE  LoaderInv'
<1>1. LoadTyped' /\ WrittenInv'
  BY DEF IngestInv, LoaderInv, LoadTyped, WrittenInv, Kept, Hashable, TenantOf,
         SourceOf, Recognisable
<1>2. CASE UNCHANGED <<phase, events>>
  BY <1>1, <1>2 DEF IngestInv, LoaderInv, EventsInv, Kept, Hashable, TenantOf, SourceOf,
                    Recognisable, Idle
<1>3. CASE phase' \in {"done", "dead", "refused"} /\ events' = NoEvents
  <2>1. DOMAIN events' = {}
    BY <1>3 DEF NoEvents
  <2>2. EventsInv'
    BY <1>3, <2>1 DEF EventsInv, Idle
  <2>3. QED
    BY <1>1, <2>2 DEF LoaderInv
<1>4. QED
  BY <1>2, <1>3

(***************************************************************************)
(* The whole invariant holds at first and in every step.                   *)
(***************************************************************************)
LEMMA IngestInvInit == IngestInit => IngestInv
<1> SUFFICES ASSUME IngestInit PROVE IngestInv
  OBVIOUS
<1>1. TableInv
  BY PInvInit DEF IngestInit, TableInv
<1>2. DOMAIN load.file = {} /\ load.tenant = Nothing /\ written = {} /\ DOMAIN events = {}
  BY DEF IngestInit, NoEvents
<1>3. phase = "idle"
  BY DEF IngestInit
<1>4. QED
  BY <1>1, <1>2, <1>3 DEF IngestInv, LoaderInv, LoadTyped, EventsInv, WrittenInv, Idle

\* Every step keeps the table and the loader.
LEMMA IngestInvStep == IngestInv /\ [IngestNext]_ingestVars => IngestInv'
<1> SUFFICES ASSUME IngestInv, [IngestNext]_ingestVars PROVE LoaderInv'
  BY TableStep DEF IngestInv
<1>1. ASSUME UNCHANGED loaderVars PROVE LoaderInv'
  BY <1>1, OtherSteps DEF loaderVars
<1>2. CASE Clock \/ Maintain
  BY <1>1, <1>2 DEF Clock, Maintain
<1>3. ASSUME NEW l \in Loads, Read(l) PROVE LoaderInv'
  BY <1>3, ReadStep
<1>4. CASE Rebase
  BY <1>4, RebaseStep
<1>5. CASE Report \/ Kill
  BY <1>5, OtherSteps DEF Report, Kill
<1>6. ASSUME NEW i \in DOMAIN events, Write(i) \/ WriteRefused(i) PROVE LoaderInv'
  <2>1. CASE Write(i)
    BY <2>1, WriteStep
  <2>2. CASE WriteRefused(i)
    BY <2>2, OtherSteps DEF WriteRefused
  <2>3. QED
    BY <1>6, <2>1, <2>2
<1>7. ASSUME NEW b \in Bodies, NEW t, Post(b, t) PROVE LoaderInv'
  BY <1>1, <1>7 DEF Post
<1>8. ASSUME NEW m \in Lines, NEW t, SyslogLine(m, t) PROVE LoaderInv'
  BY <1>1, <1>8 DEF SyslogLine
<1>9. CASE UNCHANGED ingestVars
  BY <1>1, <1>9 DEF ingestVars
<1>10. QED
  BY <1>2, <1>3, <1>4, <1>5, <1>6, <1>7, <1>8, <1>9 DEF IngestNext, Loader

(***************************************************************************)
(* Composed with everything that writes events, the partitions keep what   *)
(* they promise: rows are routed, tables protected, today is covered.      *)
(***************************************************************************)
THEOREM IngestedRowsRouted == IngestSpec => [](RowsRouted /\ TablesProtected /\ TodayCovered)
<1>1. IngestInv => RowsRouted /\ TablesProtected /\ TodayCovered
  BY WindowReachesToday DEF IngestInv, TableInv, PInv
<1>2. QED
  BY IngestInvInit, IngestInvStep, <1>1, PTL DEF IngestSpec

(***************************************************************************)
(* Whatever interrupts the loader, its rows are those of a prefix of the   *)
(* kept records, each under the right tenant, for every file and option.   *)
(***************************************************************************)
THEOREM LoadPrefix == IngestSpec => []LoadIsPrefix
<1>1. IngestInv => LoadIsPrefix
  BY DEF IngestInv, LoaderInv, WrittenInv, LoadIsPrefix, Hashable, Kept, TenantOf, OwnTenant
<1>2. QED
  BY IngestInvInit, IngestInvStep, <1>1, PTL DEF IngestSpec

-----------------------------------------------------------------------------
(***************************************************************************)
(* What the loader reports.  Its list is still the file's when it reports, *)
(* no index is written twice, and what the table refuses in an event was in*)
(* its record: no normalizer leaves the severity's range, adds to raw what *)
(* jsonb refuses, or sends a long text to an indexed column in a fallback. *)
(***************************************************************************)
FileTyped ==
    /\ load.file \in Seq({load.file[i] : i \in DOMAIN load.file})
    /\ \A i \in DOMAIN load.file : load.file[i].payload.severity \in Int

WrittenOnce ==
    /\ IsFiniteSet(written)
    /\ \A v, w \in written : v.index = w.index => v = w

\* A payload of this source is recognised and names an event type or a user
\* that is too long.
LongNamed(h, p) ==
    /\ Recognised(h, p)
    /\ \E k \in {"event_type", "event", "user"} \cap DOMAIN p.fields : p.fields[k] = "long"

EventsFit ==
    \A i \in DOMAIN events :
        /\ events[i].unfit => load.file[i].payload.unfit
        /\ events[i].long => LongNamed(SourceOf(load.file[i], load), load.file[i].payload)
        /\ events[i].severity \in 0..10 \cup {Nothing}

OutcomeInv == FileTyped /\ WrittenOnce /\ EventsFit /\ OutcomeHonest

\* No normalizer adds what the table refuses.
LEMMA NormalizeFits ==
  ASSUME NEW h, NEW p, NEW t, NEW n, p.severity \in Int
  PROVE  /\ Normalize(h, p, t, n).unfit => p.unfit
         /\ Normalize(h, p, t, n).long => LongNamed(h, p)
         /\ Normalize(h, p, t, n).severity \in 0..10 \cup {Nothing}
<1>1. Normalize(h, p, t, n).unfit => p.unfit
  BY DEF Normalize, Fallback
<1>2. Clamp(p.severity) \in 0..10 /\ 7 - (p.severity % 8) \in 0..10
  BY DEF Clamp
<1>3. Severity(h, p) \in 0..10 \cup {Nothing}
  BY <1>2 DEF Severity
<1>4. Normalize(h, p, t, n).severity \in {Severity(h, p), Nothing}
  BY DEF Normalize, Fallback
<1>5. Normalize(h, p, t, n).long => LongNamed(h, p)
  <2>1. CASE ~Recognised(h, p)
    BY <2>1 DEF Normalize, Fallback
  <2>2. CASE Recognised(h, p)
    <3>1. Normalize(h, p, t, n).long => LongIndexed(h, p)
      BY <2>2 DEF Normalize
    <3>2. h \in DOMAIN NORMALIZERS
      BY <2>2 DEF Recognised
    <3>3. NORMALIZERS[h].indexed \subseteq {"event_type", "event", "user"}
      BY <3>2 DEF NORMALIZERS, Api, Crowdstrike, Aws, M365, Ad, Firewall, Network
    <3>4. LongIndexed(h, p) => LongNamed(h, p)
      BY <2>2, <3>3 DEF LongIndexed, LongNamed
    <3>5. QED
      BY <3>1, <3>4
  <2>3. QED
    BY <2>1, <2>2
<1>6. QED
  BY <1>1, <1>3, <1>4, <1>5

\* The records of a file are finitely many.
LEMMA FileFacts ==
  ASSUME FileTyped
  PROVE  /\ Len(load.file) \in Nat /\ DOMAIN load.file = 1..Len(load.file)
         /\ IsFiniteSet(DOMAIN load.file) /\ Cardinality(DOMAIN load.file) = Len(load.file)
<1>1. Len(load.file) \in Nat /\ DOMAIN load.file = 1..Len(load.file)
  BY DEF FileTyped
<1>2. IsFiniteSet(1..Len(load.file)) /\ Cardinality(1..Len(load.file)) = Len(load.file)
  BY <1>1, FS_Interval
<1>3. QED
  BY <1>1, <1>2

\* The count of the rows is the count of the list, and with the skipped the
\* count of the file.
LEMMA ReportStep ==
  ASSUME IngestInv, OutcomeInv, Report
  PROVE  OutcomeHonest'
<1>1. /\ phase = "writing" /\ Pending = {} /\ phase' = "done" /\ UNCHANGED <<load, written>>
      /\ report' = [inserted |-> Cardinality(DOMAIN events),
                    skipped |-> Cardinality(DOMAIN load.file \ Kept(load))]
  BY DEF Report
<1>2. DOMAIN events = Kept(load)
  BY <1>1 DEF IngestInv, LoaderInv, EventsInv, Idle
<1> DEFINE K == Kept(load)
           D == DOMAIN load.file
           f == [w \in written |-> w.index]
<1>3. K \subseteq D /\ IsFiniteSet(D) /\ Cardinality(D) = Len(load.file)
  BY FileFacts DEF OutcomeInv, Kept
<1>4. f \in Bijection(written, K)
  <2>1. f \in [written -> K]
    BY DEF IngestInv, LoaderInv, WrittenInv
  <2>2. \A i \in K : \E w \in written : f[w] = i
    BY <1>1, <1>2 DEF Pending
  <2>3. \A v, w \in written : f[v] = f[w] => v = w
    BY DEF OutcomeInv, WrittenOnce
  <2>4. QED
    BY <2>1, <2>2, <2>3 DEF Bijection, Injection, Surjection, IsInjective
<1>5. Cardinality(K) = Cardinality(written)
  BY <1>4, FS_Bijection DEF OutcomeInv, WrittenOnce, ExistsBijection
<1>6. Cardinality(K) + Cardinality(D \ K) = Len(load.file)
  <2>1. IsFiniteSet(K) /\ Cardinality(K) \in Nat /\ Cardinality(D) \in Nat
    <3> HIDE DEF K, D
    <3>1. IsFiniteSet(K)
      BY <1>3, FS_Subset
    <3>2. QED
      BY <1>3, <3>1, FS_CardinalityType
  <2>2. D \cap K = K
    BY <1>3
  <2>3. Cardinality(D \ K) = Cardinality(D) - Cardinality(D \cap K)
    <3> HIDE DEF K, D
    <3>1. QED
      BY <1>3, FS_Difference
  <2>4. QED
    <3> HIDE DEF K, D
    <3>1. Cardinality(D \ K) = Len(load.file) - Cardinality(K)
      BY <1>3, <2>2, <2>3
    <3>2. Len(load.file) \in Nat
      BY <1>3, <2>1
    <3>3. QED
      BY <2>1, <3>1, <3>2
<1>7. QED
  BY <1>1, <1>2, <1>5, <1>6 DEF OutcomeHonest

\* A load dies on an event whose record is at fault, with those before it
\* stored and no other.
LEMMA RefusedStep ==
  ASSUME IngestInv, OutcomeInv, NEW i \in DOMAIN events, WriteRefused(i)
  PROVE  OutcomeHonest'
<1>1. /\ phase = "writing" /\ phase' = "refused" /\ load' = load /\ written' = written
      /\ Refused(events[i]) /\ Turn(i)
  BY DEF WriteRefused, Turn
<1>2. /\ DOMAIN events = Kept(load) /\ i \in Kept(load)
      /\ events[i].tenant = TenantOf(load.file[i], load)
  BY <1>1 DEF IngestInv, LoaderInv, EventsInv, Idle
<1>3. /\ events[i].unfit => load.file[i].payload.unfit
      /\ events[i].long => LongNamed(SourceOf(load.file[i], load), load.file[i].payload)
      /\ events[i].severity \in 0..10 \cup {Nothing}
  BY DEF OutcomeInv, EventsFit
<1>4. OwnTenant(i) = TenantOf(load.file[i], load) /\ OwnTenant(i) # Nothing
  BY <1>2 DEF Kept, OwnTenant, TenantOf
<1>5. i \in DOMAIN load.file /\ AtFault(i)
  <2>1. i \in DOMAIN load.file /\ OwnTenant(i) # Nothing
    BY <1>2, <1>4 DEF Kept
  <2>2. \/ events[i].unfit \/ events[i].long \/ events[i].tenant = BadTenant
    BY <1>1, <1>3 DEF Refused
  <2>3. CASE events[i].unfit \/ events[i].tenant = BadTenant
    BY <1>2, <1>3, <1>4, <2>1, <2>3 DEF AtFault
  <2>4. CASE events[i].long
    BY <1>3, <2>1, <2>4 DEF AtFault, LongNamed, Recognisable
  <2>5. QED
    BY <2>1, <2>2, <2>3, <2>4
<1>6. StoredBefore(i)
  <2>1. ASSUME NEW j \in Kept(load) PROVE i \in Int /\ j \in Int
    BY <1>2 DEF IngestInv, LoaderInv, LoadTyped, Kept
  <2>2. ASSUME NEW j \in Kept(load), j < i PROVE \E w \in written : w.index = j
    <3>1. j \notin Pending
      BY <1>1, <2>1, <2>2 DEF Turn
    <3>2. QED
      BY <1>2, <3>1 DEF Pending
  <2>3. ASSUME NEW j \in Kept(load), NEW w \in written, w.index = j PROVE j < i
    <3>1. \A v \in written : v.index # i
      BY <1>1 DEF Turn, Pending
    <3>2. i < j => \E v \in written : v.index = i
      BY <1>2, <2>3 DEF IngestInv, LoaderInv, WrittenInv
    <3>3. QED
      BY <2>1, <2>3, <3>1, <3>2
  <2>4. \A j \in DOMAIN load.file : OwnTenant(j) # Nothing => j \in Kept(load)
    BY DEF Kept, OwnTenant, TenantOf
  <2>5. QED
    <3>1. ASSUME NEW j \in DOMAIN load.file, OwnTenant(j) # Nothing
          PROVE  (j < i) <=> (\E w \in written : w.index = j)
      <4>1. j \in Kept(load)
        BY <2>4, <3>1
      <4>2. (j < i) => (\E w \in written : w.index = j)
        BY <2>2, <4>1
      <4>3. (\E w \in written : w.index = j) => (j < i)
        BY <2>3, <4>1
      <4>4. QED
        BY <4>2, <4>3
    <3>2. QED
      BY <3>1 DEF StoredBefore
<1>7. AtFault(i)' /\ StoredBefore(i)'
  BY <1>1, <1>5, <1>6 DEF AtFault, StoredBefore, OwnTenant, Recognisable, SourceOf
<1>8. QED
  BY <1>1, <1>5, <1>7 DEF OutcomeHonest

\* Every step keeps the report true.
LEMMA OutcomeStep ==
  ASSUME IngestInv, OutcomeInv, [IngestNext]_ingestVars
  PROVE  OutcomeInv'
<1>1. ASSUME UNCHANGED <<load, written>>, EventsFit', OutcomeHonest' PROVE OutcomeInv'
  BY <1>1 DEF OutcomeInv, FileTyped, WrittenOnce
<1>2. ASSUME UNCHANGED loaderVars PROVE OutcomeInv'
  BY <1>2 DEF OutcomeInv, FileTyped, WrittenOnce, EventsFit, OutcomeHonest, StoredBefore, AtFault,
              Recognisable, SourceOf, OwnTenant, loaderVars
<1>3. events' = NoEvents => EventsFit'
  BY DEF EventsFit, NoEvents
<1>4. phase' \notin {"done", "refused"} => OutcomeHonest'
  BY DEF OutcomeHonest
<1>5. CASE Clock \/ Maintain
  BY <1>2, <1>5 DEF Clock, Maintain
<1>6. ASSUME NEW l \in Loads, Read(l) PROVE OutcomeInv'
  <2>1. load' = l /\ written' = {} /\ phase' \in {"dead", "read", "writing"}
    BY <1>6 DEF Read
  <2>2. FileTyped'
    BY <2>1, IngestionAssumption DEF FileTyped
  <2>3. WrittenOnce'
    BY <2>1, FS_EmptySet DEF WrittenOnce
  <2>4. EventsFit'
    <3>1. CASE \E i \in Kept(l) : SourceOf(l.file[i], l) = Unhashable
      BY <1>3, <1>6, <3>1 DEF Read
    <3>2. CASE ~\E i \in Kept(l) : SourceOf(l.file[i], l) = Unhashable
      <4> DEFINE e(i) == Normalize(SourceOf(l.file[i], l), l.file[i].payload,
                                   TenantOf(l.file[i], l), now)
      <4>1. events' = [i \in Kept(l) |-> e(i)]
        BY <1>6, <3>2 DEF Read
      <4>2. ASSUME NEW i \in Kept(l)
            PROVE  /\ e(i).unfit => l.file[i].payload.unfit
                   /\ e(i).long => LongNamed(SourceOf(l.file[i], l), l.file[i].payload)
                   /\ e(i).severity \in 0..10 \cup {Nothing}
        <5>1. l.file[i].payload.severity \in Int
          BY IngestionAssumption DEF Kept
        <5>2. QED
          BY <5>1, NormalizeFits
      <4> HIDE DEF e
      <4>3. QED
        BY <2>1, <4>1, <4>2 DEF EventsFit, SourceOf
    <3>3. QED
      BY <3>1, <3>2
  <2>5. QED
    BY <1>4, <2>1, <2>2, <2>3, <2>4 DEF OutcomeInv
<1>7. CASE Rebase
  <2>1. UNCHANGED <<load, written>> /\ phase' \in {"writing", "dead"}
    BY <1>7 DEF Rebase
  <2>2. EventsFit'
    <3>1. CASE events' = events
      BY <2>1, <3>1 DEF OutcomeInv, EventsFit, SourceOf
    <3>2. ASSUME NEW f \in DOMAIN events,
                 events' = [i \in DOMAIN events |->
                               [events[i] EXCEPT !.time = @ + (now - events[f].time)]]
          PROVE  EventsFit'
      <4>1. ASSUME NEW i \in DOMAIN events
            PROVE  /\ events'[i].unfit = events[i].unfit /\ events'[i].long = events[i].long
                   /\ events'[i].severity = events[i].severity
        <5>1. events'[i] = [events[i] EXCEPT !.time = events[i].time + (now - events[f].time)]
          BY <3>2
        <5>2. QED
          BY <5>1
      <4>2. DOMAIN events' = DOMAIN events
        BY <3>2
      <4>3. QED
        BY <2>1, <4>1, <4>2 DEF OutcomeInv, EventsFit, SourceOf
    <3>3. QED
      BY <1>3, <1>7, <3>1, <3>2 DEF Rebase
  <2>3. QED
    BY <1>1, <1>4, <2>1, <2>2
<1>8. CASE Report
  BY <1>1, <1>3, <1>8, ReportStep DEF Report
<1>9. CASE Kill
  BY <1>1, <1>3, <1>4, <1>9 DEF Kill
<1>10. ASSUME NEW i \in DOMAIN events, Write(i) PROVE OutcomeInv'
  <2> DEFINE w == [index |-> i, tenant |-> events[i].tenant, time |-> events[i].time,
                   table |-> IF Day(events[i].time) \in parts THEN Day(events[i].time) ELSE Default]
  <2>1. written' = written \cup {w} /\ UNCHANGED <<phase, load, events>> /\ phase = "writing"
    BY <1>10 DEF Write, Turn
  <2>2. \A v \in written : v.index # i
    BY <1>10 DEF Write, Turn, Pending
  <2>3. w.index = i
    OBVIOUS
  <2> HIDE DEF w
  <2>4. WrittenOnce'
    BY <2>1, <2>2, <2>3, FS_AddElement DEF OutcomeInv, WrittenOnce
  <2>5. FileTyped' /\ EventsFit' /\ OutcomeHonest'
    BY <2>1 DEF OutcomeInv, FileTyped, EventsFit, OutcomeHonest, SourceOf
  <2>6. QED
    BY <2>4, <2>5 DEF OutcomeInv
<1>11. ASSUME NEW i \in DOMAIN events, WriteRefused(i) PROVE OutcomeInv'
  BY <1>1, <1>3, <1>11, RefusedStep DEF WriteRefused
<1>12. ASSUME NEW b \in Bodies, NEW t, Post(b, t) PROVE OutcomeInv'
  BY <1>2, <1>12 DEF Post
<1>13. ASSUME NEW m \in Lines, NEW t, SyslogLine(m, t) PROVE OutcomeInv'
  BY <1>2, <1>13 DEF SyslogLine
<1>14. CASE UNCHANGED ingestVars
  BY <1>2, <1>14 DEF ingestVars
<1>15. QED
  BY <1>5, <1>6, <1>7, <1>8, <1>9, <1>10, <1>11, <1>12, <1>13, <1>14 DEF IngestNext, Loader

\* No load has run yet.
LEMMA OutcomeInit == IngestInit => OutcomeInv
<1> SUFFICES ASSUME IngestInit PROVE OutcomeInv
  OBVIOUS
<1>1. load.file = <<>> /\ written = {} /\ events = NoEvents /\ phase = "idle"
  BY DEF IngestInit
<1>2. FileTyped
  BY <1>1 DEF FileTyped
<1>3. QED
  BY <1>1, <1>2, FS_EmptySet DEF OutcomeInv, WrittenOnce, EventsFit, OutcomeHonest, NoEvents

(***************************************************************************)
(* What main prints is true: as many rows as it says are stored, and every *)
(* record was inserted or counted as skipped.  A load that the database    *)
(* stops has stored exactly the kept records before one that the table can-*)
(* not take: its tenant, or something in it that jsonb or, of a recognised *)
(* record, an index refuses; a severity never stops it (batch_loader.py).  *)
(***************************************************************************)
THEOREM LoadReported == IngestSpec => []OutcomeHonest
<1>1. IngestInit => IngestInv /\ OutcomeInv
  BY IngestInvInit, OutcomeInit
<1>2. IngestInv /\ OutcomeInv /\ [IngestNext]_ingestVars => IngestInv' /\ OutcomeInv'
  BY IngestInvStep, OutcomeStep
<1>3. OutcomeInv => OutcomeHonest
  BY DEF OutcomeInv
<1>4. QED
  BY <1>1, <1>2, <1>3, PTL DEF IngestSpec

(***************************************************************************)
(* A step that removes a row is a maintenance, and removes only days past  *)
(* retention, whoever else is writing.                                     *)
(***************************************************************************)
THEOREM IngestedRowsRetained == IngestSpec => RetentionExact
<1> DEFINE kept == /\ \A r \in rows : r \notin rows' => r.day < today - RetainDays
                   /\ lastOk' # lastOk => \A d \in parts' : d >= today - RetainDays
<1>1. IngestInv /\ [IngestNext]_ingestVars => [kept]_vars
  <2> SUFFICES ASSUME IngestInv, [IngestNext]_ingestVars PROVE [kept]_vars
    OBVIOUS
  <2>1. PInv
    BY DEF IngestInv, TableInv
  <2>2. CASE Next
    BY <2>1, <2>2, StepRetains
  <2>3. ASSUME NEW d, Insert(d) PROVE kept
    BY <2>3 DEF Insert
  <2>4. CASE Clock \/ Maintain
    BY <2>2, <2>4 DEF Clock, Maintain, Next
  <2>5. CASE Loader
    BY <2>3, <2>5 DEF Loader, Read, Rebase, Report, Kill, Write, WriteRefused, Store
  <2>6. ASSUME NEW b \in Bodies, NEW t, Post(b, t) PROVE kept
    BY <2>3, <2>6 DEF Post, Store
  <2>7. ASSUME NEW m \in Lines, NEW t, SyslogLine(m, t) PROVE kept
    BY <2>3, <2>7 DEF SyslogLine, Store
  <2>8. CASE UNCHANGED ingestVars
    BY <2>8 DEF ingestVars
  <2>9. QED
    BY <2>4, <2>5, <2>6, <2>7, <2>8 DEF IngestNext
<1>2. QED
  BY IngestInvInit, IngestInvStep, <1>1, PTL DEF IngestSpec, RetentionExact

(***************************************************************************)
(* The calendar day grows with the clock.                                  *)
(***************************************************************************)
LEMMA DayMonotone ==
  ASSUME NEW s \in Int, NEW t \in Int, s <= t
  PROVE  Day(s) <= Day(t)
  BY CalendarAssumption, QuotientGrows DEF Day

(***************************************************************************)
(* The minimum that the loader found is the earliest time in the file.     *)
(***************************************************************************)
LEMMA EarliestFound ==
  ASSUME LoadTyped, NEW f \in Kept(load),
         \A i \in Kept(load) : load.file[f].payload.time <= load.file[i].payload.time
  PROVE  EarliestKept = load.file[f].payload.time
<1> DEFINE T == {load.file[i].payload.time : i \in Kept(load)}
<1>1. T \subseteq Int /\ load.file[f].payload.time \in T
  BY DEF LoadTyped, Kept
<1>2. EarliestKept \in T /\ \A i \in Kept(load) : EarliestKept <= load.file[i].payload.time
  BY <1>1 DEF EarliestKept
<1>3. EarliestKept \in Int /\ load.file[f].payload.time \in Int
  BY <1>1, <1>2
<1>4. EarliestKept <= load.file[f].payload.time
  BY <1>2
<1>5. load.file[f].payload.time <= EarliestKept
  BY <1>2
<1>6. QED
  BY <1>3, <1>4, <1>5

(***************************************************************************)
(* Every step keeps ShiftInv: only Rebase makes it true of anything.       *)
(***************************************************************************)
LEMMA ShiftInvStep == ShiftedInv /\ [IngestNext]_ingestVars => ShiftInv'
<1> SUFFICES ASSUME ShiftedInv, [IngestNext]_ingestVars PROVE ShiftInv'
  OBVIOUS
<1>a. IngestInv /\ ShiftInv /\ LoadTyped /\ EventsInv
  BY DEF ShiftedInv, IngestInv, LoaderInv
<1>b. ASSUME load' = load
      PROVE  /\ EarliestKept' = EarliestKept /\ Kept(load)' = Kept(load)
             /\ \A j : Recognisable(j)' <=> Recognisable(j)
  BY <1>b, Zenon DEF EarliestKept, Kept, TenantOf, Recognisable, SourceOf
<1>1. ASSUME UNCHANGED <<phase, load, events, shiftedAt>> PROVE ShiftInv'
  BY <1>a, <1>1, <1>b DEF ShiftInv
<1>2. ASSUME phase' # "writing" PROVE ShiftInv'
  BY <1>2 DEF ShiftInv
<1>3. CASE Clock \/ Maintain
  BY <1>1, <1>3 DEF Clock, Maintain, loaderVars
<1>4. ASSUME NEW l \in Loads, Read(l) PROVE ShiftInv'
  BY <1>4 DEF Read, ShiftInv
<1>5. CASE Rebase
  <2> SUFFICES ASSUME phase' = "writing", load'.rebase,
                      \A j \in Kept(load) : Recognisable(j),
                      NEW i \in DOMAIN events'
               PROVE  /\ shiftedAt' \in Int /\ EarliestKept \in Int
                      /\ EarliestKept <= load.file[i].payload.time
                      /\ events'[i].time = shiftedAt' + load.file[i].payload.time - EarliestKept
    BY <1>5, <1>b DEF Rebase, ShiftInv
  <2>1. phase = "read" /\ shiftedAt' = now /\ now \in Int
    BY <1>5, <1>a, NowType DEF Rebase, IngestInv
  <2>2. /\ DOMAIN events = Kept(load)
        /\ \A j \in DOMAIN events : /\ events[j].time = load.file[j].payload.time
                                    /\ events[j].time \in Int
    BY <1>a, <2>1 DEF EventsInv, Idle
  <2>3. PICK f \in DOMAIN events :
           /\ First(f)
           /\ events' = [k \in DOMAIN events |->
                            [events[k] EXCEPT !.time = @ + (now - events[f].time)]]
    BY <1>5 DEF Rebase
  <2>4. \A k \in Kept(load) : load.file[f].payload.time <= load.file[k].payload.time
    BY <2>2, <2>3 DEF First
  <2>5. EarliestKept = events[f].time
    BY <1>a, <2>2, <2>4, EarliestFound
  <2>6. i \in DOMAIN events /\ events'[i] = [events[i] EXCEPT !.time = events[i].time + (now - events[f].time)]
    BY <2>3
  <2>7. events'[i].time = events[i].time + (now - events[f].time)
    BY <2>6
  <2>8. QED
    BY <2>1, <2>2, <2>4, <2>5, <2>6, <2>7
<1>6. CASE Report \/ Kill
  BY <1>2, <1>6 DEF Report, Kill
<1>7. ASSUME NEW i \in DOMAIN events, Write(i) \/ WriteRefused(i) PROVE ShiftInv'
  BY <1>1, <1>2, <1>7 DEF Write, WriteRefused
<1>8. ASSUME NEW b \in Bodies, NEW t, Post(b, t) PROVE ShiftInv'
  BY <1>1, <1>8 DEF Post, loaderVars
<1>9. ASSUME NEW m \in Lines, NEW t, SyslogLine(m, t) PROVE ShiftInv'
  BY <1>1, <1>9 DEF SyslogLine, loaderVars
<1>10. CASE UNCHANGED ingestVars
  BY <1>1, <1>10 DEF ingestVars, loaderVars
<1>11. QED
  BY <1>3, <1>4, <1>5, <1>6, <1>7, <1>8, <1>9, <1>10 DEF IngestNext, Loader

(***************************************************************************)
(* A rebased load of recognised records goes to daily partitions while the *)
(* lookahead of the last maintenance reaches over it, for every file,      *)
(* calendar and window: the loader's arithmetic meets what maintenance left*)
(***************************************************************************)
THEOREM SeedIsVisible == IngestSpec => RebasedVisible
<1> DEFINE visible == \A w \in written' \ written :
              /\ load.rebase /\ \A i \in Kept(load) : Recognisable(i)
              /\ lastOk <= Day(shiftedAt) + DaysBack
              /\ \A i \in Kept(load) : DueDay(i) <= lastOk + DaysAhead
              => w.table = DueDay(w.index)
<1>1. ShiftedInv /\ [IngestNext]_ingestVars => [visible]_ingestVars
  <2> SUFFICES ASSUME ShiftedInv, [IngestNext]_ingestVars, NEW w \in written', w \notin written,
                      load.rebase, \A j \in Kept(load) : Recognisable(j),
                      lastOk <= Day(shiftedAt) + DaysBack,
                      \A j \in Kept(load) : DueDay(j) <= lastOk + DaysAhead
               PROVE  w.table = DueDay(w.index)
    BY DEF ingestVars
  <2>1. PICK i \in DOMAIN events : Write(i)
    BY DEF IngestNext, Clock, Maintain, Loader, Read, Rebase, Report, Kill, WriteRefused,
           Post, SyslogLine, ingestVars, loaderVars
  <2>2. /\ phase = "writing" /\ w.index = i
        /\ w.table = IF Day(events[i].time) \in parts THEN Day(events[i].time) ELSE Default
    BY <2>1 DEF Write, Turn
  <2>3. i \in Kept(load) /\ load.file[i].payload.time \in Int
    BY DEF ShiftedInv, IngestInv, LoaderInv, EventsInv, LoadTyped, Kept
  <2>4. /\ shiftedAt \in Int /\ EarliestKept \in Int
        /\ EarliestKept <= load.file[i].payload.time
        /\ events[i].time = shiftedAt + load.file[i].payload.time - EarliestKept
    BY <2>2 DEF ShiftedInv, ShiftInv
  <2>5. events[i].time \in Int /\ shiftedAt <= events[i].time
    BY <2>3, <2>4
  <2>6. Day(events[i].time) = DueDay(i)
    BY <2>4 DEF DueDay
  <2>7. Day(shiftedAt) <= DueDay(i) /\ Day(shiftedAt) \in Int /\ DueDay(i) \in Int
    BY <2>4, <2>5, <2>6, DayMonotone, DayType
  <2>8. lastOk \in Int /\ Window
    BY DEF ShiftedInv, IngestInv, TableInv, PInv, TypeOK
  <2>9. DueDay(i) \in (lastOk - DaysBack)..(lastOk + DaysAhead)
    BY <2>3, <2>7, <2>8, PartitionAssumption
  <2>10. DueDay(i) \in parts
    BY <2>8, <2>9 DEF Window
  <2>11. QED
    BY <2>2, <2>6, <2>10
<1>2. IngestInit => ShiftedInv
  BY IngestInvInit DEF IngestInit, ShiftedInv, ShiftInv
<1>3. ShiftedInv /\ [IngestNext]_ingestVars => ShiftedInv'
  BY IngestInvStep, ShiftInvStep DEF ShiftedInv
<1>4. QED
  BY <1>1, <1>2, <1>3, PTL DEF IngestSpec, RebasedVisible

(***************************************************************************)
(* At every moment of a run, for every calendar, a line gets the year its  *)
(* sender meant if it is at most Tolerance, five minutes, ahead of the     *)
(* receiver's clock and less than a year less Tolerance behind it, and not *)
(* meant for the year after the receiver's; a 29 February that the         *)
(* receiver's year has not is left without a time (timeutil.py:35-53).     *)
(***************************************************************************)
THEOREM LinesDated == IngestSpec => []LinesDatedRight
<1>1. IngestInit => IngestInv
  BY IngestInvInit
<1>2. IngestInv => LinesDatedRight
  BY NowType, YearIsInferred DEF IngestInv, LinesDatedRight
<1>3. QED
  BY <1>1, <1>2, IngestInvStep, PTL DEF IngestSpec
=============================================================================
