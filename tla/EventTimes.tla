------------------------------ MODULE EventTimes ------------------------------
(***************************************************************************)
(* The year of an RFC3164 time (src/ingest/timeutil.py).  A syslog line    *)
(* says month, day and time but no year; parse_rfc3164 takes the year of   *)
(* the receiver's clock, or the one before.                                *)
(*                                                                         *)
(* Time is counted in ticks, DayTicks a day, from the start of year 0.  A  *)
(* year has YearDays days; every LeapEvery-th year, 0 among them, has one  *)
(* more, "Feb 29", which is its day number LeapDay.                        *)
(***************************************************************************)
EXTENDS Integers

CONSTANTS DayTicks, YearDays, LeapEvery, LeapDay,
          Tolerance,      \* the five minutes a device may be ahead, in ticks
          NoTime          \* what stands for a ValueError

ASSUME CalendarAssumption ==
    /\ DayTicks \in Nat \ {0} /\ YearDays \in Nat \ {0} /\ LeapEvery \in Nat \ {0}
    /\ LeapDay \in 0..YearDays /\ Tolerance \in Nat /\ NoTime \notin Int

Day(t) == t \div DayTicks
IsLeap(y) == y % LeapEvery = 0
NewYear(y) == y * YearDays + (y + LeapEvery - 1) \div LeapEvery

\* The year of day d: the leap year comes first in each cycle of years.
YearOf(d) ==
    LET cycle == LeapEvery * YearDays + 1
        r     == d % cycle
    IN  (d \div cycle) * LeapEvery + (IF r <= YearDays THEN 0 ELSE (r - 1) \div YearDays)

\* "Mon DD HH:MM:SS" of time t; dates are counted as in a leap year.
Stamp(t) ==
    LET y == YearOf(Day(t))
        n == Day(t) - NewYear(y)
    IN  [date |-> IF ~IsLeap(y) /\ n >= LeapDay THEN n + 1 ELSE n, tick |-> t % DayTicks]

\* strptime and replace(year=...): the stamp read in year y, unless y lacks it.
InYear(s, y) ==
    IF s.date = LeapDay /\ ~IsLeap(y) THEN NoTime
    ELSE LET n == IF ~IsLeap(y) /\ s.date > LeapDay THEN s.date - 1 ELSE s.date
         IN  (NewYear(y) + n) * DayTicks + s.tick

\* Mutant: a stamp of another day than today is one of last year.
ParseRfc3164Strict(s, now) ==
    LET y == YearOf(Day(now))
    IN  IF InYear(s, y) = NoTime THEN NoTime
        ELSE IF InYear(s, y) > now THEN InYear(s, y - 1) ELSE InYear(s, y)

\* parse_rfc3164: a time more than the tolerance ahead is one of last year.
ParseRfc3164(s, now) ==
    LET y == YearOf(Day(now))
    IN  IF InYear(s, y) = NoTime THEN NoTime
        ELSE IF InYear(s, y) > now + Tolerance THEN InYear(s, y - 1) ELSE InYear(s, y)

(***************************************************************************)
(* A line is filed under the time its device meant when that is at most the*)
(* tolerance ahead, not past the receiver's New Year, and less than a year *)
(* (but for the tolerance) ago (timeutil.py:22-25); only a Feb 29 may have *)
(* no reading, and then only while the receiver's year has none.           *)
(***************************************************************************)
YearInferred(now) ==
    \A meant \in (now - YearDays * DayTicks + Tolerance + 1)..(now + Tolerance) :
        LET t == ParseRfc3164(Stamp(meant), now)
        IN  YearOf(Day(meant)) <= YearOf(Day(now)) =>
                \/ t = meant
                \/ t = NoTime /\ Stamp(meant).date = LeapDay /\ ~IsLeap(YearOf(Day(now)))
=============================================================================
