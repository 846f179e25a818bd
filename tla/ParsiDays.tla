------------------------------ MODULE ParsiDays ------------------------------
(***************************************************************************)
(* The three Parsi calendars (calendar/engine.py), beside a count of the   *)
(* days that uses none of their arithmetic.                                *)
(*                                                                         *)
(* A day is its ordinal, as Python's date.toordinal counts it.  A Parsi    *)
(* date is <<year, mah, roj>>; a Gatha day has mah 13 and its number for a *)
(* roj, as the rows of ceremonies store it.  The real lengths are used:    *)
(* there is nothing here to make smaller.                                  *)
(***************************************************************************)
EXTENDS Integers, Sequences

CONSTANT LastYear   \* bound: the walk ends on 1 April of this year

VARIABLES
    day,     \* today, as an ordinal
    civil,   \* today's Gregorian date, counted day by day
    parsi    \* [System -> today's Parsi date, counted day by day]

walkVars == <<day, civil, parsi>>
-----------------------------------------------------------------------------
(***************************************************************************)
(* Python's dates.                                                         *)
(***************************************************************************)
IsLeap(y) == y % 4 = 0 /\ (y % 100 # 0 \/ y % 400 = 0)
LengthOf(y, m) == IF m = 2 THEN (IF IsLeap(y) THEN 29 ELSE 28)
                  ELSE IF m \in {4, 6, 9, 11} THEN 30 ELSE 31
DaysBefore(y) == 365 * (y - 1) + (y - 1) \div 4 - (y - 1) \div 100 + (y - 1) \div 400
YearDay(y, m, d) ==
    <<0, 31, 59, 90, 120, 151, 181, 212, 243, 273, 304, 334>>[m] + d
        + IF m > 2 /\ IsLeap(y) THEN 1 ELSE 0
Ordinal(y, m, d) == DaysBefore(y) + YearDay(y, m, d)
YearOf(n) ==
    LET near == (n * 400) \div 146097
    IN CHOOSE y \in near - 1 .. near + 2 : DaysBefore(y) < n /\ n <= DaysBefore(y + 1)
-----------------------------------------------------------------------------
(***************************************************************************)
(* The engine.                                                             *)
(***************************************************************************)
System == {"shenshai", "kadmi", "fasli"}
DaysPerMonth == 30
YearLength == 365
EraOffset == 630
\* Navroze of the Shenshai year 1395 fell on 15 August 2025.
AnchorNavroze == 739478
AnchorYear == 1395
KadmiAhead == 30

\* <<mah, roj>> of a day of the year (_decompose_day_of_year, parsi_slot_fields).
Decompose(dayOfYear) ==
    <<(dayOfYear - 1) \div DaysPerMonth + 1, ((dayOfYear - 1) % DaysPerMonth) + 1>>
DayOfYear(mah, roj) == (mah - 1) * DaysPerMonth + roj

FromShenshai(n) ==
    LET delta == n - AnchorNavroze
    IN <<AnchorYear + delta \div YearLength>> \o Decompose((delta % YearLength) + 1)
ToShenshai(year, dayOfYear) ==
    AnchorNavroze + (year - AnchorYear) * YearLength + dayOfYear - 1

\* Kadmi is the same calendar thirty days ahead.
FromKadmi(n) == FromShenshai(n + KadmiAhead)
ToKadmi(year, dayOfYear) == ToShenshai(year, dayOfYear) - KadmiAhead

\* Fasli years begin on 21 March; a sixth Gatha day fills a leap year.
CycleStart(y) == Ordinal(y, 3, 21)
CycleOf(n) == IF n >= CycleStart(YearOf(n)) THEN YearOf(n) ELSE YearOf(n) - 1
FromFasli(n) ==
    LET cycle == CycleOf(n)
    IN <<cycle - EraOffset>> \o Decompose(n - CycleStart(cycle) + 1)
ToFasli(year, dayOfYear) == CycleStart(year + EraOffset) + dayOfYear - 1

\* Mutant: the leap year is taken to be the one the Fasli year begins in.
MaxGathaThen(system, year) ==
    IF system = "fasli" /\ IsLeap(year + EraOffset) THEN 6 ELSE 5
MaxGatha(system, year) ==
    IF system = "fasli" /\ IsLeap(year + EraOffset + 1) THEN 6 ELSE 5

GregorianToParsi(n, system) ==
    CASE system = "shenshai" -> FromShenshai(n)
      [] system = "kadmi" -> FromKadmi(n)
      [] system = "fasli" -> FromFasli(n)

\* A Parsi date that no day has is refused (ValueError).
Exists(system, year, mah, roj) ==
    \/ mah \in 1 .. 12 /\ roj \in 1 .. DaysPerMonth
    \/ mah = 13 /\ roj \in 1 .. MaxGatha(system, year)
ParsiToGregorian(year, system, mah, roj) ==
    CASE system = "shenshai" -> ToShenshai(year, DayOfYear(mah, roj))
      [] system = "kadmi" -> ToKadmi(year, DayOfYear(mah, roj))
      [] system = "fasli" -> ToFasli(year, DayOfYear(mah, roj))

\* Mutant: the year of the day that is asked from is not looked at.
ScannedFromNext(year) == year + 1 .. year + 5
ScannedYears(year) == year - 1 .. year + 5

NoDay == 0
Least(S) == CHOOSE x \in S : \A y \in S : x <= y
\* The soonest such day on or after n, if the years that are scanned have one.
NearestOccurrence(system, mah, roj, n) ==
    LET years == {y \in ScannedYears(GregorianToParsi(n, system)[1]) : Exists(system, y, mah, roj)}
        days == {ParsiToGregorian(y, system, mah, roj) : y \in years}
        ahead == {d \in days : d >= n}
    IN IF ahead = {} THEN NoDay ELSE Least(ahead)

\* The new year that falls within a Gregorian year.
Offsets(y, system) ==
    {o \in -3 .. 3 : YearOf(ParsiToGregorian(y - EraOffset + o, system, 1, 1)) = y}
GetNavroze(y, system) ==
    IF system = "fasli" THEN CycleStart(y)
    ELSE IF Offsets(y, system) = {} THEN NoDay
    ELSE ParsiToGregorian(y - EraOffset + Least(Offsets(y, system)), system, 1, 1)

\* The page of a Parsi month: its thirty days, or as many Gatha days as the year has.
ParsiMonth(system, year, mah) ==
    {ParsiToGregorian(year, system, mah, roj) :
        roj \in {r \in 1 .. DaysPerMonth : Exists(system, year, mah, r)}}
-----------------------------------------------------------------------------
(***************************************************************************)
(* The count: each day follows the one before.                             *)
(***************************************************************************)
NextCivil(c) ==
    IF c.d < LengthOf(c.y, c.m) THEN [c EXCEPT !.d = @ + 1]
    ELSE IF c.m < 12 THEN [c EXCEPT !.m = @ + 1, !.d = 1]
    ELSE [y |-> c.y + 1, m |-> 1, d |-> 1]

\* Thirty days to a month, then the Gatha days: five of them, and as many as it
\* takes to the next 21 March in the Fasli calendar.
NewYear(system, p, tomorrow) ==
    IF system = "fasli" THEN tomorrow.m = 3 /\ tomorrow.d = 21 ELSE p[2] = 13 /\ p[3] = 5
NextParsi(system, p, tomorrow) ==
    IF NewYear(system, p, tomorrow) THEN <<p[1] + 1, 1, 1>>
    ELSE IF p[2] <= 12 /\ p[3] = 30 THEN <<p[1], p[2] + 1, 1>>
    ELSE <<p[1], p[2], p[3] + 1>>

\* The Shenshai new year of 1999.
WalkInit ==
    /\ day = 729988
    /\ civil = [y |-> 1999, m |-> 8, d |-> 22]
    /\ parsi = [shenshai |-> <<1369, 1, 1>>, kadmi |-> <<1369, 2, 1>>, fasli |-> <<1369, 6, 5>>]
Tomorrow ==
    /\ ~(civil.y = LastYear /\ civil.m = 4)
    /\ day' = day + 1
    /\ civil' = NextCivil(civil)
    /\ parsi' = [s \in System |-> NextParsi(s, parsi[s], NextCivil(civil))]

WalkSpec == WalkInit /\ [][Tomorrow]_walkVars
-----------------------------------------------------------------------------
\* get_navroze looks three years about its guess, near enough up to the year 7300,
\* and takes the first it finds: a leap year that begins and ends with a new year is
\* given the one that it begins with.
NavrozeIsInReach == civil.y <= 7300 /\ YearDay(civil.y, civil.m, civil.d) <= YearLength

\* On every day of a century the engine names, in each calendar, the date that
\* counting gives, finds the day back from it, puts it on the page of its month
\* with the days beside it, and finds each new year in its Gregorian year: through
\* Gatha days, both kinds of February and the year 2100.
DatesAgree ==
    /\ Ordinal(civil.y, civil.m, civil.d) = day /\ YearOf(day) = civil.y
    /\ \A s \in System : LET p == parsi[s] IN
        /\ GregorianToParsi(day, s) = p
        /\ Exists(s, p[1], p[2], p[3]) /\ ParsiToGregorian(p[1], s, p[2], p[3]) = day
        /\ LET page == ParsiMonth(s, p[1], p[2]) IN
               /\ day \in page
               /\ day + 1 \in page <=> NextParsi(s, p, NextCivil(civil))[2] = p[2]
        /\ p[2] = 1 /\ p[3] = 1 /\ NavrozeIsInReach => GetNavroze(civil.y, s) = day

\* The next occurrence of a Roj and Mah, or of a Gatha day, is today or what it
\* is tomorrow: none is passed over.  The sixth Gatha day up to 2096: after it
\* there is none for eight years, and nearest_occurrence looks five years ahead.
Asked == {<<1, 1>>, <<13, 5>>} \cup IF day < CycleStart(2096) THEN {<<13, 6>>} ELSE {}
NothingPassedOver ==
    \A s \in System, a \in Asked :
        NearestOccurrence(s, a[1], a[2], day) =
            IF <<parsi[s][2], parsi[s][3]>> = a THEN day
            ELSE NearestOccurrence(s, a[1], a[2], day + 1)

\* The engine's five ways from dates to Parsi days and back agree (engine.py).
CalendarAgrees == DatesAgree /\ NothingPassedOver
=============================================================================
