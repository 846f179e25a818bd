---------------------------- MODULE CalendarProofs ----------------------------
(***************************************************************************)
(* The calendars agree with counting the days, whatever day it is, and a   *)
(* death is put on the last day that has its Roj and Mah.                  *)
(***************************************************************************)
EXTENDS MemorialPlan, Counting, SequenceTheorems

(***************************************************************************)
(* Gregorian years.                                                        *)
(***************************************************************************)
\* A year has 365 days, a leap year one more.
LEMMA NextYearStarts ==
    ASSUME NEW y \in Int
    PROVE  /\ DaysBefore(y) \in Int
           /\ DaysBefore(y + 1) = DaysBefore(y) + 365 + (IF IsLeap(y) THEN 1 ELSE 0)
BY DEF DaysBefore, IsLeap

\* 146097 days to 400 years, give or take two days.
LEMMA YearsAverage ==
    ASSUME NEW y \in Int
    PROVE  /\ 146097 * (y - 1) - 699 <= 400 * DaysBefore(y) 
           /\ 400 * DaysBefore(y) <= 146097 * (y - 1) + 396
BY DEF DaysBefore

\* So many years have at least 365 days each,
LEMMA YearsAtLeast ==
    ASSUME NEW y \in Int, NEW z \in Int, y <= z
    PROVE  DaysBefore(y) + 365 * (z - y) <= DaysBefore(z)
BY DEF DaysBefore

\* and at most 366.
LEMMA YearsAtMost ==
    ASSUME NEW y \in Int, NEW z \in Int, y <= z
    PROVE  DaysBefore(z) <= DaysBefore(y) + 366 * (z - y)
BY DEF DaysBefore

\* Every day is in the year that date.year gives it (YearOf looks near the average),
LEMMA YearOfIs ==
    ASSUME NEW n \in Nat \ {0}
    PROVE  YearOf(n) \in Int /\ DaysBefore(YearOf(n)) < n /\ n <= DaysBefore(YearOf(n) + 1)
<1> DEFINE near == (n * 400) \div 146097
<1>1. near \in Int /\ 146097 * near <= 400 * n /\ 400 * n < 146097 * near + 146097
  OBVIOUS
<1>2. DaysBefore(near - 1) < n /\ n <= DaysBefore(near + 3)
  <2> HIDE DEF near
  <2>1. 400 * DaysBefore(near - 1) <= 146097 * (near - 2) + 396
    BY <1>1, YearsAverage
  <2>2. 146097 * (near + 2) - 699 <= 400 * DaysBefore(near + 3)
    BY <1>1, YearsAverage
  <2>3. DaysBefore(near - 1) \in Int /\ DaysBefore(near + 3) \in Int
    BY <1>1, NextYearStarts
  <2> QED
    BY <1>1, <2>1, <2>2, <2>3
<1>3. \E y \in near - 1 .. near + 2 : DaysBefore(y) < n /\ n <= DaysBefore(y + 1)
  <2> HIDE DEF near
  <2>1. DaysBefore(near) \in Int /\ DaysBefore(near + 1) \in Int /\ DaysBefore(near + 2) \in Int
    BY <1>1, NextYearStarts
  <2>2. /\ near - 1 \in near - 1 .. near + 2 /\ near \in near - 1 .. near + 2
        /\ near + 1 \in near - 1 .. near + 2 /\ near + 2 \in near - 1 .. near + 2
        /\ near - 1 + 1 = near /\ near + 1 + 1 = near + 2 /\ near + 2 + 1 = near + 3
    BY <1>1
  <2>3. CASE n <= DaysBefore(near)
    BY <1>2, <2>2, <2>3
  <2>4. CASE DaysBefore(near) < n /\ n <= DaysBefore(near + 1)
    BY <1>2, <2>2, <2>4
  <2>5. CASE DaysBefore(near + 1) < n /\ n <= DaysBefore(near + 2)
    BY <1>2, <2>2, <2>5
  <2>6. CASE DaysBefore(near + 2) < n
    BY <1>2, <2>2, <2>6
  <2> QED
    BY <1>1, <2>1, <2>3, <2>4, <2>5, <2>6
<1>4. /\ YearOf(n) \in near - 1 .. near + 2
      /\ DaysBefore(YearOf(n)) < n /\ n <= DaysBefore(YearOf(n) + 1)
  BY <1>3 DEF YearOf
<1> QED
  BY <1>1, <1>4

\* and in no other.
LEMMA YearOfOnly ==
    ASSUME NEW n \in Nat \ {0}, NEW y \in Int, DaysBefore(y) < n, n <= DaysBefore(y + 1)
    PROVE  YearOf(n) = y
<1>1. YearOf(n) \in Int /\ DaysBefore(YearOf(n)) < n /\ n <= DaysBefore(YearOf(n) + 1)
  BY YearOfIs
<1>2. DaysBefore(y) \in Int /\ DaysBefore(y + 1) \in Int
      /\ DaysBefore(YearOf(n)) \in Int /\ DaysBefore(YearOf(n) + 1) \in Int
  BY <1>1, NextYearStarts
<1> DEFINE z == YearOf(n)
<1>3. ASSUME z < y PROVE FALSE
  <2>1. z \in Int /\ z + 1 <= y
    BY <1>1, <1>3
  <2>2. DaysBefore(z + 1) + 365 * (y - (z + 1)) <= DaysBefore(y)
    <3> HIDE DEF z
    <3> QED
      BY <2>1, YearsAtLeast
  <2> QED
    BY <1>1, <1>2, <2>1, <2>2
<1>4. ASSUME y < z PROVE FALSE
  <2>1. z \in Int /\ y + 1 <= z
    BY <1>1, <1>4
  <2>2. DaysBefore(y + 1) + 365 * (z - (y + 1)) <= DaysBefore(z)
    <3> HIDE DEF z
    <3> QED
      BY <2>1, YearsAtLeast
  <2> QED
    BY <1>1, <1>2, <2>1, <2>2
<1> QED
  BY <1>1, <1>3, <1>4

\* 21 March, counted from the end of the year.
LEMMA CycleStartIs ==
    ASSUME NEW y \in Int PROVE CycleStart(y) = DaysBefore(y + 1) - 285
<1>1. DaysBefore(y) \in Int
      /\ DaysBefore(y + 1) = DaysBefore(y) + 365 + (IF IsLeap(y) THEN 1 ELSE 0)
  BY NextYearStarts
<1>2. CycleStart(y) = DaysBefore(y) + (59 + 21 + IF IsLeap(y) THEN 1 ELSE 0)
  BY DEF CycleStart, Ordinal, YearDay
<1> QED
  BY <1>1, <1>2

\* A day is between the 21 March that its Fasli year begins on and the next.
LEMMA CycleOfIs ==
    ASSUME NEW n \in Nat \ {0}
    PROVE  CycleOf(n) \in Int /\ CycleStart(CycleOf(n)) <= n /\ n < CycleStart(CycleOf(n) + 1)
<1> DEFINE y == YearOf(n)
<1>1. y \in Int /\ DaysBefore(y) < n /\ n <= DaysBefore(y + 1)
  BY YearOfIs
<1> HIDE DEF y
<1>2. CycleStart(y) = DaysBefore(y + 1) - 285 /\ CycleStart(y - 1) = DaysBefore(y) - 285
      /\ CycleStart(y + 1) = DaysBefore(y + 2) - 285
  BY <1>1, CycleStartIs
<1>3. DaysBefore(y) \in Int /\ DaysBefore(y + 1) \in Int /\ DaysBefore(y + 1) + 365 <= DaysBefore(y + 2)
      /\ DaysBefore(y + 2) \in Int
  BY <1>1, NextYearStarts, YearsAtLeast
<1>4. CycleOf(n) = IF n >= CycleStart(y) THEN y ELSE y - 1
  BY DEF CycleOf, y
<1> QED
  BY <1>1, <1>2, <1>3, <1>4

\* What the year is put in front of.
LEMMA Joined == ASSUME NEW x, NEW a, NEW b PROVE <<x>> \o <<a, b>> = <<x, a, b>>
<1>1. <<x>> \in Seq({x, a, b}) /\ <<a, b>> \in Seq({x, a, b})
  OBVIOUS
<1>2. /\ <<x>> \o <<a, b>> \in Seq({x, a, b})
      /\ Len(<<x>> \o <<a, b>>) = 3
      /\ \A i \in 1 .. 3 : (<<x>> \o <<a, b>>)[i] = IF i <= 1 THEN <<x>>[i] ELSE <<a, b>>[i - 1]
  BY <1>1, ConcatProperties
<1>3. <<x, a, b>> \in Seq({x, a, b}) /\ Len(<<x, a, b>>) = 3
  OBVIOUS
<1>4. \A i \in 1 .. 3 : (<<x>> \o <<a, b>>)[i] = <<x, a, b>>[i]
  BY <1>2
<1> QED
  BY <1>2, <1>3, <1>4, SeqEqual

-----------------------------------------------------------------------------
(***************************************************************************)
(* Parsi years.                                                            *)
(***************************************************************************)
\* Each calendar reads and finds days its own way.
LEMMA EachCalendar ==
    ASSUME NEW n, NEW y, NEW m, NEW r
    PROVE  /\ ParsiToGregorian(y, "shenshai", m, r) = ToShenshai(y, DayOfYear(m, r))
           /\ ParsiToGregorian(y, "kadmi", m, r) = ToKadmi(y, DayOfYear(m, r))
           /\ ParsiToGregorian(y, "fasli", m, r) = ToFasli(y, DayOfYear(m, r))
           /\ GregorianToParsi(n, "shenshai") = FromShenshai(n)
           /\ GregorianToParsi(n, "kadmi") = FromKadmi(n)
           /\ GregorianToParsi(n, "fasli") = FromFasli(n)
BY Zenon DEF ParsiToGregorian, GregorianToParsi

\* The new year's day of a Parsi year.
NewYearDay(s, y) == ParsiToGregorian(y, s, 1, 1)

\* Each calendar's new year, as a number.
LEMMA NewYearDayIs ==
    ASSUME NEW s \in System, NEW y \in Int
    PROVE  /\ NewYearDay(s, y) \in Int
           /\ s = "shenshai" => NewYearDay(s, y) = AnchorNavroze + 365 * (y - 1395)
           /\ s = "kadmi" => NewYearDay(s, y) = AnchorNavroze + 365 * (y - 1395) - 30
           /\ s = "fasli" => NewYearDay(s, y) = DaysBefore(y + 631) - 285
<1>1. DayOfYear(1, 1) = 1
  BY DEF DayOfYear, DaysPerMonth
<1>2. CycleStart(y + 630) = DaysBefore(y + 631) - 285 /\ DaysBefore(y + 631) \in Int
  BY CycleStartIs, NextYearStarts
<1>3. AnchorNavroze \in Int
  BY SMT DEF AnchorNavroze
<1>4. CASE s = "shenshai"
  BY <1>1, <1>3, <1>4, EachCalendar, SMT DEF NewYearDay, ToShenshai, AnchorYear, YearLength
<1>5. CASE s = "kadmi"
  BY <1>1, <1>3, <1>5, EachCalendar, SMT DEF NewYearDay, ToKadmi, ToShenshai, KadmiAhead, AnchorYear, YearLength
<1>6. CASE s = "fasli"
  BY <1>1, <1>2, <1>6, EachCalendar, SMT DEF NewYearDay, ToFasli, EraOffset
<1> QED
  BY <1>4, <1>5, <1>6, SMT DEF System

\* A Parsi year has its twelve months and its Gatha days, and then the next begins.
LEMMA YearIsLong ==
    ASSUME NEW s \in System, NEW y \in Int
    PROVE  /\ MaxGatha(s, y) \in {5, 6}
           /\ NewYearDay(s, y + 1) = NewYearDay(s, y) + 360 + MaxGatha(s, y)
           /\ s # "fasli" => MaxGatha(s, y) = 5
           /\ s = "fasli" => MaxGatha(s, y) = IF IsLeap(y + 631) THEN 6 ELSE 5
<1>1. y + 1 \in Int /\ y + 631 \in Int /\ y + 1 + 631 = y + 631 + 1 /\ y + 630 + 1 = y + 631
  OBVIOUS
<1>2. DaysBefore(y + 631) \in Int
      /\ DaysBefore(y + 631 + 1) = DaysBefore(y + 631) + 365 + (IF IsLeap(y + 631) THEN 1 ELSE 0)
  BY <1>1, NextYearStarts
<1>3. MaxGatha(s, y) = IF s = "fasli" /\ IsLeap(y + 631) THEN 6 ELSE 5
  BY <1>1 DEF MaxGatha, EraOffset
<1>4. CASE s # "fasli"
  <2>1. s = "shenshai" \/ s = "kadmi"
    BY <1>4 DEF System
  <2>2. AnchorNavroze \in Int
    BY SMT DEF AnchorNavroze
  <2>3. NewYearDay(s, y + 1) = NewYearDay(s, y) + 365
    <3>1. CASE s = "shenshai"
      BY <1>1, <2>2, <3>1, NewYearDayIs, SMT
    <3>2. CASE s = "kadmi"
      BY <1>1, <2>2, <3>2, NewYearDayIs, SMT
    <3> QED
      BY <2>1, <3>1, <3>2
  <2>4. NewYearDay(s, y) \in Int
    BY NewYearDayIs
  <2> QED
    BY <1>3, <1>4, <2>3, <2>4, SMT
<1>5. CASE s = "fasli"
  <2>1. NewYearDay(s, y) = DaysBefore(y + 631) - 285
    BY <1>5, NewYearDayIs
  <2>2. NewYearDay(s, y + 1) = DaysBefore(y + 631 + 1) - 285
    BY <1>1, <1>5, NewYearDayIs
  <2> QED
    BY <1>2, <1>3, <1>5, <2>1, <2>2, SMT
<1> QED
  BY <1>4, <1>5

\* So many Parsi years have 365 or 366 days each.
LEMMA YearsSpan ==
    ASSUME NEW s \in System, NEW y \in Int, NEW z \in Int, y <= z
    PROVE  /\ NewYearDay(s, y) + 365 * (z - y) <= NewYearDay(s, z)
           /\ NewYearDay(s, z) <= NewYearDay(s, y) + 366 * (z - y)
<1>1. CASE s # "fasli"
  <2>1. s = "shenshai" \/ s = "kadmi"
    BY <1>1 DEF System
  <2>2. AnchorNavroze \in Int
    BY SMT DEF AnchorNavroze
  <2>3. NewYearDay(s, z) = NewYearDay(s, y) + 365 * (z - y)
    <3>1. CASE s = "shenshai"
      BY <2>2, <3>1, NewYearDayIs, SMT
    <3>2. CASE s = "kadmi"
      BY <2>2, <3>2, NewYearDayIs, SMT
    <3> QED
      BY <2>1, <3>1, <3>2
  <2>4. NewYearDay(s, y) \in Int
    BY NewYearDayIs
  <2> QED
    BY <2>3, <2>4, SMT
<1>2. CASE s = "fasli"
  <2>1. y + 631 \in Int /\ z + 631 \in Int /\ y + 631 <= z + 631 /\ z + 631 - (y + 631) = z - y
    OBVIOUS
  <2>2. /\ DaysBefore(y + 631) + 365 * (z + 631 - (y + 631)) <= DaysBefore(z + 631)
        /\ DaysBefore(z + 631) <= DaysBefore(y + 631) + 366 * (z + 631 - (y + 631))
        /\ DaysBefore(y + 631) \in Int /\ DaysBefore(z + 631) \in Int
    BY <2>1, NextYearStarts, YearsAtLeast, YearsAtMost
  <2>3. NewYearDay(s, y) = DaysBefore(y + 631) - 285 /\ NewYearDay(s, z) = DaysBefore(z + 631) - 285
    BY <1>2, NewYearDayIs
  <2> QED
    BY <2>1, <2>2, <2>3, SMT
<1> QED
  BY <1>1, <1>2

\* A date's day, counted from its new year.
LEMMA PlaceInYear ==
    ASSUME NEW s \in System, NEW y \in Int, NEW m \in Int, NEW r \in Int
    PROVE  /\ ParsiToGregorian(y, s, m, r) = NewYearDay(s, y) + 30 * (m - 1) + r - 1
           /\ ParsiToGregorian(y, s, m, r) \in Int
<1>1. CycleStart(y + 630) \in Int
  BY CycleStartIs, NextYearStarts
<1>2. DayOfYear(m, r) = 30 * (m - 1) + r /\ DayOfYear(1, 1) = 1
  BY DEF DayOfYear, DaysPerMonth
<1>6. AnchorNavroze \in Int
  BY SMT DEF AnchorNavroze
<1>3. CASE s = "shenshai"
  BY <1>2, <1>3, <1>6, EachCalendar, SMT DEF NewYearDay, ToShenshai, AnchorYear, YearLength
<1>4. CASE s = "kadmi"
  <2>1. /\ ParsiToGregorian(y, s, m, r) = ToKadmi(y, DayOfYear(m, r))
        /\ ParsiToGregorian(y, s, 1, 1) = ToKadmi(y, DayOfYear(1, 1))
    BY <1>4, EachCalendar
  <2> QED
    BY <1>2, <1>6, <2>1, SMT DEF NewYearDay, ToKadmi, ToShenshai, KadmiAhead, AnchorYear, YearLength
<1>5. CASE s = "fasli"
  <2>1. /\ ParsiToGregorian(y, s, m, r) = ToFasli(y, DayOfYear(m, r))
        /\ ParsiToGregorian(y, s, 1, 1) = ToFasli(y, DayOfYear(1, 1))
    BY <1>5, EachCalendar
  <2> QED
    BY <1>1, <1>2, <2>1, SMT DEF NewYearDay, ToFasli, EraOffset
<1> QED
  BY <1>3, <1>4, <1>5 DEF System

\* What from_shenshai gives, unfolded.
LEMMA FromShenshaiIs ==
    ASSUME NEW n
    PROVE  FromShenshai(n) = <<1395 + (n - AnchorNavroze) \div 365>>
                                 \o Decompose(((n - AnchorNavroze) % 365) + 1)
BY Zenon DEF FromShenshai, AnchorYear, YearLength

\* The Mah and Roj of a place in the year.
LEMMA DecomposeIs ==
    ASSUME NEW x, NEW c \in Int, NEW d \in Int, c - 1 = d
    PROVE  <<x>> \o Decompose(c) = <<x, d \div 30 + 1, (d % 30) + 1>>
<1>1. Decompose(c) = <<d \div 30 + 1, (d % 30) + 1>>
  BY DEF Decompose, DaysPerMonth
<1> QED
  BY <1>1, Joined

\* What the engine reads of a day: its year, and its place in it.
LEMMA DayIsRead ==
    ASSUME NEW s \in System, NEW n \in Nat \ {0}
    PROVE  \E y \in Int :
               /\ NewYearDay(s, y) <= n /\ n < NewYearDay(s, y + 1)
               /\ GregorianToParsi(n, s) =
                      <<y, (n - NewYearDay(s, y)) \div 30 + 1, ((n - NewYearDay(s, y)) % 30) + 1>>
<1>0. AnchorNavroze \in Int
  BY SMT DEF AnchorNavroze
<1>1. ASSUME NEW b \in {0, 30},
             \A y \in Int : NewYearDay(s, y) = AnchorNavroze + 365 * (y - 1395) - b,
             GregorianToParsi(n, s) = FromShenshai(n + b)
      PROVE  \E y \in Int :
               /\ NewYearDay(s, y) <= n /\ n < NewYearDay(s, y + 1)
               /\ GregorianToParsi(n, s) =
                      <<y, (n - NewYearDay(s, y)) \div 30 + 1, ((n - NewYearDay(s, y)) % 30) + 1>>
  <2> DEFINE delta == (n + b) - AnchorNavroze
             y == 1395 + delta \div 365
  <2>1. y \in Int /\ delta % 365 \in 0 .. 364 /\ delta = 365 * (y - 1395) + (delta % 365)
    BY <1>0, SMT
  <2>2. NewYearDay(s, y) = AnchorNavroze + 365 * (y - 1395) - b
        /\ NewYearDay(s, y + 1) = AnchorNavroze + 365 * (y + 1 - 1395) - b
    <3> HIDE DEF y
    <3> QED
      BY <1>1, <2>1
  <2>3. NewYearDay(s, y) <= n /\ n < NewYearDay(s, y + 1) /\ delta % 365 = n - NewYearDay(s, y)
    BY <1>0, <2>1, <2>2, SMT
  <2>4. GregorianToParsi(n, s) = <<y>> \o Decompose((delta % 365) + 1)
    <3>1. FromShenshai(n + b) = <<y>> \o Decompose((delta % 365) + 1)
      BY FromShenshaiIs
    <3> HIDE DEF y, delta
    <3> QED
      BY <1>1, <3>1, ZenonT(60)
  <2> DEFINE e == n - NewYearDay(s, y)
             c == (delta % 365) + 1
  <2>5. e \in Int /\ c \in Int /\ c - 1 = e
    BY <2>1, <2>2, <2>3, <1>0
  <2>6. <<y>> \o Decompose(c) = <<y, e \div 30 + 1, (e % 30) + 1>>
    <3> HIDE DEF y, c, e
    <3> QED
      BY <2>5, DecomposeIs
  <2>7. GregorianToParsi(n, s) = <<y, e \div 30 + 1, (e % 30) + 1>>
    BY <2>4, <2>6
  <2> HIDE DEF y
  <2> QED
    BY <2>1, <2>3, <2>7
<1>2. CASE s = "shenshai"
  <2>1. GregorianToParsi(n, s) = FromShenshai(n + 0)
    BY <1>2, EachCalendar
  <2>2. \A y \in Int : NewYearDay(s, y) = AnchorNavroze + 365 * (y - 1395) - 0
    BY <1>0, <1>2, NewYearDayIs, SMT
  <2> QED
    BY <1>1, <2>1, <2>2
<1>3. CASE s = "kadmi"
  <2>1. GregorianToParsi(n, s) = FromShenshai(n + 30)
    BY <1>3, EachCalendar DEF FromKadmi, KadmiAhead
  <2>2. \A y \in Int : NewYearDay(s, y) = AnchorNavroze + 365 * (y - 1395) - 30
    BY <1>0, <1>3, NewYearDayIs, SMT
  <2> QED
    BY <1>1, <2>1, <2>2
<1>4. CASE s = "fasli"
  <2> DEFINE c == CycleOf(n)
             y == c - 630
  <2>1. c \in Int /\ CycleStart(c) <= n /\ n < CycleStart(c + 1)
    BY CycleOfIs
  <2>2. CycleStart(c) = DaysBefore(c + 1) - 285 /\ CycleStart(c + 1) = DaysBefore(c + 2) - 285
        /\ DaysBefore(c + 1) \in Int
    <3> HIDE DEF c
    <3>1. c + 1 + 1 = c + 2 /\ c + 1 \in Int
      BY <2>1
    <3> QED
      BY <2>1, <3>1, CycleStartIs, NextYearStarts
  <2>3. y \in Int /\ NewYearDay(s, y) = CycleStart(c) /\ NewYearDay(s, y + 1) = CycleStart(c + 1)
    <3> HIDE DEF c
    <3>1. y \in Int /\ y + 1 \in Int /\ y + 631 = c + 1 /\ y + 1 + 631 = c + 2
      BY <2>1
    <3> QED
      BY <1>4, <2>2, <3>1, NewYearDayIs
  <2>4. GregorianToParsi(n, s) = <<y>> \o Decompose(n - CycleStart(c) + 1)
    BY <1>4, EachCalendar DEF FromFasli, EraOffset
  <2> DEFINE e == n - NewYearDay(s, y)
             k == n - CycleStart(c) + 1
  <2>5. e \in Int /\ k \in Int /\ k - 1 = e
    BY <2>2, <2>3
  <2>6. <<y>> \o Decompose(k) = <<y, e \div 30 + 1, (e % 30) + 1>>
    <3> HIDE DEF y, k, e
    <3> QED
      BY <2>5, DecomposeIs
  <2>7. GregorianToParsi(n, s) = <<y, e \div 30 + 1, (e % 30) + 1>>
    BY <2>4, <2>6
  <2> HIDE DEF y
  <2> QED
    BY <2>1, <2>3, <2>7
<1> QED
  BY <1>2, <1>3, <1>4 DEF System

\* A day is in one Parsi year only.
LEMMA YearHas ==
    ASSUME NEW s \in System, NEW y \in Int, NEW d \in Int, NewYearDay(s, y) <= d, d < NewYearDay(s, y + 1)
    PROVE  \A z \in Int : NewYearDay(s, z) <= d /\ d < NewYearDay(s, z + 1) => z = y
<1> SUFFICES ASSUME NEW z \in Int, NewYearDay(s, z) <= d, d < NewYearDay(s, z + 1) PROVE z = y
  OBVIOUS
<1>1. NewYearDay(s, y) \in Int /\ NewYearDay(s, y + 1) \in Int /\ NewYearDay(s, z) \in Int
      /\ NewYearDay(s, z + 1) \in Int
  BY NewYearDayIs
<1>2. ASSUME z < y PROVE FALSE
  <2>1. z + 1 \in Int /\ z + 1 <= y
    BY <1>2
  <2>2. NewYearDay(s, z + 1) + 365 * (y - (z + 1)) <= NewYearDay(s, y)
    BY <2>1, YearsSpan
  <2> QED
    BY <1>1, <2>1, <2>2
<1>3. ASSUME y < z PROVE FALSE
  <2>1. y + 1 \in Int /\ y + 1 <= z
    BY <1>3
  <2>2. NewYearDay(s, y + 1) + 365 * (z - (y + 1)) <= NewYearDay(s, z)
    BY <2>1, YearsSpan
  <2> QED
    BY <1>1, <2>1, <2>2
<1> QED
  BY <1>2, <1>3

\* Every day has a date in each calendar, which exists and is that day's.
LEMMA DayHasDate ==
    ASSUME NEW s \in System, NEW n \in Nat \ {0}
    PROVE  \E y \in Int, m \in 1 .. 13, r \in 1 .. 30 :
               /\ GregorianToParsi(n, s) = <<y, m, r>>
               /\ Exists(s, y, m, r) /\ ParsiToGregorian(y, s, m, r) = n
               /\ NewYearDay(s, y) <= n /\ n < NewYearDay(s, y + 1)
<1>1. PICK y \in Int :
          /\ NewYearDay(s, y) <= n /\ n < NewYearDay(s, y + 1)
          /\ GregorianToParsi(n, s) =
                 <<y, (n - NewYearDay(s, y)) \div 30 + 1, ((n - NewYearDay(s, y)) % 30) + 1>>
  BY DayIsRead
<1> DEFINE d == n - NewYearDay(s, y)
           m == d \div 30 + 1
           r == (d % 30) + 1
<1>2. NewYearDay(s, y) \in Int /\ MaxGatha(s, y) \in {5, 6}
      /\ NewYearDay(s, y + 1) = NewYearDay(s, y) + 360 + MaxGatha(s, y)
  BY NewYearDayIs, YearIsLong
<1>3. d \in 0 .. 359 + MaxGatha(s, y)
  BY <1>1, <1>2
<1>4. m \in 1 .. 13 /\ r \in 1 .. 30 /\ d = 30 * (m - 1) + r - 1
  <2> HIDE DEF d
  <2> QED
    BY <1>2, <1>3
<1>5. Exists(s, y, m, r)
  <2> HIDE DEF d, m, r
  <2> QED
    BY <1>2, <1>3, <1>4 DEF Exists, DaysPerMonth
<1>6. ParsiToGregorian(y, s, m, r) = n
  <2> HIDE DEF m, r
  <2>1. ParsiToGregorian(y, s, m, r) = NewYearDay(s, y) + 30 * (m - 1) + r - 1
    BY <1>4, PlaceInYear
  <2> QED
    BY <1>2, <1>4, <2>1
<1> QED
  BY <1>1, <1>4, <1>5, <1>6

\* A date that exists is in its year, and is read back.
LEMMA DateIsInYear ==
    ASSUME NEW s \in System, NEW y \in Int, NEW m \in Int, NEW r \in Int, Exists(s, y, m, r)
    PROVE  /\ m \in 1 .. 13 /\ r \in 1 .. 30
           /\ NewYearDay(s, y) <= ParsiToGregorian(y, s, m, r)
           /\ ParsiToGregorian(y, s, m, r) < NewYearDay(s, y + 1)
<1>1. MaxGatha(s, y) \in {5, 6} /\ NewYearDay(s, y + 1) = NewYearDay(s, y) + 360 + MaxGatha(s, y)
      /\ NewYearDay(s, y) \in Int
  BY NewYearDayIs, YearIsLong
<1> QED
  BY <1>1, PlaceInYear DEF Exists, DaysPerMonth

\* What parsi_to_gregorian gives of a date that exists, gregorian_to_parsi reads as that date.
LEMMA DateIsRead ==
    ASSUME NEW s \in System, NEW y \in Int, NEW m \in Int, NEW r \in Int, Exists(s, y, m, r),
           ParsiToGregorian(y, s, m, r) \in Nat \ {0}
    PROVE  GregorianToParsi(ParsiToGregorian(y, s, m, r), s) = <<y, m, r>>
<1> DEFINE n == ParsiToGregorian(y, s, m, r)
<1>1. PICK z \in Int, k \in 1 .. 13, q \in 1 .. 30 :
          /\ GregorianToParsi(n, s) = <<z, k, q>>
          /\ Exists(s, z, k, q) /\ ParsiToGregorian(z, s, k, q) = n
          /\ NewYearDay(s, z) <= n /\ n < NewYearDay(s, z + 1)
  <2> HIDE DEF n
  <2>1. n \in Nat \ {0}
    BY DEF n
  <2> QED
    BY <2>1, DayHasDate
<1>2. m \in 1 .. 13 /\ r \in 1 .. 30 /\ NewYearDay(s, y) <= n /\ n < NewYearDay(s, y + 1)
  BY DateIsInYear
<1>3. n \in Int
  OBVIOUS
<1>4. z = y
  <2> HIDE DEF n
  <2> QED
    BY <1>1, <1>2, <1>3, YearHas
<1>5. n = NewYearDay(s, y) + 30 * (m - 1) + r - 1 /\ n = NewYearDay(s, y) + 30 * (k - 1) + q - 1
      /\ NewYearDay(s, y) \in Int
  BY <1>1, <1>4, PlaceInYear, NewYearDayIs
<1>6. k = m /\ q = r
  <2> HIDE DEF n
  <2> QED
    BY <1>1, <1>2, <1>5
<1> QED
  BY <1>1, <1>4, <1>6

-----------------------------------------------------------------------------
(***************************************************************************)
(* The count of the days.                                                  *)
(***************************************************************************)

(***************************************************************************)
(* The count, day by day.                                                  *)
(***************************************************************************)
IsCivil(c) == c \in [y : Int, m : 1 .. 12, d : 1 .. 31] /\ c.d <= LengthOf(c.y, c.m)

\* The day of the year of each day of each month.
LEMMA YearDayIs ==
    ASSUME NEW y \in Int, NEW d \in Int
    PROVE  LET leap == IF IsLeap(y) THEN 1 ELSE 0
           IN /\ YearDay(y, 1, d) = d /\ YearDay(y, 2, d) = 31 + d
              /\ YearDay(y, 3, d) = 59 + leap + d /\ YearDay(y, 4, d) = 90 + leap + d
              /\ YearDay(y, 5, d) = 120 + leap + d /\ YearDay(y, 6, d) = 151 + leap + d
              /\ YearDay(y, 7, d) = 181 + leap + d /\ YearDay(y, 8, d) = 212 + leap + d
              /\ YearDay(y, 9, d) = 243 + leap + d /\ YearDay(y, 10, d) = 273 + leap + d
              /\ YearDay(y, 11, d) = 304 + leap + d /\ YearDay(y, 12, d) = 334 + leap + d
BY DEF YearDay

\* The lengths of the months.
LEMMA LengthOfIs ==
    ASSUME NEW y \in Int
    PROVE  /\ LengthOf(y, 2) = 28 + (IF IsLeap(y) THEN 1 ELSE 0)
           /\ \A m \in {4, 6, 9, 11} : LengthOf(y, m) = 30
           /\ \A m \in {1, 3, 5, 7, 8, 10, 12} : LengthOf(y, m) = 31
BY DEF LengthOf

\* A Gregorian date is a day of its year; only 21 March is the first of the Fasli year.
LEMMA CivilInYear ==
    ASSUME NEW c, IsCivil(c)
    PROVE  /\ DaysBefore(c.y) < Ordinal(c.y, c.m, c.d)
           /\ Ordinal(c.y, c.m, c.d) <= DaysBefore(c.y + 1)
           /\ Ordinal(c.y, c.m, c.d) \in Int
           /\ YearDay(c.y, c.m, c.d) \in Int
           /\ Ordinal(c.y, c.m, c.d) = CycleStart(c.y) <=> c.m = 3 /\ c.d = 21
<1> DEFINE leap == IF IsLeap(c.y) THEN 1 ELSE 0
<1>1. c.y \in Int /\ c.m \in 1 .. 12 /\ c.d \in 1 .. 31 /\ c.d \in Int /\ c.d <= LengthOf(c.y, c.m)
  BY DEF IsCivil
<1>2. leap \in {0, 1}
  OBVIOUS
<1>3. DaysBefore(c.y) \in Int /\ DaysBefore(c.y + 1) = DaysBefore(c.y) + 365 + leap
  BY <1>1, NextYearStarts
<1>4. CycleStart(c.y) = DaysBefore(c.y) + 80 + leap
  <2>1. CycleStart(c.y) = DaysBefore(c.y + 1) - 285
    BY <1>1, CycleStartIs
  <2> HIDE DEF leap
  <2> QED
    BY <1>2, <1>3, <2>1
<1>5. /\ c.m = 1 => YearDay(c.y, c.m, c.d) = c.d
      /\ c.m = 2 => YearDay(c.y, c.m, c.d) = 31 + c.d
      /\ c.m = 3 => YearDay(c.y, c.m, c.d) = 59 + leap + c.d
      /\ c.m = 4 => YearDay(c.y, c.m, c.d) = 90 + leap + c.d
      /\ c.m = 5 => YearDay(c.y, c.m, c.d) = 120 + leap + c.d
      /\ c.m = 6 => YearDay(c.y, c.m, c.d) = 151 + leap + c.d
      /\ c.m = 7 => YearDay(c.y, c.m, c.d) = 181 + leap + c.d
      /\ c.m = 8 => YearDay(c.y, c.m, c.d) = 212 + leap + c.d
      /\ c.m = 9 => YearDay(c.y, c.m, c.d) = 243 + leap + c.d
      /\ c.m = 10 => YearDay(c.y, c.m, c.d) = 273 + leap + c.d
      /\ c.m = 11 => YearDay(c.y, c.m, c.d) = 304 + leap + c.d
      /\ c.m = 12 => YearDay(c.y, c.m, c.d) = 334 + leap + c.d
  BY <1>1 DEF YearDay
<1>6. /\ LengthOf(c.y, 2) = 28 + leap
      /\ \A m \in {4, 6, 9, 11} : LengthOf(c.y, m) = 30
      /\ \A m \in {1, 3, 5, 7, 8, 10, 12} : LengthOf(c.y, m) = 31
  BY <1>1, LengthOfIs
<1> HIDE DEF leap
<1>7. /\ YearDay(c.y, c.m, c.d) \in 1 .. 365 + leap
      /\ YearDay(c.y, c.m, c.d) = 80 + leap <=> c.m = 3 /\ c.d = 21
  <2>1. CASE c.m \in {1, 2}
    BY <1>1, <1>2, <1>5, <1>6, <2>1
  <2>2. CASE c.m = 3
    BY <1>1, <1>2, <1>5, <1>6, <2>2
  <2>3. CASE c.m \in {4, 5, 6, 7}
    BY <1>1, <1>2, <1>5, <1>6, <2>3
  <2>4. CASE c.m \in {8, 9, 10, 11, 12}
    BY <1>1, <1>2, <1>5, <1>6, <2>4
  <2>5. c.m \in {1, 2} \/ c.m = 3 \/ c.m \in {4, 5, 6, 7} \/ c.m \in {8, 9, 10, 11, 12}
    BY <1>1
  <2> QED
    BY <2>1, <2>2, <2>3, <2>4, <2>5
<1>8. Ordinal(c.y, c.m, c.d) = DaysBefore(c.y) + YearDay(c.y, c.m, c.d)
  BY DEF Ordinal
<1> QED
  BY <1>2, <1>3, <1>4, <1>7, <1>8

\* The day after is the next ordinal.
LEMMA NextCivilIs ==
    ASSUME NEW c, IsCivil(c)
    PROVE  /\ IsCivil(NextCivil(c))
           /\ Ordinal(NextCivil(c).y, NextCivil(c).m, NextCivil(c).d) = Ordinal(c.y, c.m, c.d) + 1
<1> DEFINE leap == IF IsLeap(c.y) THEN 1 ELSE 0
           t == NextCivil(c)
<1>1. c.y \in Int /\ c.m \in 1 .. 12 /\ c.d \in 1 .. 31 /\ c.d <= LengthOf(c.y, c.m)
      /\ c = [y |-> c.y, m |-> c.m, d |-> c.d]
  BY DEF IsCivil
<1>2. leap \in {0, 1}
  OBVIOUS
<1>3. DaysBefore(c.y) \in Int /\ DaysBefore(c.y + 1) = DaysBefore(c.y) + 365 + leap
  BY <1>1, NextYearStarts
<1>4. \A d \in Int :
      /\ YearDay(c.y, 1, d) = d /\ YearDay(c.y, 2, d) = 31 + d
      /\ YearDay(c.y, 3, d) = 59 + leap + d /\ YearDay(c.y, 4, d) = 90 + leap + d
      /\ YearDay(c.y, 5, d) = 120 + leap + d /\ YearDay(c.y, 6, d) = 151 + leap + d
      /\ YearDay(c.y, 7, d) = 181 + leap + d /\ YearDay(c.y, 8, d) = 212 + leap + d
      /\ YearDay(c.y, 9, d) = 243 + leap + d /\ YearDay(c.y, 10, d) = 273 + leap + d
      /\ YearDay(c.y, 11, d) = 304 + leap + d /\ YearDay(c.y, 12, d) = 334 + leap + d
  BY <1>1, YearDayIs
<1>5. /\ LengthOf(c.y, 2) = 28 + leap
      /\ \A m \in {4, 6, 9, 11} : LengthOf(c.y, m) = 30
      /\ \A m \in {1, 3, 5, 7, 8, 10, 12} : LengthOf(c.y, m) = 31
  BY <1>1, LengthOfIs
<1> HIDE DEF leap
<1>6. CASE c.d < LengthOf(c.y, c.m)
  <2>1. t = [y |-> c.y, m |-> c.m, d |-> c.d + 1]
    BY <1>1, <1>6 DEF NextCivil
  <2>2. t.y = c.y /\ t.m = c.m /\ t.d = c.d + 1
    BY <2>1
  <2>3. LengthOf(c.y, c.m) \in 28 .. 31
    BY <1>1, <1>2, <1>5 DEF LengthOf
  <2>4. IsCivil(t)
    BY <1>1, <1>6, <2>1, <2>2, <2>3 DEF IsCivil
  <2>5. YearDay(c.y, c.m, c.d + 1) = YearDay(c.y, c.m, c.d) + 1
    <3>1. c.d \in Int /\ c.d + 1 \in Int
      BY <1>1
    <3>2. \A m \in 1 .. 12 : YearDay(c.y, m, c.d + 1) = YearDay(c.y, m, c.d) + 1
      BY <3>1, SMT DEF YearDay
    <3> QED
      BY <1>1, <3>2
  <2>6. YearDay(c.y, c.m, c.d) \in Int
    BY CivilInYear
  <2> QED
    BY <1>3, <2>2, <2>4, <2>5, <2>6 DEF Ordinal
<1>7. CASE ~(c.d < LengthOf(c.y, c.m)) /\ c.m < 12
  <2>1. t = [y |-> c.y, m |-> c.m + 1, d |-> 1]
    BY <1>1, <1>7 DEF NextCivil
  <2>2. t.y = c.y /\ t.m = c.m + 1 /\ t.d = 1
    BY <2>1
  <2>3. LengthOf(c.y, c.m) \in 28 .. 31 /\ LengthOf(c.y, c.m + 1) \in 28 .. 31
    BY <1>1, <1>2, <1>5 DEF LengthOf
  <2>4. IsCivil(t)
    BY <1>1, <1>7, <2>1, <2>2, <2>3 DEF IsCivil
  <2>5. c.d = LengthOf(c.y, c.m)
    BY <1>1, <1>7, <2>3
  <2>6. YearDay(c.y, c.m + 1, 1) = YearDay(c.y, c.m, c.d) + 1
    <3>1. CASE c.m = 1
      BY <1>1, <1>2, <1>4, <1>5, <2>5, <3>1
    <3>2. CASE c.m = 2
      BY <1>1, <1>2, <1>4, <1>5, <2>5, <3>2
    <3>3. CASE c.m = 3
      BY <1>1, <1>2, <1>4, <1>5, <2>5, <3>3
    <3>4. CASE c.m \in {4, 6}
      BY <1>1, <1>2, <1>4, <1>5, <2>5, <3>4
    <3>5. CASE c.m \in {5, 7, 8}
      BY <1>1, <1>2, <1>4, <1>5, <2>5, <3>5
    <3>6. CASE c.m \in {9, 11}
      BY <1>1, <1>2, <1>4, <1>5, <2>5, <3>6
    <3>7. CASE c.m = 10
      BY <1>1, <1>2, <1>4, <1>5, <2>5, <3>7
    <3> QED
      BY <1>1, <1>7, <3>1, <3>2, <3>3, <3>4, <3>5, <3>6, <3>7
  <2>7. YearDay(c.y, c.m, c.d) \in Int
    BY CivilInYear
  <2> QED
    BY <1>3, <2>2, <2>4, <2>6, <2>7 DEF Ordinal
<1>8. CASE ~(c.d < LengthOf(c.y, c.m)) /\ ~(c.m < 12)
  <2>1. t = [y |-> c.y + 1, m |-> 1, d |-> 1] /\ c.m = 12
    BY <1>1, <1>8 DEF NextCivil
  <2>2. t.y = c.y + 1 /\ t.m = 1 /\ t.d = 1
    BY <2>1
  <2>3. LengthOf(c.y + 1, 1) = 31 /\ YearDay(c.y + 1, 1, 1) = 1
    BY <1>1, LengthOfIs, YearDayIs
  <2>4. IsCivil(t)
    BY <1>1, <2>1, <2>2, <2>3 DEF IsCivil
  <2>5. c.d = 31
    BY <1>1, <1>5, <1>8, <2>1
  <2>6. YearDay(c.y, c.m, c.d) = 365 + leap
    BY <1>2, <1>4, <2>1, <2>5
  <2> QED
    BY <1>2, <1>3, <2>2, <2>3, <2>4, <2>6 DEF Ordinal
<1> QED
  BY <1>6, <1>7, <1>8

\* Tomorrow is the Fasli new year when it is 21 March.
LEMMA FasliNewYear ==
    ASSUME NEW n \in Nat \ {0}, NEW t, IsCivil(t), Ordinal(t.y, t.m, t.d) = n + 1,
           NEW y \in Int, NewYearDay("fasli", y) <= n, n < NewYearDay("fasli", y + 1)
    PROVE  t.m = 3 /\ t.d = 21 <=> n + 1 = NewYearDay("fasli", y + 1)
<1>1. t.y \in Int /\ "fasli" \in System
  BY DEF IsCivil, System
<1>2. /\ DaysBefore(t.y) < n + 1 /\ n + 1 <= DaysBefore(t.y + 1)
      /\ n + 1 = CycleStart(t.y) <=> t.m = 3 /\ t.d = 21
  BY CivilInYear
<1>3. \A z \in Int : NewYearDay("fasli", z) = CycleStart(z + 630) /\ NewYearDay("fasli", z) \in Int
  <2> SUFFICES ASSUME NEW z \in Int
               PROVE  NewYearDay("fasli", z) = CycleStart(z + 630) /\ NewYearDay("fasli", z) \in Int
    OBVIOUS
  <2>1. z + 630 \in Int /\ z + 630 + 1 = z + 631
    OBVIOUS
  <2>2. CycleStart(z + 630) = DaysBefore(z + 631) - 285
    BY <2>1, CycleStartIs
  <2>3. NewYearDay("fasli", z) = DaysBefore(z + 631) - 285 /\ NewYearDay("fasli", z) \in Int
    BY <1>1, NewYearDayIs
  <2> QED
    BY <2>2, <2>3
<1>4. ASSUME t.m = 3, t.d = 21 PROVE n + 1 = NewYearDay("fasli", y + 1)
  <2> DEFINE z == t.y - 630
  <2>1. z \in Int /\ z + 630 = t.y
    BY <1>1
  <2>2. n + 1 = NewYearDay("fasli", z)
    BY <1>2, <1>3, <1>4, <2>1
  <2>3. ASSUME n + 1 < NewYearDay("fasli", y + 1) PROVE FALSE
    <3> HIDE DEF z
    <3>0. z + 1 \in Int
      BY <2>1
    <3>a. /\ NewYearDay("fasli", y) \in Int /\ NewYearDay("fasli", z) \in Int
          /\ NewYearDay("fasli", z + 1) \in Int
      BY <1>1, <2>1, <3>0, NewYearDayIs
    <3>b. MaxGatha("fasli", z) \in {5, 6}
          /\ NewYearDay("fasli", z + 1) = NewYearDay("fasli", z) + 360 + MaxGatha("fasli", z)
      BY <1>1, <2>1, YearIsLong
    <3>1. NewYearDay("fasli", y) \in Int /\ NewYearDay("fasli", z + 1) \in Int
          /\ NewYearDay("fasli", z) < NewYearDay("fasli", z + 1)
      BY <3>a, <3>b
    <3>2. NewYearDay("fasli", z) <= n + 1 /\ n + 1 < NewYearDay("fasli", z + 1)
          /\ NewYearDay("fasli", y) <= n + 1 /\ n + 1 \in Int
      BY <2>2, <3>1
    <3>3. z = y
      BY <1>1, <2>1, <2>3, <3>2, YearHas
    <3> QED
      BY <2>2, <3>1, <3>3
  <2>4. NewYearDay("fasli", y + 1) \in Int
    BY <1>1, NewYearDayIs
  <2> QED
    BY <2>3, <2>4
<1>5. ASSUME n + 1 = NewYearDay("fasli", y + 1) PROVE t.m = 3 /\ t.d = 21
  <2> DEFINE q == y + 631
  <2>1. q \in Int /\ y + 1 + 630 = q
    OBVIOUS
  <2>2. n + 1 = CycleStart(q)
    BY <1>3, <1>5, <2>1
  <2> HIDE DEF q
  <2>3. CycleStart(q) = DaysBefore(q + 1) - 285 /\ DaysBefore(q) + 365 <= DaysBefore(q + 1)
        /\ DaysBefore(q) \in Int /\ DaysBefore(q + 1) \in Int
    <3>1. DaysBefore(q) + 365 * (q + 1 - q) <= DaysBefore(q + 1)
      BY <2>1, YearsAtLeast
    <3> QED
      BY <2>1, <3>1, CycleStartIs, NextYearStarts
  <2>4. n + 1 \in Nat \ {0} /\ DaysBefore(q) < n + 1 /\ n + 1 <= DaysBefore(q + 1)
    BY <2>2, <2>3
  <2>5. YearOf(n + 1) = q
    BY <2>1, <2>4, YearOfOnly
  <2>6. YearOf(n + 1) = t.y
    BY <1>1, <1>2, <2>4, YearOfOnly
  <2> QED
    BY <1>2, <2>2, <2>5, <2>6
<1> QED
  BY <1>4, <1>5

\* The engine reads of the next day what counting on gives.
LEMMA NextParsiIs ==
    ASSUME NEW s \in System, NEW n \in Nat \ {0}, NEW t, IsCivil(t), Ordinal(t.y, t.m, t.d) = n + 1
    PROVE  NextParsi(s, GregorianToParsi(n, s), t) = GregorianToParsi(n + 1, s)
<1> DEFINE p == GregorianToParsi(n, s)
<1>1. PICK y \in Int, m \in 1 .. 13, r \in 1 .. 30 :
          /\ p = <<y, m, r>>
          /\ Exists(s, y, m, r) /\ ParsiToGregorian(y, s, m, r) = n
          /\ NewYearDay(s, y) <= n /\ n < NewYearDay(s, y + 1)
  BY DayHasDate
<1>2. /\ NewYearDay(s, y) \in Int /\ MaxGatha(s, y) \in {5, 6}
      /\ NewYearDay(s, y + 1) = NewYearDay(s, y) + 360 + MaxGatha(s, y)
      /\ s # "fasli" => MaxGatha(s, y) = 5
      /\ n = NewYearDay(s, y) + 30 * (m - 1) + r - 1
      /\ m = 13 => r <= MaxGatha(s, y)
  BY <1>1, NewYearDayIs, YearIsLong, PlaceInYear DEF Exists
<1>3. p[1] = y /\ p[2] = m /\ p[3] = r
  BY <1>1
<1>4. NewYear(s, p, t) <=> n + 1 = NewYearDay(s, y + 1)
  <2>1. CASE s = "fasli"
    BY <1>1, <2>1, FasliNewYear DEF NewYear
  <2>2. CASE s # "fasli"
    BY <1>2, <1>3, <2>2 DEF NewYear
  <2> QED
    BY <2>1, <2>2
<1> HIDE DEF p
<1>5. ASSUME NEW z \in Int, NEW k \in Int, NEW q \in Int,
             NextParsi(s, p, t) = <<z, k, q>>, Exists(s, z, k, q), ParsiToGregorian(z, s, k, q) = n + 1
      PROVE  NextParsi(s, p, t) = GregorianToParsi(n + 1, s)
  <2>1. n + 1 \in Nat \ {0}
    OBVIOUS
  <2> QED
    BY <1>5, <2>1, DateIsRead
<1>6. CASE n + 1 = NewYearDay(s, y + 1)
  <2>1. NextParsi(s, p, t) = <<y + 1, 1, 1>>
    BY <1>3, <1>4, <1>6 DEF NextParsi
  <2>2. Exists(s, y + 1, 1, 1)
    BY DEF Exists, DaysPerMonth
  <2>3. ParsiToGregorian(y + 1, s, 1, 1) = n + 1
    BY <1>6 DEF NewYearDay
  <2> QED
    BY <1>5, <2>1, <2>2, <2>3 DEF p
<1>7. CASE n + 1 # NewYearDay(s, y + 1) /\ m <= 12 /\ r = 30
  <2>1. NextParsi(s, p, t) = <<y, m + 1, 1>>
    BY <1>3, <1>4, <1>7 DEF NextParsi
  <2>2. Exists(s, y, m + 1, 1)
    BY <1>1, <1>2, <1>7 DEF Exists, DaysPerMonth
  <2>3. ParsiToGregorian(y, s, m + 1, 1) = n + 1
    <3>1. ParsiToGregorian(y, s, m + 1, 1) = NewYearDay(s, y) + 30 * (m + 1 - 1) + 1 - 1
      BY PlaceInYear
    <3> QED
      BY <1>2, <1>7, <3>1
  <2> QED
    BY <1>5, <2>1, <2>2, <2>3 DEF p
<1>8. CASE n + 1 # NewYearDay(s, y + 1) /\ ~(m <= 12 /\ r = 30)
  <2>1. NextParsi(s, p, t) = <<y, m, r + 1>>
    BY <1>3, <1>4, <1>8 DEF NextParsi
  <2>2. Exists(s, y, m, r + 1)
    BY <1>1, <1>2, <1>8 DEF Exists, DaysPerMonth
  <2>3. ParsiToGregorian(y, s, m, r + 1) = n + 1
    <3>1. ParsiToGregorian(y, s, m, r + 1) = NewYearDay(s, y) + 30 * (m - 1) + (r + 1) - 1
      BY PlaceInYear
    <3> QED
      BY <1>2, <3>1
  <2> QED
    BY <1>5, <2>1, <2>2, <2>3 DEF p
<1> QED
  BY <1>6, <1>7, <1>8 DEF p

-----------------------------------------------------------------------------
(***************************************************************************)
(* The next occurrence of a Roj and Mah.                                   *)
(***************************************************************************)

\* What Least picks.
LEMMA LeastIs ==
    ASSUME NEW S \in SUBSET Int, NEW x \in S, \A y \in S : x <= y
    PROVE  Least(S) = x
<1>1. \E z \in S : \A y \in S : z <= y
  OBVIOUS
<1>2. Least(S) \in S /\ \A y \in S : Least(S) <= y
  BY <1>1 DEF Least
<1>3. Least(S) \in Int /\ x \in Int /\ Least(S) <= x /\ x <= Least(S)
  BY <1>2
<1> QED
  BY <1>3

\* A date comes 365 or 366 days later each year.
LEMMA DatesSpan ==
    ASSUME NEW s \in System, NEW m \in Int, NEW r \in Int, NEW y \in Int, NEW z \in Int, y <= z
    PROVE  /\ ParsiToGregorian(y, s, m, r) + 365 * (z - y) <= ParsiToGregorian(z, s, m, r)
           /\ ParsiToGregorian(z, s, m, r) <= ParsiToGregorian(y, s, m, r) + 366 * (z - y)
<1>1. /\ NewYearDay(s, y) + 365 * (z - y) <= NewYearDay(s, z)
      /\ NewYearDay(s, z) <= NewYearDay(s, y) + 366 * (z - y)
      /\ NewYearDay(s, y) \in Int /\ NewYearDay(s, z) \in Int
  BY YearsSpan, NewYearDayIs
<1>2. /\ ParsiToGregorian(y, s, m, r) = NewYearDay(s, y) + 30 * (m - 1) + r - 1
      /\ ParsiToGregorian(z, s, m, r) = NewYearDay(s, z) + 30 * (m - 1) + r - 1
  BY PlaceInYear
<1> QED
  BY <1>1, <1>2, SMT

\* Of the years with the date, nearest_occurrence finds the first that is not over,
\* as long as it is scanned.
LEMMA NearestIs ==
    ASSUME NEW s \in System, NEW m \in Int, NEW r \in Int, NEW n \in Nat \ {0},
           NEW c \in Int, GregorianToParsi(n, s)[1] = c,
           NEW z \in c - 1 .. c + 5, Exists(s, z, m, r), ParsiToGregorian(z, s, m, r) >= n,
           \A w \in Int : Exists(s, w, m, r) /\ ParsiToGregorian(w, s, m, r) >= n => z <= w
    PROVE  NearestOccurrence(s, m, r, n) = ParsiToGregorian(z, s, m, r)
<1> DEFINE years == {y \in c - 1 .. c + 5 : Exists(s, y, m, r)}
           days == {ParsiToGregorian(y, s, m, r) : y \in years}
           ahead == {d \in days : d >= n}
<1>1. NearestOccurrence(s, m, r, n) = IF ahead = {} THEN NoDay ELSE Least(ahead)
  BY DEF NearestOccurrence, ScannedYears
<1>2. ParsiToGregorian(z, s, m, r) \in ahead
  OBVIOUS
<1>3. ASSUME NEW d \in ahead PROVE ParsiToGregorian(z, s, m, r) <= d /\ d \in Int
  <2>1. PICK y \in years : d = ParsiToGregorian(y, s, m, r)
    BY <1>3
  <2>2. y \in Int /\ z \in Int /\ z <= y
    BY <1>3, <2>1
  <2>3. ParsiToGregorian(z, s, m, r) + 365 * (y - z) <= ParsiToGregorian(y, s, m, r)
    BY <2>2, DatesSpan
  <2>4. ParsiToGregorian(z, s, m, r) \in Int /\ ParsiToGregorian(y, s, m, r) \in Int
    BY <2>2, PlaceInYear
  <2> QED
    BY <2>1, <2>2, <2>3, <2>4
<1> HIDE DEF ahead
<1>4. Least(ahead) = ParsiToGregorian(z, s, m, r)
  <2>1. ahead \in SUBSET Int
    BY <1>3
  <2> QED
    BY <1>2, <1>3, <2>1, LeastIs
<1> QED
  BY <1>1, <1>2, <1>4

\* A Roj and Mah that every year has: this year's, or the next one's.
LEMMA NearestOrdinary ==
    ASSUME NEW s \in System, NEW m \in Int, NEW r \in Int, NEW n \in Nat \ {0},
           \A y \in Int : Exists(s, y, m, r)
    PROVE  \E z \in Int :
               /\ NearestOccurrence(s, m, r, n) = ParsiToGregorian(z, s, m, r)
               /\ ParsiToGregorian(z, s, m, r) >= n
               /\ \A w \in Int : ParsiToGregorian(w, s, m, r) >= n => z <= w
<1>1. PICK c \in Int, k \in 1 .. 13, q \in 1 .. 30 :
          /\ GregorianToParsi(n, s) = <<c, k, q>>
          /\ Exists(s, c, k, q) /\ ParsiToGregorian(c, s, k, q) = n
          /\ NewYearDay(s, c) <= n /\ n < NewYearDay(s, c + 1)
  BY DayHasDate
<1>2. GregorianToParsi(n, s)[1] = c
  BY <1>1
<1> DEFINE T(y) == ParsiToGregorian(y, s, m, r)
<1>3. \A y \in Int : T(y) \in Int /\ NewYearDay(s, y) <= T(y) /\ T(y) < NewYearDay(s, y + 1)
                     /\ NewYearDay(s, y) \in Int /\ NewYearDay(s, y + 1) \in Int
  BY PlaceInYear, DateIsInYear, NewYearDayIs
<1>4. \A y, z \in Int : y <= z => T(y) + 365 * (z - y) <= T(z)
  BY DatesSpan
<1>5. c - 1 \in Int /\ c + 1 \in Int /\ c - 1 + 1 = c
  OBVIOUS
<1>6. T(c - 1) < n /\ T(c + 1) > n
  <2>1. T(c - 1) < NewYearDay(s, c - 1 + 1) /\ T(c - 1) \in Int
    BY <1>3, <1>5
  <2>2. NewYearDay(s, c + 1) <= T(c + 1) /\ T(c + 1) \in Int /\ NewYearDay(s, c + 1) \in Int
    BY <1>3, <1>5
  <2>3. NewYearDay(s, c) \in Int
    BY <1>3
  <2> HIDE DEF T
  <2> QED
    BY <1>1, <1>5, <2>1, <2>2, <2>3
<1>7. ASSUME NEW z \in c - 1 .. c + 5, T(z) >= n, T(z - 1) < n
      PROVE  /\ NearestOccurrence(s, m, r, n) = T(z) /\ T(z) >= n /\ z \in Int
             /\ \A w \in Int : T(w) >= n => z <= w
  <2>1. ASSUME NEW w \in Int, T(w) >= n, w < z PROVE FALSE
    <3>1. z - 1 \in Int /\ w <= z - 1
      BY <2>1
    <3>2. T(w) + 365 * (z - 1 - w) <= T(z - 1) /\ T(w) \in Int /\ T(z - 1) \in Int
      BY <1>3, <1>4, <3>1
    <3> HIDE DEF T
    <3> QED
      BY <1>7, <2>1, <3>1, <3>2
  <2>2. z \in Int
    OBVIOUS
  <2>3. \A w \in Int : T(w) >= n => z <= w
    BY <2>1, <2>2
  <2>4. \A w \in Int : Exists(s, w, m, r) /\ T(w) >= n => z <= w
    BY <2>3
  <2> QED
    BY <1>2, <1>7, <2>2, <2>3, <2>4, NearestIs
<1>8. CASE T(c) >= n
  <2>1. c \in c - 1 .. c + 5
    OBVIOUS
  <2> HIDE DEF T
  <2>2. /\ NearestOccurrence(s, m, r, n) = T(c) /\ T(c) >= n
        /\ \A w \in Int : T(w) >= n => c <= w
    BY <1>6, <1>7, <1>8, <2>1
  <2> QED
    BY <2>2 DEF T
<1>9. CASE ~(T(c) >= n)
  <2>1. c + 1 \in c - 1 .. c + 5 /\ c + 1 - 1 = c /\ c + 1 \in Int
    OBVIOUS
  <2>2. T(c) < n /\ T(c + 1) >= n
    <3>1. T(c) \in Int /\ T(c + 1) \in Int
      BY <1>3, <2>1
    <3> HIDE DEF T
    <3> QED
      BY <1>6, <1>9, <3>1
  <2> HIDE DEF T
  <2>3. /\ NearestOccurrence(s, m, r, n) = T(c + 1) /\ T(c + 1) >= n
        /\ \A w \in Int : T(w) >= n => c + 1 <= w
    BY <1>7, <2>1, <2>2
  <2> QED
    BY <2>1, <2>3 DEF T
<1> QED
  BY <1>8, <1>9

\* Today's, or what it is tomorrow.
LEMMA OrdinaryNotPassedOver ==
    ASSUME NEW s \in System, NEW m \in Int, NEW r \in Int, NEW n \in Nat \ {0},
           \A y \in Int : Exists(s, y, m, r)
    PROVE  NearestOccurrence(s, m, r, n) =
               IF <<GregorianToParsi(n, s)[2], GregorianToParsi(n, s)[3]>> = <<m, r>> THEN n
               ELSE NearestOccurrence(s, m, r, n + 1)
<1> DEFINE T(y) == ParsiToGregorian(y, s, m, r)
<1>1. PICK z \in Int : /\ NearestOccurrence(s, m, r, n) = T(z) /\ T(z) >= n
                       /\ \A w \in Int : T(w) >= n => z <= w
  BY NearestOrdinary
<1>2. n + 1 \in Nat \ {0}
  OBVIOUS
<1>3. PICK x \in Int : /\ NearestOccurrence(s, m, r, n + 1) = T(x) /\ T(x) >= n + 1
                       /\ \A w \in Int : T(w) >= n + 1 => x <= w
  BY <1>2, NearestOrdinary
<1>4. \A y \in Int : T(y) \in Int
  BY PlaceInYear
<1>5. PICK y \in Int, k \in 1 .. 13, q \in 1 .. 30 :
          /\ GregorianToParsi(n, s) = <<y, k, q>>
          /\ Exists(s, y, k, q) /\ ParsiToGregorian(y, s, k, q) = n
          /\ NewYearDay(s, y) <= n /\ n < NewYearDay(s, y + 1)
  BY DayHasDate
<1>6. CASE <<GregorianToParsi(n, s)[2], GregorianToParsi(n, s)[3]>> = <<m, r>>
  <2>1. k = m /\ q = r
    BY <1>5, <1>6
  <2>2. T(y) = n
    BY <1>5, <2>1
  <2>3. z <= y /\ T(z) + 365 * (y - z) <= T(y)
    <3>1. z <= y
      <4> HIDE DEF T
      <4> QED
        BY <1>1, <2>2
    <3> QED
      BY <3>1, DatesSpan
  <2>4. T(z) = n
    <3> HIDE DEF T
    <3> QED
      BY <1>1, <1>4, <2>2, <2>3
  <2> QED
    BY <1>1, <1>6, <2>4
<1>7. CASE <<GregorianToParsi(n, s)[2], GregorianToParsi(n, s)[3]>> # <<m, r>>
  <2>1. T(z) # n
    <3> SUFFICES ASSUME T(z) = n PROVE FALSE
      OBVIOUS
    <3>1. GregorianToParsi(n, s) = <<z, m, r>>
      BY DateIsRead
    <3> QED
      BY <1>7, <3>1
  <2>2. z = x
    <3>1. T(z) \in Int /\ T(x) \in Int
      BY <1>4
    <3> HIDE DEF T
    <3>2. T(z) >= n + 1 /\ T(x) >= n
      BY <1>1, <1>3, <2>1, <3>1
    <3>3. x <= z /\ z <= x
      BY <1>1, <1>3, <3>2
    <3> QED
      BY <3>3
  <2> QED
    BY <1>1, <1>3, <1>7, <2>2
<1> QED
  BY <1>6, <1>7

\* Up to 2096 there is a leap year within four.
LEMMA LeapSoon ==
    ASSUME NEW q \in 1901 .. 2096 PROVE \E x \in q .. q + 3 : IsLeap(x)
<1> DEFINE x == 4 * ((q + 3) \div 4)
<1>1. x \in q .. q + 3 /\ x % 4 = 0 /\ x <= 2096
  BY SMT
<1>2. x % 100 # 0 \/ x % 400 = 0
  <2> HIDE DEF x
  <2>1. x \in 1901 .. 2096
    BY <1>1, SMT
  <2> QED
    BY <2>1, SMT
<1> HIDE DEF x
<1> QED
  BY <1>1, <1>2 DEF IsLeap

\* The sixth Gatha day of the first leap year that is not over.
LEMMA NearestSixth ==
    ASSUME NEW n \in Nat \ {0}, NEW c \in Int,
           NewYearDay("fasli", c) <= n, n < NewYearDay("fasli", c + 1),
           NEW z \in c .. c + 5, Exists("fasli", z, 13, 6),
           \A w \in c .. z - 1 : ~Exists("fasli", w, 13, 6)
    PROVE  NearestOccurrence("fasli", 13, 6, n) = ParsiToGregorian(z, "fasli", 13, 6)
<1>1. "fasli" \in System
  BY DEF System
<1>2. GregorianToParsi(n, "fasli")[1] = c
  <2>1. PICK y \in Int, k \in 1 .. 13, q \in 1 .. 30 :
          /\ GregorianToParsi(n, "fasli") = <<y, k, q>>
          /\ Exists("fasli", y, k, q) /\ ParsiToGregorian(y, "fasli", k, q) = n
          /\ NewYearDay("fasli", y) <= n /\ n < NewYearDay("fasli", y + 1)
    BY <1>1, DayHasDate
  <2>2. y = c
    BY <1>1, <2>1, YearHas
  <2> QED
    BY <2>1, <2>2
<1>3. \A w \in Int :
          Exists("fasli", w, 13, 6) =>
              ParsiToGregorian(w, "fasli", 13, 6) = NewYearDay("fasli", w + 1) - 1
  <2> SUFFICES ASSUME NEW w \in Int, Exists("fasli", w, 13, 6)
               PROVE  ParsiToGregorian(w, "fasli", 13, 6) = NewYearDay("fasli", w + 1) - 1
    OBVIOUS
  <2>1. MaxGatha("fasli", w) = 6
    <3>1. MaxGatha("fasli", w) \in {5, 6} /\ 6 \in 1 .. MaxGatha("fasli", w)
      BY <1>1, YearIsLong DEF Exists
    <3> QED
      BY <3>1
  <2>2. NewYearDay("fasli", w + 1) = NewYearDay("fasli", w) + 360 + MaxGatha("fasli", w)
        /\ NewYearDay("fasli", w) \in Int
    BY <1>1, YearIsLong, NewYearDayIs
  <2>3. ParsiToGregorian(w, "fasli", 13, 6) = NewYearDay("fasli", w) + 30 * (13 - 1) + 6 - 1
    BY <1>1, PlaceInYear
  <2> QED
    BY <2>1, <2>2, <2>3
<1>4. \A w \in Int : NewYearDay("fasli", w) \in Int
  BY <1>1, NewYearDayIs
<1>5. z \in Int /\ z + 1 \in Int /\ c + 1 \in Int /\ c + 1 <= z + 1 /\ z + 1 - (c + 1) >= 0
  OBVIOUS
<1>6. ParsiToGregorian(z, "fasli", 13, 6) >= n
  <2>1. NewYearDay("fasli", c + 1) + 365 * (z + 1 - (c + 1)) <= NewYearDay("fasli", z + 1)
    BY <1>1, <1>5, YearsSpan
  <2>2. ParsiToGregorian(z, "fasli", 13, 6) = NewYearDay("fasli", z + 1) - 1
    BY <1>3, <1>5
  <2>3. NewYearDay("fasli", c + 1) \in Int /\ NewYearDay("fasli", z + 1) \in Int
    BY <1>4, <1>5
  <2> QED
    BY <1>5, <2>1, <2>2, <2>3
<1>7. ASSUME NEW w \in Int, Exists("fasli", w, 13, 6), ParsiToGregorian(w, "fasli", 13, 6) >= n
      PROVE  z <= w
  <2>1. ASSUME w < c PROVE FALSE
    <3>1. w + 1 \in Int /\ w + 1 <= c /\ c - (w + 1) >= 0
      BY <2>1
    <3>2. NewYearDay("fasli", w + 1) + 365 * (c - (w + 1)) <= NewYearDay("fasli", c)
      BY <1>1, <3>1, YearsSpan
    <3>3. ParsiToGregorian(w, "fasli", 13, 6) = NewYearDay("fasli", w + 1) - 1
      BY <1>3, <1>7
    <3>4. NewYearDay("fasli", c) \in Int /\ NewYearDay("fasli", w + 1) \in Int
      BY <1>4, <3>1
    <3> QED
      BY <1>7, <3>1, <3>2, <3>3, <3>4
  <2> QED
    BY <1>5, <1>7, <2>1
<1>8. z \in c - 1 .. c + 5
  OBVIOUS
<1> QED
  BY <1>1, <1>2, <1>6, <1>7, <1>8, NearestIs

\* The Fasli year of a day between the one and the other.
LEMMA SixthNotPassedOver ==
    ASSUME NEW n \in Nat \ {0}, NEW c \in Int, c + 631 \in 1901 .. 2096,
           NewYearDay("fasli", c) <= n, n < NewYearDay("fasli", c + 1)
    PROVE  NearestOccurrence("fasli", 13, 6, n) =
               IF <<GregorianToParsi(n, "fasli")[2], GregorianToParsi(n, "fasli")[3]>> = <<13, 6>> THEN n
               ELSE NearestOccurrence("fasli", 13, 6, n + 1)
<1>1. "fasli" \in System
  BY DEF System
<1> DEFINE Has(y) == Exists("fasli", y, 13, 6)
<1>2. \A y \in Int : Has(y) <=> IsLeap(y + 631)
  <2> SUFFICES ASSUME NEW y \in Int PROVE Has(y) <=> IsLeap(y + 631)
    OBVIOUS
  <2>1. MaxGatha("fasli", y) = IF IsLeap(y + 631) THEN 6 ELSE 5
    BY <1>1, YearIsLong
  <2> QED
    BY <2>1 DEF Exists
<1>3. \E z \in c .. c + 3 : Has(z) /\ \A w \in c .. z - 1 : ~Has(w)
  <2>1. PICK x \in c + 631 .. c + 631 + 3 : IsLeap(x)
    BY LeapSoon
  <2>2. x - 631 \in c .. c + 3 /\ x - 631 + 631 = x
    BY <2>1
  <2>3. Has(x - 631)
    BY <1>2, <2>1, <2>2
  <2> HIDE DEF Has
  <2>4. CASE Has(c)
    BY <2>4
  <2>5. CASE ~Has(c) /\ Has(c + 1)
    BY <2>5
  <2>6. CASE ~Has(c) /\ ~Has(c + 1) /\ Has(c + 2)
    BY <2>6
  <2>7. CASE ~Has(c) /\ ~Has(c + 1) /\ ~Has(c + 2)
    <3>1. x - 631 = c + 3 /\ c + 3 \in c .. c + 3
      BY <2>2, <2>3, <2>7
    <3>2. \A w \in c .. c + 3 - 1 : w = c \/ w = c + 1 \/ w = c + 2
      OBVIOUS
    <3> QED
      BY <2>3, <2>7, <3>1, <3>2
  <2> QED
    BY <2>4, <2>5, <2>6, <2>7
<1>4. PICK z \in c .. c + 3 : Has(z) /\ \A w \in c .. z - 1 : ~Has(w)
  BY <1>3
<1>5. NearestOccurrence("fasli", 13, 6, n) = ParsiToGregorian(z, "fasli", 13, 6)
  BY <1>4, NearestSixth
<1>6. PICK y \in Int, k \in 1 .. 13, q \in 1 .. 30 :
          /\ GregorianToParsi(n, "fasli") = <<y, k, q>>
          /\ Exists("fasli", y, k, q) /\ ParsiToGregorian(y, "fasli", k, q) = n
          /\ NewYearDay("fasli", y) <= n /\ n < NewYearDay("fasli", y + 1)
  BY <1>1, DayHasDate
<1>7. y = c
  BY <1>1, <1>6, YearHas
<1>8. /\ NewYearDay("fasli", c) \in Int /\ MaxGatha("fasli", c) = (IF Has(c) THEN 6 ELSE 5)
      /\ NewYearDay("fasli", c + 1) = NewYearDay("fasli", c) + 360 + MaxGatha("fasli", c)
      /\ n = NewYearDay("fasli", c) + 30 * (k - 1) + q - 1
      /\ k = 13 => q <= MaxGatha("fasli", c)
  BY <1>1, <1>2, <1>6, <1>7, NewYearDayIs, YearIsLong, PlaceInYear, SMTT(30) DEF Exists
<1>9. CASE k = 13 /\ q = 6
  <2>1. Has(c)
    BY <1>6, <1>7, <1>9
  <2>2. z = c
    BY <1>4, <2>1
  <2> QED
    BY <1>5, <1>6, <1>7, <1>9, <2>2
<1>10. CASE ~(k = 13 /\ q = 6)
  <2>1. n + 1 \in Nat \ {0}
    OBVIOUS
  <2>2. NearestOccurrence("fasli", 13, 6, n + 1) = ParsiToGregorian(z, "fasli", 13, 6)
    <3>1. CASE n + 1 < NewYearDay("fasli", c + 1)
      <4>1. NewYearDay("fasli", c) <= n + 1 /\ z \in c .. c + 5
        BY <1>8
      <4> QED
        BY <1>4, <2>1, <3>1, <4>1, NearestSixth
    <3>2. CASE ~(n + 1 < NewYearDay("fasli", c + 1))
      <4> HIDE DEF Has
      <4>1. n + 1 = NewYearDay("fasli", c + 1) /\ ~Has(c)
        BY <1>8, <1>10, <3>2
      <4>2. c + 1 \in Int /\ z \in c + 1 .. c + 1 + 5 /\ \A w \in c + 1 .. z - 1 : ~Has(w)
        BY <1>4, <4>1
      <4>3. NewYearDay("fasli", c + 1) < NewYearDay("fasli", c + 1 + 1)
        <5>1. MaxGatha("fasli", c + 1) \in {5, 6} /\ NewYearDay("fasli", c + 1) \in Int
              /\ NewYearDay("fasli", c + 1 + 1) = NewYearDay("fasli", c + 1) + 360 + MaxGatha("fasli", c + 1)
          BY <1>1, <4>2, NewYearDayIs, YearIsLong
        <5> QED
          BY <5>1
      <4>4. NewYearDay("fasli", c + 1) <= n + 1 /\ n + 1 < NewYearDay("fasli", c + 1 + 1)
        BY <4>1, <4>3
      <4> QED
        BY <1>4, <2>1, <4>2, <4>4, NearestSixth DEF Has
    <3> QED
      BY <3>1, <3>2
  <2>3. <<GregorianToParsi(n, "fasli")[2], GregorianToParsi(n, "fasli")[3]>> # <<13, 6>>
    BY <1>6, <1>10
  <2> QED
    BY <1>5, <2>2, <2>3
<1> QED
  BY <1>9, <1>10

\* Where no year has the date, none is found.
LEMMA NeverFound ==
    ASSUME NEW s, NEW m, NEW r, NEW n, \A y \in Int : ~Exists(s, y, m, r),
           GregorianToParsi(n, s)[1] \in Int
    PROVE  NearestOccurrence(s, m, r, n) = NoDay
<1> DEFINE years == {y \in ScannedYears(GregorianToParsi(n, s)[1]) : Exists(s, y, m, r)}
           days == {ParsiToGregorian(y, s, m, r) : y \in years}
           ahead == {d \in days : d >= n}
<1>1. years = {}
  BY DEF ScannedYears
<1>2. ahead = {}
  BY <1>1
<1>3. NearestOccurrence(s, m, r, n) = IF ahead = {} THEN NoDay ELSE Least(ahead)
  BY DEF NearestOccurrence
<1> QED
  BY <1>2, <1>3

-----------------------------------------------------------------------------
(***************************************************************************)
(* The new year of a Gregorian year, and the walk.                         *)
(***************************************************************************)

\* A Fasli new year is in its Gregorian year.
LEMMA CycleStartInYear ==
    ASSUME NEW q \in Int
    PROVE  DaysBefore(q) < CycleStart(q) /\ CycleStart(q) <= DaysBefore(q + 1)
<1>1. CycleStart(q) = DaysBefore(q + 1) - 285 /\ DaysBefore(q) \in Int /\ DaysBefore(q + 1) \in Int
  BY CycleStartIs, NextYearStarts
<1>2. DaysBefore(q) + 365 * (q + 1 - q) <= DaysBefore(q + 1)
  BY YearsAtLeast
<1> QED
  BY <1>1, <1>2

\* The Parsi year that begins in a Gregorian year is near the guess, and no earlier
\* one begins in it.
LEMMA NavrozeNear ==
    ASSUME NEW s \in System, s # "fasli", NEW q \in Int, NEW y \in Int, 1999 <= q, q <= 7300,
           DaysBefore(q) < NewYearDay(s, y), NewYearDay(s, y) <= DaysBefore(q) + 365
    PROVE  /\ NewYearDay(s, y) \in Nat \ {0} /\ YearOf(NewYearDay(s, y)) = q
           /\ y - (q - 630) \in -3 .. 3
           /\ \A o \in -3 .. 3 : YearOf(NewYearDay(s, q - 630 + o)) = q => y - (q - 630) <= o
<1> DEFINE n == NewYearDay(s, y)
<1>0. n \in Int /\ DaysBefore(q) < n /\ n <= DaysBefore(q) + 365
  BY NewYearDayIs
<1>1. q \in Int /\ q >= 1999 /\ q <= 7300
  OBVIOUS
<1>2. DaysBefore(q) \in Int /\ DaysBefore(q + 1) \in Int /\ DaysBefore(q) + 365 <= DaysBefore(q + 1)
  BY <1>1, NextYearStarts
<1>3. /\ 146097 * (q - 1) - 699 <= 400 * DaysBefore(q)
      /\ 400 * DaysBefore(q) <= 146097 * (q - 1) + 396
  BY <1>1, YearsAverage, SMT
<1>4. DaysBefore(q) >= 3000
  BY <1>1, <1>2, <1>3, SMT
<1> HIDE DEF n
<1>5. n \in Nat \ {0}
  BY <1>0, <1>2, <1>4
<1>6. YearOf(n) = q
  BY <1>0, <1>1, <1>2, <1>5, YearOfOnly
<1>7. y - (q - 630) \in -3 .. 3
  <2>1. \/ NewYearDay(s, y) = AnchorNavroze + 365 * (y - 1395)
        \/ NewYearDay(s, y) = AnchorNavroze + 365 * (y - 1395) - 30
    <3>1. s = "shenshai" \/ s = "kadmi"
      BY DEF System
    <3> QED
      BY <3>1, NewYearDayIs
  <2>2. \/ n = 739478 + 365 * (y - 1395)
        \/ n = 739478 + 365 * (y - 1395) - 30
    BY <2>1, SMT DEF AnchorNavroze, n
  <2>3. 365 * (y - (q - 630)) < 365 * 4 /\ 365 * (-4) < 365 * (y - (q - 630))
    BY <1>0, <1>1, <1>2, <1>3, <2>2, SMTT(30)
  <2> QED
    BY <1>1, <2>3
<1>8. ASSUME NEW o \in -3 .. 3, YearOf(NewYearDay(s, q - 630 + o)) = q, o < y - (q - 630)
      PROVE  FALSE
  <2> DEFINE w == q - 630 + o
  <2>1. w \in Int /\ w <= y /\ 1 <= y - w /\ y - w <= 6
    BY <1>1, <1>7, <1>8
  <2>2. YearOf(NewYearDay(s, w)) = q
    BY <1>8
  <2> HIDE DEF w
  <2>3. /\ NewYearDay(s, w) + 365 * (y - w) <= NewYearDay(s, y)
        /\ NewYearDay(s, y) <= NewYearDay(s, w) + 366 * (y - w)
        /\ NewYearDay(s, w) \in Int
    <3>1. y \in Int /\ s \in System
      OBVIOUS
    <3> QED
      BY ONLY <2>1, <3>1, YearsSpan, NewYearDayIs
  <2>4. NewYearDay(s, w) <= DaysBefore(q)
    BY <1>0, <1>2, <2>1, <2>3, SMT DEF n
  <2>5. NewYearDay(s, w) \in Nat \ {0}
    BY <1>0, <1>2, <1>4, <2>1, <2>3, SMT DEF n
  <2>6. DaysBefore(q) < NewYearDay(s, w)
    BY <2>2, <2>5, YearOfIs
  <2> QED
    BY <1>2, <2>3, <2>4, <2>6, SMT
<1>9. \A o \in -3 .. 3 : YearOf(NewYearDay(s, q - 630 + o)) = q => y - (q - 630) <= o
  BY <1>1, <1>7, <1>8
<1> QED
  BY <1>5, <1>6, <1>7, <1>9 DEF n

\* The new year of a Gregorian year, as get_navroze looks for it.
LEMMA NavrozeFound ==
    ASSUME NEW s \in System, s # "fasli", NEW q \in Int, NEW y \in Int, 1999 <= q, q <= 7300,
           DaysBefore(q) < NewYearDay(s, y), NewYearDay(s, y) <= DaysBefore(q) + 365
    PROVE  GetNavroze(q, s) = NewYearDay(s, y)
<1> DEFINE k == y - (q - 630)
<1>1. GetNavroze(q, s) = IF Offsets(q, s) = {} THEN NoDay
                         ELSE ParsiToGregorian(q - EraOffset + Least(Offsets(q, s)), s, 1, 1)
  BY DEF GetNavroze
<1>2. Offsets(q, s) = {o \in -3 .. 3 : YearOf(NewYearDay(s, q - 630 + o)) = q}
  BY DEF Offsets, NewYearDay, EraOffset
<1>3. YearOf(NewYearDay(s, y)) = q /\ k \in -3 .. 3
      /\ \A o \in -3 .. 3 : YearOf(NewYearDay(s, q - 630 + o)) = q => k <= o
  <2>1. YearOf(NewYearDay(s, y)) = q /\ k \in -3 .. 3
    BY NavrozeNear
  <2>2. ASSUME NEW o \in -3 .. 3, YearOf(NewYearDay(s, q - 630 + o)) = q PROVE k <= o
    BY <2>2, NavrozeNear
  <2> QED
    BY <2>1, <2>2
<1>4. q - 630 + k = y
  OBVIOUS
<1> HIDE DEF k
<1>5. k \in Offsets(q, s)
  BY <1>2, <1>3, <1>4
<1>6. \A o \in Offsets(q, s) : k <= o
  BY <1>2, <1>3
<1>7. Offsets(q, s) \in SUBSET Int
  BY <1>2, SMT
<1>8. Least(Offsets(q, s)) = k
  BY <1>5, <1>6, <1>7, LeastIs
<1>9. ParsiToGregorian(q - EraOffset + k, s, 1, 1) = NewYearDay(s, y)
  BY <1>4 DEF EraOffset, NewYearDay
<1> QED
  BY <1>1, <1>5, <1>8, <1>9

-----------------------------------------------------------------------------
(***************************************************************************)
(* The walk.                                                               *)
(***************************************************************************)
\* The day that the count begins on.
Beginning == 729988

\* The engine reads of today what has been counted.
WalkInv ==
    /\ day \in Nat /\ Beginning <= day
    /\ IsCivil(civil) /\ 1999 <= civil.y /\ Ordinal(civil.y, civil.m, civil.d) = day
    /\ \A s \in System : parsi[s] = GregorianToParsi(day, s)

\* So it is on the first day,
LEMMA WalkBegins == ASSUME WalkInit PROVE WalkInv
<1>1. day = Beginning /\ civil = [y |-> 1999, m |-> 8, d |-> 22]
  BY DEF WalkInit, Beginning
<1>2. civil.y = 1999 /\ civil.m = 8 /\ civil.d = 22
  BY <1>1
<1>3. ~IsLeap(1999)
  BY SMT DEF IsLeap
<1>4. IsCivil(civil)
  BY <1>1, <1>2, SMT DEF IsCivil, LengthOf
<1>5. Ordinal(1999, 8, 22) = Beginning
  <2>1. YearDay(1999, 8, 22) = 234
    BY <1>3, YearDayIs, SMT
  <2>2. DaysBefore(1999) = Beginning - 234
    BY SMT DEF DaysBefore, Beginning
  <2>3. Beginning \in Int
    BY SMT DEF Beginning
  <2> QED
    BY <2>1, <2>2, <2>3, SMT DEF Ordinal
<1>6. /\ ParsiToGregorian(1369, "shenshai", 1, 1) = Beginning
      /\ ParsiToGregorian(1369, "kadmi", 2, 1) = Beginning
      /\ ParsiToGregorian(1369, "fasli", 6, 5) = Beginning
  <2>1. "shenshai" \in System /\ "kadmi" \in System /\ "fasli" \in System
    BY DEF System
  <2>2. /\ NewYearDay("shenshai", 1369) = AnchorNavroze + 365 * (1369 - 1395)
        /\ NewYearDay("kadmi", 1369) = AnchorNavroze + 365 * (1369 - 1395) - 30
        /\ NewYearDay("fasli", 1369) = DaysBefore(1369 + 631) - 285
    BY <2>1, NewYearDayIs, SMT
  <2>3. DaysBefore(2000) = 730119
    BY SMT DEF DaysBefore
  <2>4. /\ ParsiToGregorian(1369, "shenshai", 1, 1) = NewYearDay("shenshai", 1369) + 30 * (1 - 1) + 1 - 1
        /\ ParsiToGregorian(1369, "kadmi", 2, 1) = NewYearDay("kadmi", 1369) + 30 * (2 - 1) + 1 - 1
        /\ ParsiToGregorian(1369, "fasli", 6, 5) = NewYearDay("fasli", 1369) + 30 * (6 - 1) + 5 - 1
    BY <2>1, PlaceInYear, SMT
  <2> QED
    BY <2>2, <2>3, <2>4, SMT DEF AnchorNavroze, Beginning
<1>7. Beginning \in Nat \ {0}
  BY SMT DEF Beginning
<1>8. /\ GregorianToParsi(Beginning, "shenshai") = <<1369, 1, 1>>
      /\ GregorianToParsi(Beginning, "kadmi") = <<1369, 2, 1>>
      /\ GregorianToParsi(Beginning, "fasli") = <<1369, 6, 5>>
  <2>1. "shenshai" \in System /\ "kadmi" \in System /\ "fasli" \in System
    BY DEF System
  <2>2. \A s, m, r : m \in 1 .. 12 /\ r \in 1 .. 30 => Exists(s, 1369, m, r)
    BY DEF Exists, DaysPerMonth
  <2>3. Exists("shenshai", 1369, 1, 1) /\ Exists("kadmi", 1369, 2, 1) /\ Exists("fasli", 1369, 6, 5)
    BY <2>2
  <2> QED
    BY <1>6, <1>7, <2>1, <2>3, DateIsRead, SMT
<1>9. \A s \in System : parsi[s] = GregorianToParsi(day, s)
  <2>1. parsi = [shenshai |-> <<1369, 1, 1>>, kadmi |-> <<1369, 2, 1>>, fasli |-> <<1369, 6, 5>>]
    BY DEF WalkInit
  <2>2. /\ parsi["shenshai"] = <<1369, 1, 1>> /\ parsi["kadmi"] = <<1369, 2, 1>>
        /\ parsi["fasli"] = <<1369, 6, 5>>
    BY ONLY <2>1
  <2> QED
    BY <1>1, <1>8, <2>2, SMT DEF System
<1> QED
  BY <1>1, <1>2, <1>4, <1>5, <1>7, <1>9, SMT DEF WalkInv

\* and the day after.
LEMMA WalkGoesOn == ASSUME WalkInv, Tomorrow PROVE WalkInv'
<1>1. day' = day + 1 /\ civil' = NextCivil(civil)
      /\ parsi' = [s \in System |-> NextParsi(s, parsi[s], NextCivil(civil))]
  BY DEF Tomorrow
<1>2. day \in Nat /\ Beginning <= day /\ Beginning \in Nat \ {0}
  BY SMT DEF WalkInv, Beginning
<1>3. day \in Nat \ {0} /\ day + 1 \in Nat /\ Beginning <= day + 1
  BY <1>2
<1>4. IsCivil(civil') /\ Ordinal(civil'.y, civil'.m, civil'.d) = day + 1
  BY <1>1, NextCivilIs DEF WalkInv
<1>5. 1999 <= civil'.y
  <2>1. civil.y \in Int /\ 1999 <= civil.y /\ civil \in [y : Int, m : 1 .. 12, d : 1 .. 31]
    BY DEF WalkInv, IsCivil
  <2>2. civil'.y = civil.y \/ civil'.y = civil.y + 1
    BY <1>1, <2>1 DEF NextCivil
  <2> QED
    BY <2>1, <2>2
<1>6. \A s \in System : NextParsi(s, parsi[s], NextCivil(civil)) = GregorianToParsi(day + 1, s)
  <2> SUFFICES ASSUME NEW s \in System
               PROVE  NextParsi(s, parsi[s], NextCivil(civil)) = GregorianToParsi(day + 1, s)
    OBVIOUS
  <2>1. parsi[s] = GregorianToParsi(day, s)
    BY DEF WalkInv
  <2>2. IsCivil(NextCivil(civil))
        /\ Ordinal(NextCivil(civil).y, NextCivil(civil).m, NextCivil(civil).d) = day + 1
    BY <1>1, <1>4
  <2> QED
    BY <1>3, <2>1, <2>2, NextParsiIs
<1>7. \A s \in System : parsi'[s] = GregorianToParsi(day', s)
  BY <1>1, <1>6
<1> QED
  BY <1>1, <1>3, <1>4, <1>5, <1>7 DEF WalkInv

\* The page of a month has the days of it that exist.
LEMMA PageIs ==
    ASSUME NEW s \in System, NEW n \in Nat \ {0}, NEW y \in Int, NEW m \in Int, NEW r \in Int,
           GregorianToParsi(n, s) = <<y, m, r>>, Exists(s, y, m, r), ParsiToGregorian(y, s, m, r) = n,
           NEW x \in Int, NEW k \in Int, NEW q \in Int,
           GregorianToParsi(n + 1, s) = <<x, k, q>>
    PROVE  n \in ParsiMonth(s, y, m) /\ (n + 1 \in ParsiMonth(s, y, m) <=> k = m)
<1>1. r \in 1 .. 30 /\ m \in 1 .. 13
  BY DateIsInYear
<1>2. n \in ParsiMonth(s, y, m)
  BY <1>1 DEF ParsiMonth, DaysPerMonth
<1>3. n + 1 \in Nat \ {0}
  OBVIOUS
<1>4. ASSUME n + 1 \in ParsiMonth(s, y, m) PROVE k = m
  <2>1. PICK p \in 1 .. 30 : Exists(s, y, m, p) /\ n + 1 = ParsiToGregorian(y, s, m, p)
    BY <1>4 DEF ParsiMonth, DaysPerMonth
  <2>2. GregorianToParsi(n + 1, s) = <<y, m, p>>
    BY <1>3, <2>1, DateIsRead
  <2> QED
    BY <2>2
<1>5. ASSUME k = m PROVE n + 1 \in ParsiMonth(s, y, m)
  <2>1. Exists(s, x, k, q) /\ ParsiToGregorian(x, s, k, q) = n + 1
    <3>1. PICK z \in Int, i \in 1 .. 13, j \in 1 .. 30 :
              /\ GregorianToParsi(n + 1, s) = <<z, i, j>>
              /\ Exists(s, z, i, j) /\ ParsiToGregorian(z, s, i, j) = n + 1
              /\ NewYearDay(s, z) <= n + 1 /\ n + 1 < NewYearDay(s, z + 1)
      BY <1>3, DayHasDate
    <3> QED
      BY <3>1
  <2>2. q \in 1 .. 30
    BY <2>1, DateIsInYear
  <2>3. /\ NewYearDay(s, y) \in Int /\ NewYearDay(s, x) \in Int
        /\ n = NewYearDay(s, y) + 30 * (m - 1) + r - 1
        /\ n + 1 = NewYearDay(s, x) + 30 * (m - 1) + q - 1
    BY <1>5, <2>1, NewYearDayIs, PlaceInYear
  <2>4. x = y
    <3>1. CASE x < y
      <4>1. NewYearDay(s, x) + 365 * (y - x) <= NewYearDay(s, y)
        BY <3>1, YearsSpan
      <4> QED
        BY <1>1, <2>2, <2>3, <3>1, <4>1
    <3>2. CASE y < x
      <4>1. NewYearDay(s, y) + 365 * (x - y) <= NewYearDay(s, x)
        BY <3>2, YearsSpan
      <4> QED
        BY <1>1, <2>2, <2>3, <3>2, <4>1
    <3> QED
      BY <3>1, <3>2
  <2> QED
    BY <1>5, <2>1, <2>2, <2>4 DEF ParsiMonth, DaysPerMonth
<1> QED
  BY <1>2, <1>4, <1>5

\* Every day's date is the counted one and leads back to the day, and to its page.
LEMMA DatesAreRead == ASSUME WalkInv PROVE DatesAgree
<1>1. day \in Nat \ {0} /\ Beginning <= day /\ Beginning \in Nat
  BY SMT DEF WalkInv, Beginning
<1>2. /\ IsCivil(civil) /\ Ordinal(civil.y, civil.m, civil.d) = day
      /\ civil.y \in Int /\ 1999 <= civil.y
  BY DEF WalkInv, IsCivil
<1>3. /\ DaysBefore(civil.y) < day /\ day <= DaysBefore(civil.y + 1)
      /\ YearDay(civil.y, civil.m, civil.d) \in Int /\ DaysBefore(civil.y) \in Int
      /\ day = DaysBefore(civil.y) + YearDay(civil.y, civil.m, civil.d)
  BY <1>2, CivilInYear, NextYearStarts DEF Ordinal
<1>4. YearOf(day) = civil.y
  BY <1>1, <1>2, <1>3, YearOfOnly
<1>5. ASSUME NEW s \in System
      PROVE  LET p == parsi[s] IN
                 /\ GregorianToParsi(day, s) = p
                 /\ Exists(s, p[1], p[2], p[3]) /\ ParsiToGregorian(p[1], s, p[2], p[3]) = day
                 /\ LET page == ParsiMonth(s, p[1], p[2]) IN
                        /\ day \in page
                        /\ day + 1 \in page <=> NextParsi(s, p, NextCivil(civil))[2] = p[2]
                 /\ p[2] = 1 /\ p[3] = 1 /\ NavrozeIsInReach => GetNavroze(civil.y, s) = day
  <2>1. PICK y \in Int, m \in 1 .. 13, r \in 1 .. 30 :
            /\ GregorianToParsi(day, s) = <<y, m, r>>
            /\ Exists(s, y, m, r) /\ ParsiToGregorian(y, s, m, r) = day
            /\ NewYearDay(s, y) <= day /\ day < NewYearDay(s, y + 1)
    BY <1>1, DayHasDate
  <2>2. parsi[s] = <<y, m, r>>
    BY <2>1 DEF WalkInv
  <2>3. PICK x \in Int, k \in 1 .. 13, q \in 1 .. 30 :
            /\ GregorianToParsi(day + 1, s) = <<x, k, q>>
            /\ Exists(s, x, k, q) /\ ParsiToGregorian(x, s, k, q) = day + 1
            /\ NewYearDay(s, x) <= day + 1 /\ day + 1 < NewYearDay(s, x + 1)
    <3>1. day + 1 \in Nat \ {0}
      BY <1>1
    <3> QED
      BY <3>1, DayHasDate
  <2>4. NextParsi(s, parsi[s], NextCivil(civil)) = <<x, k, q>>
    <3>1. /\ IsCivil(NextCivil(civil))
          /\ Ordinal(NextCivil(civil).y, NextCivil(civil).m, NextCivil(civil).d) = day + 1
      BY <1>2, NextCivilIs
    <3>2. NextParsi(s, GregorianToParsi(day, s), NextCivil(civil)) = GregorianToParsi(day + 1, s)
      BY <1>1, <3>1, NextParsiIs
    <3> QED
      BY <2>1, <2>2, <2>3, <3>2
  <2>5. /\ day \in ParsiMonth(s, y, m)
        /\ day + 1 \in ParsiMonth(s, y, m) <=> k = m
    <3>1. m \in Int /\ r \in Int /\ k \in Int /\ q \in Int
      OBVIOUS
    <3> QED
      BY ONLY <1>1, <2>1, <2>3, <3>1, PageIs
  <2>6. ASSUME m = 1, r = 1, NavrozeIsInReach PROVE GetNavroze(civil.y, s) = day
    <3>1. NewYearDay(s, y) = day
      BY <2>1, <2>6 DEF NewYearDay
    <3>2. CASE s = "fasli"
      <4>1. /\ NewYearDay(s, y) = DaysBefore(y + 631) - 285
            /\ CycleStart(y + 630) = DaysBefore(y + 631) - 285
        BY <3>2, NewYearDayIs, CycleStartIs
      <4>2. DaysBefore(y + 630) < day /\ day <= DaysBefore(y + 631)
        BY <3>1, <4>1, CycleStartInYear
      <4>3. YearOf(day) = y + 630
        BY <1>1, <4>2, YearOfOnly
      <4> QED
        BY <1>4, <3>1, <3>2, <4>1, <4>3 DEF GetNavroze
    <3>3. CASE s # "fasli"
      <4>1. civil.y <= 7300 /\ YearDay(civil.y, civil.m, civil.d) <= 365
        BY <2>6 DEF NavrozeIsInReach, YearLength
      <4>2. DaysBefore(civil.y) < NewYearDay(s, y) /\ NewYearDay(s, y) <= DaysBefore(civil.y) + 365
        BY <1>3, <3>1, <4>1
      <4> QED
        BY <1>2, <3>1, <3>3, <4>1, <4>2, NavrozeFound
    <3> QED
      BY <3>2, <3>3
  <2> QED
    BY <2>1, <2>2, <2>4, <2>5, <2>6
<1> QED
  BY <1>2, <1>4, <1>5 DEF DatesAgree

\* The next occurrence of each date asked for is found.
LEMMA NoneIsPassedOver == ASSUME WalkInv PROVE NothingPassedOver
<1>1. day \in Nat \ {0} /\ day + 1 \in Nat \ {0} /\ Beginning <= day
  BY SMT DEF WalkInv, Beginning
<1>2. ASSUME NEW s \in System, NEW a \in Asked
      PROVE  NearestOccurrence(s, a[1], a[2], day) =
                 IF <<parsi[s][2], parsi[s][3]>> = a THEN day
                 ELSE NearestOccurrence(s, a[1], a[2], day + 1)
  <2>1. parsi[s] = GregorianToParsi(day, s)
    BY DEF WalkInv
  <2>2. CASE a \in {<<1, 1>>, <<13, 5>>}
    <3>1. a = <<a[1], a[2]>> /\ a[1] \in Int /\ a[2] \in Int
      BY <2>2
    <3>2. \A y \in Int : Exists(s, y, a[1], a[2])
      BY <2>2, YearIsLong DEF Exists, DaysPerMonth
    <3>3. NearestOccurrence(s, a[1], a[2], day) =
              IF <<GregorianToParsi(day, s)[2], GregorianToParsi(day, s)[3]>> = <<a[1], a[2]>>
              THEN day ELSE NearestOccurrence(s, a[1], a[2], day + 1)
      BY <1>1, <3>1, <3>2, OrdinaryNotPassedOver
    <3> QED
      BY <2>1, <3>1, <3>3
  <2>3. CASE a = <<13, 6>> /\ day < CycleStart(2096)
    <3>1. a[1] = 13 /\ a[2] = 6
      BY <2>3
    <3>2. PICK y \in Int, m \in 1 .. 13, r \in 1 .. 30 :
              /\ GregorianToParsi(day, s) = <<y, m, r>>
              /\ Exists(s, y, m, r) /\ ParsiToGregorian(y, s, m, r) = day
              /\ NewYearDay(s, y) <= day /\ day < NewYearDay(s, y + 1)
      BY <1>1, DayHasDate
    <3>3. CASE s = "fasli"
      <4>1. CycleStart(2096) = DaysBefore(2097) - 285
            /\ NewYearDay(s, y) = DaysBefore(y + 631) - 285
            /\ NewYearDay(s, y + 1) = DaysBefore(y + 1 + 631) - 285
        BY <3>3, CycleStartIs, NewYearDayIs
      <4>2. /\ DaysBefore(y + 631) \in Int /\ DaysBefore(y + 1 + 631) \in Int /\ DaysBefore(2097) \in Int
            /\ DaysBefore(y + 631) - 285 <= day /\ day < DaysBefore(y + 1 + 631) - 285
            /\ day < DaysBefore(2097) - 285
        BY <2>3, <3>2, <4>1, NextYearStarts
      <4>3. y + 631 <= 2096
        <5> SUFFICES ASSUME 2097 <= y + 631 PROVE FALSE
          OBVIOUS
        <5>1. DaysBefore(2097) + 365 * (y + 631 - 2097) <= DaysBefore(y + 631)
          BY YearsAtLeast
        <5>2. DaysBefore(y + 631) < DaysBefore(2097)
          <6>1. DaysBefore(y + 1 + 631) \in Int /\ y + 1 + 631 = y + 631 + 1
            BY <4>2
          <6> QED
            BY <1>1, <4>2
        <5> QED
          BY <4>2, <5>1, <5>2
      <4>4. 1901 <= y + 631
        <5>1. 400 * DaysBefore(y + 1 + 631) <= 146097 * (y + 1 + 631 - 1) + 396
          BY YearsAverage, SMT
        <5> QED
          BY <1>1, <4>2, <5>1, SMT DEF Beginning
      <4>5. y + 631 \in 1901 .. 2096
        BY <4>3, <4>4
      <4>6. NearestOccurrence("fasli", 13, 6, day) =
                IF <<GregorianToParsi(day, "fasli")[2], GregorianToParsi(day, "fasli")[3]>> = <<13, 6>>
                THEN day ELSE NearestOccurrence("fasli", 13, 6, day + 1)
        BY <1>1, <3>2, <3>3, <4>5, SixthNotPassedOver
      <4> QED
        BY <2>1, <2>3, <3>1, <3>3, <4>6
    <3>4. CASE s # "fasli"
      <4>1. \A z \in Int : ~Exists(s, z, 13, 6)
        BY <3>4, YearIsLong DEF Exists
      <4>2. PICK x \in Int, k \in 1 .. 13, q \in 1 .. 30 :
                /\ GregorianToParsi(day + 1, s) = <<x, k, q>>
                /\ Exists(s, x, k, q) /\ ParsiToGregorian(x, s, k, q) = day + 1
                /\ NewYearDay(s, x) <= day + 1 /\ day + 1 < NewYearDay(s, x + 1)
        BY <1>1, DayHasDate
      <4>3. GregorianToParsi(day, s)[1] \in Int /\ GregorianToParsi(day + 1, s)[1] \in Int
        BY <3>2, <4>2
      <4>4. NearestOccurrence(s, 13, 6, day) = NoDay /\ NearestOccurrence(s, 13, 6, day + 1) = NoDay
        BY <4>1, <4>3, NeverFound
      <4>5. <<m, r>> # <<13, 6>>
        BY <3>2, <4>1
      <4>6. <<parsi[s][2], parsi[s][3]>> # a
        BY <2>1, <2>3, <3>2, <4>5
      <4> QED
        BY <3>1, <4>4, <4>6
    <3> QED
      BY <3>3, <3>4
  <2> QED
    BY <2>2, <2>3 DEF Asked
<1> QED
  BY <1>2 DEF NothingPassedOver

\* The engine's ways from dates to Parsi days and back agree with the count of the
\* days on every day of the walk, however long the walk is.
THEOREM CalendarAlwaysAgrees == Spec => []CalendarAgrees
<1>1. Init => WalkInv
  BY WalkBegins DEF Init
<1>2. WalkInv /\ [Next]_<<walkVars, ask>> => WalkInv'
  <2> SUFFICES ASSUME WalkInv, [Next]_<<walkVars, ask>> PROVE WalkInv'
    OBVIOUS
  <2>1. CASE Tomorrow
    BY <2>1, WalkGoesOn
  <2>2. CASE UNCHANGED walkVars
    BY <2>2 DEF WalkInv, walkVars
  <2> QED
    BY <2>1, <2>2 DEF Next
<1>3. WalkInv => CalendarAgrees
  BY DatesAreRead, NoneIsPassedOver DEF CalendarAgrees
<1> QED
  BY <1>1, <1>2, <1>3, PTL DEF Spec

-----------------------------------------------------------------------------
(***************************************************************************)
(* The day of death.                                                       *)
(***************************************************************************)

\* What Greatest picks.
LEMMA GreatestIs ==
    ASSUME NEW S \in SUBSET Int, NEW x \in S, \A y \in S : y <= x
    PROVE  Greatest(S) = x
<1>1. \A z \in S : (\A y \in S : y <= z) => z = x
  <2> SUFFICES ASSUME NEW z \in S, \A y \in S : y <= z PROVE z = x
    OBVIOUS
  <2>1. z <= x /\ x <= z /\ z \in Int /\ x \in Int
    OBVIOUS
  <2> QED
    BY <2>1
<1> QED
  BY <1>1 DEF Greatest

\* A death by Roj and Mah is put on the last such day that is not too late, which one
\* of the last three years has.
LEMMA LatestFound ==
    ASSUME NEW s \in System, NEW m \in Int, NEW r \in Int, NEW n \in Int, 3000 <= n,
           \A y \in Int : Exists(s, y, m, r), NEW longAgo \in BOOLEAN
    PROVE  \E z \in Int :
               /\ ResolveDeath(n, s, m, r, longAgo) = ParsiToGregorian(z, s, m, r)
               /\ ParsiToGregorian(z, s, m, r) \in Nat \ {0}
               /\ ParsiToGregorian(z, s, m, r) <= LatestFor(n, longAgo)
               /\ LatestFor(n, longAgo) < ParsiToGregorian(z + 1, s, m, r)
<1> DEFINE T(y) == ParsiToGregorian(y, s, m, r)
           latest == LatestFor(n, longAgo)
<1>1. latest \in Int /\ latest <= n /\ n - 361 <= latest
  BY DEF LatestFor, OldDeathDays
<1>2. PICK c \in Int, k \in 1 .. 13, q \in 1 .. 30 :
          /\ GregorianToParsi(n, s) = <<c, k, q>>
          /\ Exists(s, c, k, q) /\ ParsiToGregorian(c, s, k, q) = n
          /\ NewYearDay(s, c) <= n /\ n < NewYearDay(s, c + 1)
  <2>1. n \in Nat \ {0}
    OBVIOUS
  <2> QED
    BY <2>1, DayHasDate, SMTT(30)
<1>3. \A y \in Int : T(y) \in Int /\ NewYearDay(s, y) <= T(y) /\ T(y) < NewYearDay(s, y + 1)
  <2> TAKE y \in Int
  <2>1. Exists(s, y, m, r)
    OBVIOUS
  <2> QED
    BY <2>1, DateIsInYear, PlaceInYear
<1>4. \A y, z \in Int : y <= z => T(y) + 365 * (z - y) <= T(z)
  BY DatesSpan
<1>5. /\ NewYearDay(s, c) \in Int /\ NewYearDay(s, c - 1) \in Int /\ NewYearDay(s, c - 2) \in Int
      /\ NewYearDay(s, c + 1) \in Int
      /\ NewYearDay(s, c + 1) <= NewYearDay(s, c) + 366
      /\ NewYearDay(s, c - 1) + 365 <= NewYearDay(s, c)
      /\ NewYearDay(s, c) <= NewYearDay(s, c - 2) + 732
  <2>1. c - 1 \in Int /\ c - 2 \in Int /\ c + 1 \in Int /\ c - 2 <= c /\ c - 1 <= c /\ c <= c + 1
    BY <1>2
  <2>2. /\ NewYearDay(s, c + 1) <= NewYearDay(s, c) + 366 * (c + 1 - c)
        /\ NewYearDay(s, c - 1) + 365 * (c - (c - 1)) <= NewYearDay(s, c)
        /\ NewYearDay(s, c) <= NewYearDay(s, c - 2) + 366 * (c - (c - 2))
    <3>1. \A y, x \in Int : y <= x => /\ NewYearDay(s, y) + 365 * (x - y) <= NewYearDay(s, x)
                                   /\ NewYearDay(s, x) <= NewYearDay(s, y) + 366 * (x - y)
      BY YearsSpan
    <3>2. NewYearDay(s, c + 1) <= NewYearDay(s, c) + 366 * (c + 1 - c)
      BY ONLY <1>2, <2>1, <3>1
    <3>3. NewYearDay(s, c - 1) + 365 * (c - (c - 1)) <= NewYearDay(s, c)
      BY ONLY <1>2, <2>1, <3>1
    <3>4. NewYearDay(s, c) <= NewYearDay(s, c - 2) + 366 * (c - (c - 2))
      BY ONLY <1>2, <2>1, <3>1
    <3> QED
      BY <3>2, <3>3, <3>4
  <2> QED
    BY <1>2, <2>1, <2>2, NewYearDayIs
<1>6. T(c - 2) \in Int /\ T(c - 2) <= latest /\ T(c - 2) >= 1
  <2>1. c - 2 \in Int /\ c - 2 + 1 = c - 1
    BY <1>2
  <2>2. T(c - 2) \in Int /\ NewYearDay(s, c - 2) <= T(c - 2) /\ T(c - 2) < NewYearDay(s, c - 1)
    BY <1>3, <2>1
  <2> QED
    BY <1>1, <1>2, <1>5, <2>2
<1>7. T(c + 1) \in Int /\ latest < T(c + 1)
  <2>1. c + 1 \in Int
    BY <1>2
  <2>2. T(c + 1) \in Int /\ NewYearDay(s, c + 1) <= T(c + 1)
    BY <1>3, <2>1
  <2> QED
    BY <1>1, <1>2, <1>5, <2>2
<1>8. PICK z \in Int : z \in c - 2 .. c /\ T(z) <= latest /\ latest < T(z + 1)
  <2>1. /\ T(c - 1) \in Int /\ T(c) \in Int /\ c - 2 + 1 = c - 1 /\ c - 1 + 1 = c
        /\ c - 2 \in c - 2 .. c /\ c - 1 \in c - 2 .. c /\ c \in c - 2 .. c
        /\ c - 2 \in Int /\ c - 1 \in Int
    BY <1>2, <1>3
  <2> HIDE DEF T, latest
  <2>2. CASE T(c) <= latest
    BY <1>2, <1>7, <2>1, <2>2
  <2>3. CASE ~(T(c) <= latest) /\ T(c - 1) <= latest
    <3>1. T(c - 1) <= latest /\ latest < T(c - 1 + 1)
      BY <1>1, <2>1, <2>3
    <3> QED
      BY <2>1, <3>1
  <2>4. CASE ~(T(c) <= latest) /\ ~(T(c - 1) <= latest)
    <3>1. T(c - 2) <= latest /\ latest < T(c - 2 + 1)
      BY <1>1, <1>6, <2>1, <2>4
    <3> QED
      BY <2>1, <3>1
  <2> QED
    BY <2>2, <2>3, <2>4
<1> DEFINE years == {y \in YearsBack(n, s) : Exists(s, y, m, r)}
           days == {ParsiToGregorian(y, s, m, r) : y \in years}
           past == {d \in days : d <= LatestFor(n, longAgo)}
<1>9. years = c - 4 .. c
  BY <1>2 DEF YearsBack
<1>10. ResolveDeath(n, s, m, r, longAgo) = IF past = {} THEN NoDay ELSE Greatest(past)
  BY DEF ResolveDeath
<1>11. T(z) \in past
  <2>1. z \in years
    BY <1>2, <1>8, <1>9
  <2> QED
    BY <1>8, <2>1
<1>12. \A d \in past : d \in Int /\ d <= T(z)
  <2> SUFFICES ASSUME NEW d \in past PROVE d \in Int /\ d <= T(z)
    OBVIOUS
  <2>1. PICK y \in years : d = T(y)
    OBVIOUS
  <2>2. y \in Int /\ T(y) <= latest
    BY <1>9, <2>1
  <2>3. T(y) \in Int /\ T(z) \in Int /\ T(z + 1) \in Int /\ z + 1 \in Int
    BY <1>3, <1>8, <2>2
  <2>4. CASE y <= z
    <3>1. T(y) + 365 * (z - y) <= T(z)
      BY <1>4, <1>8, <2>2, <2>4
    <3> HIDE DEF T
    <3> QED
      BY <1>8, <2>1, <2>2, <2>3, <2>4, <3>1
  <2>5. CASE z + 1 <= y
    <3>1. T(z + 1) + 365 * (y - (z + 1)) <= T(y)
      BY <1>4, <1>8, <2>2, <2>3, <2>5
    <3> HIDE DEF T, latest
    <3> QED
      BY <1>1, <1>8, <2>1, <2>2, <2>3, <2>5, <3>1
  <2> QED
    BY <1>8, <2>2, <2>4, <2>5
<1>13. Greatest(past) = T(z)
  <2>1. past \in SUBSET Int
    BY <1>12
  <2>2. \A d \in past : d <= T(z)
    BY <1>12
  <2> HIDE DEF past, T, years, days, latest
  <2> QED
    BY ONLY <1>11, <2>1, <2>2, GreatestIs
<1>14. T(z) \in Nat \ {0}
  <2>1. c - 2 \in Int /\ c - 2 <= z /\ T(z) \in Int
    BY <1>2, <1>3, <1>8
  <2>2. T(c - 2) + 365 * (z - (c - 2)) <= T(z)
    BY <1>4, <1>8, <2>1
  <2> HIDE DEF T
  <2> QED
    BY <1>2, <1>6, <1>8, <2>1, <2>2
<1>15. ResolveDeath(n, s, m, r, longAgo) = T(z)
  <2> HIDE DEF past
  <2> QED
    BY <1>10, <1>11, <1>13
<1> WITNESS z \in Int
<1> QED
  BY <1>8, <1>14, <1>15

\* The day a death by Roj and Mah is put on is not too late, and the next such day is.
THEOREM ALaterDeathIsTooLate == Spec => []DeathIsTheLatest
<1>1. Init => WalkInv
  BY WalkBegins DEF Init
<1>2. WalkInv /\ [Next]_<<walkVars, ask>> => WalkInv'
  <2> SUFFICES ASSUME WalkInv, [Next]_<<walkVars, ask>> PROVE WalkInv'
    OBVIOUS
  <2>1. CASE Tomorrow
    BY <2>1, WalkGoesOn
  <2>2. CASE UNCHANGED walkVars
    BY <2>2 DEF WalkInv, walkVars
  <2> QED
    BY <2>1, <2>2 DEF Next
<1>3. ASSUME WalkInv PROVE DeathIsTheLatest
  <2>1. day \in Int /\ 3000 <= day
    BY <1>3, SMT DEF WalkInv, Beginning
  <2>2. ASSUME NEW s \in Offered, NEW a \in Asked \ {<<13, 6>>}, NEW longAgo \in BOOLEAN
        PROVE  LET found == ResolveDeath(day, s, a[1], a[2], longAgo)
               IN /\ found # NoDay /\ found <= LatestFor(day, longAgo)
                  /\ <<GregorianToParsi(found, s)[2], GregorianToParsi(found, s)[3]>> = a
                  /\ NearestOccurrence(s, a[1], a[2], found + 1) > LatestFor(day, longAgo)
    <3>1. s \in System
      BY DEF Offered
    <3>2. a \in {<<1, 1>>, <<13, 5>>}
      BY <2>2 DEF Asked
    <3>3. a = <<a[1], a[2]>> /\ a[1] \in Int /\ a[2] \in Int
      BY <3>2
    <3>4. \A y \in Int : Exists(s, y, a[1], a[2])
      BY <3>1, <3>2, YearIsLong DEF Exists, DaysPerMonth
    <3> DEFINE T(y) == ParsiToGregorian(y, s, a[1], a[2])
               latest == LatestFor(day, longAgo)
    <3>5. PICK z \in Int :
              /\ ResolveDeath(day, s, a[1], a[2], longAgo) = T(z)
              /\ T(z) \in Nat \ {0} /\ T(z) <= latest /\ latest < T(z + 1)
      BY <2>1, <3>1, <3>3, <3>4, LatestFound
    <3>6. GregorianToParsi(T(z), s) = <<z, a[1], a[2]>>
      BY <3>1, <3>3, <3>4, <3>5, DateIsRead
    <3>7. PICK x \in Int :
              /\ NearestOccurrence(s, a[1], a[2], T(z) + 1) = T(x)
              /\ T(x) >= T(z) + 1
              /\ \A w \in Int : T(w) >= T(z) + 1 => x <= w
      <4>1. T(z) + 1 \in Nat \ {0}
        BY <3>5
      <4> QED
        BY <3>1, <3>3, <3>4, <4>1, NearestOrdinary
    <3>8. T(x) > latest
      <4>1. \A y \in Int : T(y) \in Int
        BY <3>1, <3>3, PlaceInYear
      <4>2. \A y, w \in Int : y <= w => T(y) + 365 * (w - y) <= T(w)
        BY <3>1, <3>3, DatesSpan
      <4>3. latest \in Int
        BY <2>1 DEF LatestFor, OldDeathDays
      <4>4. T(z) \in Int /\ T(x) \in Int /\ T(z + 1) \in Int /\ z + 1 \in Int
        BY <4>1, <3>5, <3>7
      <4> HIDE DEF T, latest
      <4>5. CASE x <= z
        <5>1. T(x) + 365 * (z - x) <= T(z)
          BY <3>5, <3>7, <4>2, <4>5
        <5> QED
          BY <3>5, <3>7, <4>4, <4>5, <5>1
      <4>6. CASE z + 1 <= x
        <5>1. T(z + 1) + 365 * (x - (z + 1)) <= T(x)
          BY <3>5, <3>7, <4>2, <4>4, <4>6
        <5> QED
          BY <3>5, <3>7, <4>3, <4>4, <4>6, <5>1
      <4> QED
        BY <3>5, <3>7, <4>5, <4>6
    <3> QED
      BY <3>3, <3>5, <3>6, <3>7, <3>8 DEF NoDay
  <2> QED
    BY <2>2 DEF DeathIsTheLatest
<1> QED
  BY <1>1, <1>2, <1>3, PTL DEF Spec
===============================================================================
