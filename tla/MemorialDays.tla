---------------------------- MODULE MemorialDays ----------------------------
(***************************************************************************)
(* The observances that follow a death (calendar/memorial.py), and what    *)
(* they are by the words of the families: which days those words mean is   *)
(* found by looking at each day's Parsi date, not by counting.             *)
(*                                                                         *)
(* An observance is [kind, k, code, day]: the day it is (kind and k), the  *)
(* name it is kept under (code) and its date.  Labels and the number shown *)
(* beside a date are left out.                                             *)
(***************************************************************************)
EXTENDS ParsiDays, FiniteSets, SequencesExt

CONSTANTS
    Systems,    \* bound: the calendars
    Deaths,     \* bound: days of death
    Wishes,    \* bound: what is chosen, as records with the fields below
    Late        \* bound: how long after a death it is entered; NoDay: counted from the death

VARIABLE ask    \* a memorial: when the death was, and what the family chose
NoAsk == <<>>
Entered == "opening" \in DOMAIN ask

CycleDays == 360
\* A series that has not come up to the day to start from by then is refused.
SeriesLimit == 100000
Opening == {"none", "days_1_to_10", "tenth_only", "days_5_to_9"}
NamedDays == {10, 29, 30, 59, 60, 179, 180, 359, 360}
Choice ==
    [opening : Opening, named : SUBSET NamedDays, months : Nat, years : Nat,
     parabs : {"none", "all", "fravardin_tir"}, parabYears : Nat, parabCount : Nat,
     birthday : {<<>>} \cup ((1 .. DaysPerMonth) \X (1 .. 12)), birthdayYears : Nat,
     fravardin : Nat]

ASSUME DaysAssumption ==
    /\ Systems \subseteq System
    /\ Deaths \subseteq [year : Nat, mah : 1 .. 13, roj : 1 .. DaysPerMonth]
    /\ Late \subseteq 0 .. SeriesLimit * DaysPerMonth
    /\ Wishes \subseteq Choice

FravardinRoj == 19
\* The Roj that shares its name with each Mah; Dae-Dadar's is Roj Hormazd.
ParabRoj == <<19, 3, 6, 13, 7, 4, 16, 10, 9, 1, 2, 5>>
ParabMahs(which) == CASE which = "none" -> {} [] which = "all" -> 1 .. 12
                      [] which = "fravardin_tir" -> {1, 4}
\* Months on to Masiso, Bamsi, Chamsi; Varsi is a year on.
NamedSpan == [n \in {30, 60, 180, 360} |-> IF n = 360 THEN <<"y", 1>> ELSE <<"m", n \div 30>>]
DeciOf(n) == n + 1
Rank(kind) == CASE kind = "lit" -> 0 [] kind = "y" -> 1 [] kind = "m" -> 2 [] kind = "deci" -> 3
                [] kind = "parab" -> 4 [] kind = "fravardin" -> 5 [] kind = "birthday" -> 6

Gatha(a) == a.mah = 13
DeathDay(a) == ParsiToGregorian(a.year, a.system, a.mah, a.roj)
Cycle(mah, roj) == (mah - 1) * DaysPerMonth + roj - 1
\* Where counting by Roj and Mah starts: a Gatha death just before the next year.
Start(a) == IF Gatha(a) THEN -1 ELSE Cycle(a.mah, a.roj)
BaseYear(a) == IF Gatha(a) THEN a.year + 1 ELSE a.year
On(a, year, mah, roj) == ParsiToGregorian(year, a.system, mah, roj)

\* Day number n, with the day of death as day 1 and Gatha days skipped.
CountFrom(a, n) ==
    LET steps == Start(a) + n - 1
        within == steps % CycleDays
    IN On(a, BaseYear(a) + steps \div CycleDays,
          within \div DaysPerMonth + 1, (within % DaysPerMonth) + 1)

\* Fasli has a sixth Gatha day in leap years only; others keep their last.
GathaDay(a, year) ==
    On(a, year, 13, CHOOSE g \in 1 .. a.roj :
        /\ Exists(a.system, year, 13, g)
        /\ \A h \in g + 1 .. a.roj : ~Exists(a.system, year, 13, h))

\* The 12th monthly day is the first yearly one, except after a Gatha death.
Canon(a, kind, k) == IF ~Gatha(a) /\ kind = "m" /\ k % 12 = 0 THEN <<"y", k \div 12>> ELSE <<kind, k>>

\* The date of a literal, monthly or yearly day.
Dated(a, key) ==
    LET k == key[2] IN
    CASE key[1] = "lit" -> DeathDay(a) + k - 1
      [] key[1] = "m" -> IF Gatha(a) THEN On(a, BaseYear(a) + k \div 12, (k % 12) + 1, 1)
                         ELSE CountFrom(a, 1 + DaysPerMonth * k)
      [] key[1] = "y" -> IF Gatha(a) THEN GathaDay(a, a.year + k)
                         ELSE CountFrom(a, 1 + CycleDays * k)
NamedKey(a, n) == Canon(a, NamedSpan[n][1], NamedSpan[n][2])
\* Mutant: the Deci is 29, 59, ... days after the death by Roj and Mah.
CountedDeci(a, key) == IF key[1] = "deci" THEN CountFrom(a, key[2]) ELSE Dated(a, key)
\* A Deci is the actual day before its named day.
Resolve(a, key) ==
    IF key[1] = "deci" THEN Dated(a, NamedKey(a, DeciOf(key[2]))) - 1 ELSE Dated(a, key)

\* The first of a series that is not before the day it is to start from.
FirstValid(a, kind) ==
    IF a.from = NoDay THEN 1
    ELSE CHOOSE k \in 1 .. SeriesLimit :
            /\ Resolve(a, Canon(a, kind, k)) >= a.from
            /\ k > 1 => Resolve(a, Canon(a, kind, k - 1)) < a.from

\* The days chosen one by one, each with the name it is kept under: the opening,
\* the Dasmi, the named days and the Decis.
Literal(a) ==
    CASE a.opening = "days_1_to_10" -> 1 .. 10
      [] a.opening = "days_5_to_9" -> (5 .. 9) \cup (a.named \cap {10})
      [] a.opening = "tenth_only" -> {10}
      [] a.opening = "none" -> a.named \cap {10}
KeyOfNamed(a, n) == IF n \in DOMAIN NamedSpan THEN NamedKey(a, n) ELSE <<"deci", n>>
Chosen(a) ==
    {[key |-> <<"lit", n>>, code |-> <<"day", n>>] : n \in Literal(a)}
    \cup {[key |-> KeyOfNamed(a, n), code |-> <<"day", n>>] : n \in a.named \ {10}}
YearsOf(a) == {[key |-> <<"y", k>>, code |-> <<"year", k>>] :
                   k \in {FirstValid(a, "y") + i : i \in 0 .. a.years - 1}}
MonthsOf(a) == {[key |-> Canon(a, "m", k), code |-> <<"month", k>>] :
                   k \in {FirstValid(a, "m") + i : i \in 0 .. a.months - 1}}
KeysOf(claims) == {c.key : c \in claims}

\* Who claims a day first names it; a chosen day that has passed is left out.
Rows(a, claims) == {[kind |-> c.key[1], code |-> c.code, day |-> Resolve(a, c.key)] : c \in claims}
Claimed(a, chosen, years, months) ==
    LET yearly == {c \in years : c.key \notin KeysOf(chosen)}
        monthly == {c \in months : c.key \notin KeysOf(chosen \cup yearly)}
        series == KeysOf(years \cup months)
    IN Rows(a, yearly \cup monthly \cup {c \in chosen : c.key \in series})
       \cup {o \in Rows(a, {c \in chosen : c.key \notin series}) : o.day >= a.from}
Claims(a) == Claimed(a, Chosen(a), YearsOf(a), MonthsOf(a))

\* The n first of them by date.
FirstOf(n, obs) == {o \in obs : Cardinality({p \in obs : p.day < o.day}) < n}
Ahead(a, obs) == {o \in obs : o.day >= a.from}
\* Turns of the cycle that may be over by the day to start from.
Gone(a) ==
    LET turns == (a.from - DeathDay(a)) \div CycleDays + 1
    IN IF a.from = NoDay \/ turns < 0 THEN 0 ELSE turns

\* Every Parab from day 2 to the anniversary that many years on.
ParabsFor(a, years) ==
    LET turns == {z \in (0 .. years) \X ParabMahs(a.parabs) :
            Cycle(z[2], ParabRoj[z[2]]) - Start(a) + CycleDays * z[1] + 1
                \in 2 .. CycleDays * years + 1}
    IN {[kind |-> "parab", code |-> <<"parab", z[2], BaseYear(a) + z[1]>>,
         day |-> On(a, BaseYear(a) + z[1], z[2], ParabRoj[z[2]])] : z \in turns}
Parabs(a) ==
    LET perYear == Cardinality(ParabMahs(a.parabs)) IN
    IF a.parabs = "none" THEN {}
    ELSE IF a.parabCount > 0
    THEN FirstOf(a.parabCount, Ahead(a, ParabsFor(a, a.parabCount \div perYear + 2 + Gone(a))))
    ELSE IF a.from = NoDay THEN ParabsFor(a, a.parabYears)
    ELSE FirstOf(a.parabYears * perYear, Ahead(a, ParabsFor(a, a.parabYears + Gone(a))))

\* Mutant: a date is named by its Mah, without the year.
TimesByMah(a, kind, n, mahs, roj, years) ==
    LET after == {o \in {[kind |-> kind, code |-> <<kind, mah>>, day |-> On(a, y, mah, roj)] :
                             y \in years, mah \in mahs} : o.day > DeathDay(a)}
    IN FirstOf(n, Ahead(a, after))
\* The first n times a Roj of the Mahs comes after the death, in the years looked at.
TimesOf(a, kind, n, mahs, roj, years) ==
    LET after == {o \in {[kind |-> kind, code |-> <<kind, y, mah>>, day |-> On(a, y, mah, roj)] :
                             y \in years, mah \in mahs} : o.day > DeathDay(a)}
    IN FirstOf(n, Ahead(a, after))
FravardinRojs(a) ==
    TimesOf(a, "fravardin", a.fravardin, 1 .. 12, FravardinRoj,
            a.year .. a.year + a.fravardin \div 12 + 2 + Gone(a))
Birthdays(a) ==
    IF a.birthday = <<>> THEN {}
    ELSE TimesOf(a, "birthday", a.birthdayYears, {a.birthday[2]}, a.birthday[1],
                 a.year .. a.year + a.birthdayYears + 1 + Gone(a))

Outranks(p, o) == p.day = o.day /\ Rank(p.kind) < Rank(o.kind)
\* One observance to a date, the highest.
Best(ranked) == {o \in ranked : \A p \in ranked : ~Outranks(p, o)}
BuildSchedule(a) == Best(Claims(a) \cup Parabs(a) \cup FravardinRojs(a) \cup Birthdays(a))
-----------------------------------------------------------------------------
(***************************************************************************)
(* What the words mean, from the Parsi date of every day that follows.     *)
(***************************************************************************)
\* The days looked at: long enough for the longest of the series.
DaysToLookAt(a) ==
    LET start == IF a.from = NoDay THEN DeathDay(a) ELSE a.from
        years == Max({1, a.years, a.parabYears, a.birthdayYears})
        months == Max({12 * years, a.months, a.fravardin, 8 * a.parabCount})
    IN DeathDay(a) + 1 .. start + 31 * (months + 2)

DaysOf(R) == {x.day : x \in R}
Read(a, d) ==
    LET p == GregorianToParsi(d, a.system) IN [day |-> d, mah |-> p[2], roj |-> p[3]]
ReadDays(a) == {Read(a, d) : d \in DaysToLookAt(a)}
InMahs(read) == {x \in read : x.mah <= 12}
\* Gatha days right before a new year: what a sixth Gatha is kept on.
LastGatha(read) == {x.day : x \in {y \in read : y.mah = 13 /\ y.day + 1 \in DaysOf(InMahs(read))}}
Yearly(a, read) ==
    DaysOf({x \in read : x.mah = a.mah /\ x.roj = a.roj})
        \cup IF Gatha(a) /\ a.roj = 6 THEN LastGatha(read) ELSE {}
\* The Roj in every Mah; after a Gatha death Roj Hormazd, from the second Mah.
Monthly(a, days) ==
    IF Gatha(a) THEN DaysOf({x \in days : x.roj = 1}) \ {Least(DaysOf(days))}
    ELSE DaysOf({x \in days : x.roj = a.roj})
Nth(n, S) == CHOOSE d \in S : Cardinality({e \in S : e <= d}) = n
NamedDay(n, yearly, monthly) == IF n = 360 THEN Least(yearly) ELSE Nth(n \div 30, monthly)

Meant(a, days, yearly, monthly) ==
    LET NotOver(S) == {d \in S : d >= a.from}
        First(n, S) == {d \in NotOver(S) : Cardinality({e \in NotOver(S) : e < d}) < n}
        named == NotOver({NamedDay(n, yearly, monthly) : n \in a.named \cap DOMAIN NamedSpan})
        months == (named \cap monthly) \cup First(a.months, monthly)
        years == (named \cap yearly) \cup First(a.years, yearly)
        parab == DaysOf({x \in days : x.mah \in ParabMahs(a.parabs) /\ x.roj = ParabRoj[x.mah]})
        perYear == Cardinality(ParabMahs(a.parabs))
    IN [lit |-> NotOver({DeathDay(a) + n - 1 : n \in Literal(a)}),
        y |-> years \cup (months \cap yearly),
        m |-> months \ yearly,
        deci |-> NotOver({NamedDay(n + 1, yearly, monthly) - 1 : n \in a.named \cap {29, 59, 179, 359}}),
        parab |-> First(IF a.parabCount > 0 THEN a.parabCount ELSE a.parabYears * perYear, parab),
        fravardin |-> First(a.fravardin, DaysOf({x \in days : x.roj = FravardinRoj})),
        birthday |-> First(a.birthdayYears, DaysOf({x \in days : <<x.roj, x.mah>> = a.birthday}))]
InWords(a, read) == Meant(a, InMahs(read), Yearly(a, read), Monthly(a, InMahs(read)))

\* The highest of what falls on a date has it.
Won(meant, kind) ==
    {d \in meant[kind] :
        \A other \in DOMAIN meant : Rank(other) < Rank(kind) => d \notin meant[other]}
SaysWhatIsMeant(schedule, meant) ==
    \A kind \in DOMAIN meant : DaysOf({o \in schedule : o.kind = kind}) = Won(meant, kind)

\* The schedule has the days the family's words mean and no other, each as the
\* highest of what falls on it: however late it is entered every series has its
\* length ahead, and nothing that is over is booked.
ScheduleIsWhatWasAsked ==
    Entered => SaysWhatIsMeant(BuildSchedule(ask), InWords(ask, ReadDays(ask)))

\* A memorial, as it is entered: a death, at once or late, and then the choice.
Both(a, b) == [f \in DOMAIN a \cup DOMAIN b |-> IF f \in DOMAIN a THEN a[f] ELSE b[f]]
DaysInit ==
    \E s \in Systems, l \in Late, d \in Deaths :
        /\ Exists(s, d.year, d.mah, d.roj)
        /\ ask = Both(d, [system |-> s,
               from |-> IF l = NoDay THEN NoDay ELSE ParsiToGregorian(d.year, s, d.mah, d.roj) + l])
Choose == ask # NoAsk /\ ~Entered /\ \E c \in Wishes : ask' = Both(ask, c)
=============================================================================
