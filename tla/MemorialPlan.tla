---------------------------- MODULE MemorialPlan ----------------------------
(***************************************************************************)
(* From what a mobed fills in to what is saved (services/memorials.py):    *)
(* the day of death from its Roj and Mah, the days the form shows as over, *)
(* the review, and the memorial that is saved from it, perhaps after       *)
(* midnight.  Built on the schedule of MemorialDays.                       *)
(***************************************************************************)
EXTENDS MemorialDays

OldDeathDays == 361
\* The calendars a family can keep; the engine's third is read nowhere.
Offered == System \ {"fasli"}

\* Mutant: the year before is the last that is looked at.
YearsBackOne(today, system) ==
    LET current == GregorianToParsi(today, system)[1] IN current - 1 .. current
YearsBack(today, system) ==
    LET current == GregorianToParsi(today, system)[1] IN current - 4 .. current

LatestFor(today, longAgo) == IF longAgo THEN today - OldDeathDays ELSE today
Greatest(S) == CHOOSE x \in S : \A y \in S : y <= x
\* The day of a death that is given by Roj and Mah alone; refused if no year has it.
ResolveDeath(today, system, mah, roj, longAgo) ==
    LET years == {y \in YearsBack(today, system) : Exists(system, y, mah, roj)}
        days == {ParsiToGregorian(y, system, mah, roj) : y \in years}
        past == {d \in days : d <= LatestFor(today, longAgo)}
    IN IF past = {} THEN NoDay ELSE Greatest(past)

\* What the form asks about: each day that can be picked, counted from the death.
Pickable == DOMAIN NamedSpan \cup {9, 10, 29, 59, 179, 359}
EveryNamedDay(a) ==
    [a EXCEPT !.opening = "days_5_to_9", !.named = Pickable \ {9}, !.months = 0, !.years = 0,
              !.parabs = "none", !.fravardin = 0, !.birthday = <<>>, !.from = NoDay]
\* Mutant: a day that falls today is shown as over.
OverToday(d, today) == d <= today
Over(d, today) == d < today
\* The days shown as over, by number; the 5th to the 9th once the 9th is.
NamedDaysPassed(a, today, longAgo) ==
    IF longAgo THEN Pickable
    ELSE {n \in Pickable : \E o \in BuildSchedule(EveryNamedDay(a)) :
              o.code = <<"day", n>> /\ Over(o.day, today)}

IsAnniversary(code) ==
    code[1] \in {"month", "year"} \/ code \in {<<"day", n>> : n \in DOMAIN NamedSpan}

\* What is saved: no date removed on the review, the prayers set there for single
\* dates, and on the others those chosen for all, Jashan on anniversaries alone.
Kept(schedule, removed) == {o \in schedule : o.code \notin removed}
PrayersOf(code, chosen, single) ==
    IF code \in DOMAIN single THEN single[code] ELSE {p \in chosen : p # "jashan" \/ IsAnniversary(code)}
\* Refused when nothing is left, or a date would have no prayer.
CanCreate(schedule, removed, chosen, single) ==
    /\ Kept(schedule, removed) # {}
    /\ \A o \in Kept(schedule, removed) : PrayersOf(o.code, chosen, single) # {}
CreateMemorial(schedule, removed, chosen, single) ==
    {[code |-> o.code, day |-> o.day, prayers |-> PrayersOf(o.code, chosen, single)] :
        o \in Kept(schedule, removed)}
\* The walk through a century, and beside it each memorial as it is entered.
Init ==
    /\ WalkInit
    /\ ask = NoAsk \/ DaysInit
Next ==
    \/ ask = NoAsk /\ Tomorrow /\ UNCHANGED ask
    \/ Choose /\ UNCHANGED walkVars
Spec == Init /\ [][Next]_<<walkVars, ask>>
-----------------------------------------------------------------------------
\* A death given by Roj and Mah, with or without "more than a year ago", is put on
\* the last such day that is not too late: no later one would do.  (resolve_death
\* looks four years back; a year may hold no 361 days before today.)
DeathIsTheLatest ==
    \A s \in Offered, a \in Asked \ {<<13, 6>>}, longAgo \in BOOLEAN :
        LET found == ResolveDeath(day, s, a[1], a[2], longAgo)
        IN /\ found # NoDay /\ found <= LatestFor(day, longAgo)
           /\ <<GregorianToParsi(found, s)[2], GregorianToParsi(found, s)[3]>> = a
           /\ NearestOccurrence(s, a[1], a[2], found + 1) > LatestFor(day, longAgo)

\* The day after the one the series start from, when a save has crossed midnight.
NextDay(a) == IF a.from = NoDay THEN a ELSE [a EXCEPT !.from = @ + 1]

\* The name a date is kept under means one day, within a schedule and from the
\* review to a save that has crossed midnight: taking a date off on the review takes
\* no other off, prayers set for one land on no other, and a memorial never has two
\* rows of one name (uq_memorial_observance_code).
NameOneDay(review, schedule) ==
    /\ \A o \in review :
           LET saved == CreateMemorial(schedule, {}, {"afringan"}, [c \in {o.code} |-> {"baaj"}])
           IN DaysOf({r \in saved : r.prayers = {"baaj"}}) \subseteq {o.day}
    /\ Cardinality({o.code : o \in review}) = Cardinality(review)
\* The days the form shows as over are those a schedule from today leaves out,
\* though the two are worked out by different code from different schedules.
PassedDaysAreLeftOut ==
    Entered /\ ask.from # NoDay =>
        {<<"day", n>> : n \in Pickable \ NamedDaysPassed(ask, ask.from, FALSE)}
            = {o.code : o \in BuildSchedule([EveryNamedDay(ask) EXCEPT !.from = ask.from])}
              \ {<<"day", n>> : n \in 5 .. 8}

\* Jashan falls on the monthly and yearly days of the family's own words and on no
\* other, under whatever name each is saved; alone, it is refused if there is another.
OnlyOnAnniversaries(schedule, anniversaries) ==
    /\ LET saved == CreateMemorial(schedule, {}, {"jashan", "afringan"}, <<>>)
       IN DaysOf({r \in saved : "jashan" \in r.prayers}) = anniversaries
    /\ CanCreate(schedule, {}, {"jashan"}, <<>>)
           <=> schedule # {} /\ anniversaries = DaysOf(schedule)

\* What is saved is what was reviewed, each date with its own prayers.
NamesAreKept ==
    Entered =>
        LET schedule == BuildSchedule(ask)
        IN /\ NameOneDay(schedule, BuildSchedule(NextDay(ask)))
           /\ OnlyOnAnniversaries(schedule, DaysOf({o \in schedule : o.kind \in {"m", "y"}}))
=============================================================================
