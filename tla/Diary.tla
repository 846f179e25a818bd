-------------------------------- MODULE Diary --------------------------------
(***************************************************************************)
(* The machis and the events of one fire temple: adding, repeating,        *)
(* editing and deleting them (services/mobed_dashboard.py over             *)
(* messaging/booking_service.py and messaging/availability.py).            *)
(*                                                                         *)
(* A machi takes a slot (a day and a geh of its mobed), an event (a        *)
(* "booking") takes none; apart from that and a row lock the two have the  *)
(* same life, so one behaviour is about one kind.  Days are counted in     *)
(* whole Parsi months of Rojs days and years of Mahs months: a Gatha day   *)
(* may not repeat, and the calendar itself is in ParsiDays.                *)
(*                                                                         *)
(* A request is two steps, what it reads and what it commits, and others   *)
(* commit in between.  Rows that were deleted stay with live = FALSE.      *)
(***************************************************************************)
EXTENDS Integers, Sequences, FiniteSets

CONSTANTS
    Kinds,       \* {"machi", "booking"} or one of them
    Mobed,       \* the members who use the diary
    Panthaky,    \* those of them who are its panthaky or caretaker
    Family,      \* who a ceremony is for
    Call,        \* requests under way at the same time
    Rojs, Mahs,  \* days of a month, months of a year
    Days,        \* bound: days a ceremony is asked for
    Throughs,    \* bound: days up to which a board is opened
    Gehs,        \* bound: times of a day (the last one is before the next sunrise)
    FirstNow,    \* the clock at the start, as day * Gehs + geh - 1
    Counts,      \* how often a repeat may be asked to run; 0 has no end
    Horizon,     \* RECURRENCE_HORIZON_PERIODS
    MaxPeriods,  \* MAX_GENERATE_MONTHS
    MaxEvents,   \* bound: rows ever written
    MaxActs,     \* bound: requests made
    MaxTicks     \* bound: how far the clock goes

ASSUME DiaryAssumption ==
    /\ Kinds \subseteq {"machi", "booking"} /\ Panthaky \subseteq Mobed
    /\ Rojs \in Nat \ {0} /\ Mahs \in Nat \ {0} /\ Gehs \in Nat \ {0}
    /\ Days \subseteq Nat /\ Throughs \subseteq Nat /\ FirstNow \in Nat
    /\ Counts \subseteq Nat \ {1}
    /\ {Horizon, MaxPeriods} \subseteq Nat \ {0}

VARIABLES
    kind,    \* the kind of ceremony this behaviour is about
    events,  \* Machi / Booking rows, in the order of their ids
    rules,   \* RecurrenceRule rows, in the order of their ids
    calls,   \* the request of each Call
    now,     \* the clock
    raced,   \* rules that changed between a top-up's reading and its writing
    torn,    \* ceremonies that moved between an edit's reading and its writing
    failed,  \* the database refused a delete that nobody had disturbed
    acts     \* requests made

dVars == <<kind, events, rules, calls, now, raced, torn, failed, acts>>
-----------------------------------------------------------------------------
At == 1 .. Gehs
Pattern == {"monthly", "yearly"}
NoEnd == -1
Idle == [op |-> "idle"]
Once == [pattern |-> "once", count |-> 0]
Repeat == [pattern : Pattern, count : Counts]

RojOf(d) == d % Rojs
MonthOf(d) == d \div Rojs
DayAt(month, roj) == month * Rojs + roj
\* Months from one occurrence to the next (_next_parsi_month, _next_parsi_year).
StepOf(pattern) == IF pattern = "monthly" THEN 1 ELSE Mahs

\* The day of the count-th occurrence of a repeat, counting the first.
LastOf(day, pattern, count) ==
    IF count = 0 THEN NoEnd
    ELSE DayAt(MonthOf(day) + (count - 1) * StepOf(pattern), RojOf(day))

\* When a ceremony is (ceremony_datetime).  A slot is over once its geh began;
\* only today's slots are judged by that.
Instant(day, at) == day * Gehs + at - 1
Elapsed(day, at) == day = now \div Gehs /\ Instant(day, at) <= now

Live == {i \in DOMAIN events : events[i].live}
SeriesOf(r) == {i \in Live : events[i].rule = r}
\* The slots a mobed holds are looked up by the day; the unique index
\* (uq_machis_slot) is on the Roj and month that are kept beside it.
SlotsOf(by) == {<<events[i].day, events[i].at>> : i \in {j \in Live : events[j].by = by}}
KeyOf(e) == <<e.roj, e.month, e.at, e.by>>
Keys(ids) == {KeyOf(events[i]) : i \in ids}
May(who, i) == events[i].by = who \/ who \in Panthaky

\* Mutant: the end of a repeat is forgotten.
ReachOn(day, end) == day
Reach(day, end) == IF end # NoEnd /\ end < day THEN end ELSE day
\* Mutant: the month of the marker is taken for the one before the window.
TriesLate(until, roj, pattern, through) ==
    LET on(k) == DayAt(MonthOf(through) + k * StepOf(pattern), roj)
    IN IF until >= through THEN {} ELSE {on(0)}
\* The days a generator tries, in order, from its marker up to and including
\* the first one that reaches the day it was asked for.
Tries(until, roj, pattern, through) ==
    LET on(k) == DayAt(MonthOf(until) + k * StepOf(pattern), roj)
    IN IF until >= through THEN {}
       ELSE {on(k) : k \in {n \in 1 .. MaxPeriods : n = 1 \/ on(n - 1) < through}}

Row(by, day, at, family, rule) ==
    [live |-> TRUE, by |-> by, family |-> family, rule |-> rule, for |-> day, settled |-> FALSE,
     day |-> day, at |-> at, roj |-> RojOf(day), month |-> MonthOf(day), when |-> Instant(day, at)]

\* Mutant: the look at the slots is trusted, without a unique index.
NoIndex(new, others) == TRUE
Unique(new, others) == KeyOf(new) \notin Keys(others)
\* The slot was free when the request looked, and is not over.
Open(new, seen) == <<new.day, new.at>> \notin seen /\ ~Elapsed(new.day, new.at)
\* A machi is written where the slot was free and its key still is, of all the
\* others, when it is written; an event always.
Free(new, seen) == kind = "machi" => Open(new, seen) /\ Unique(new, Live)

\* The numbers of a set in order.
Ascending(S) == CHOOSE f \in [1 .. Cardinality(S) -> S] : \A m, n \in DOMAIN f : m < n => f[m] < f[n]
\* The rows of the days, all like their source.
Repeats(src, r, days, seen) ==
    LET like(d) == Row(src.by, d, src.at, src.family, r)
        got == Ascending({d \in days : Free(like(d), seen)})
    IN [n \in DOMAIN got |-> like(got[n])]
Furthest(days, else) == IF days = {} THEN else ELSE CHOOSE d \in days : \A x \in days : x <= d
-----------------------------------------------------------------------------
DiaryInit ==
    /\ kind \in Kinds
    /\ events = <<>> /\ rules = <<>>
    /\ calls = [c \in Call |-> Idle]
    /\ now = FirstNow
    /\ raced = {} /\ torn = {} /\ failed = FALSE /\ acts = 0

Begin(c, call) ==
    /\ acts < MaxActs
    /\ calls[c] = Idle
    /\ calls' = [calls EXCEPT ![c] = call]
    /\ acts' = acts + 1
    /\ UNCHANGED <<kind, events, rules, now, raced, torn, failed>>

Finish(c) ==
    /\ calls' = [calls EXCEPT ![c] = Idle]
    /\ Len(events') <= MaxEvents
    /\ UNCHANGED <<kind, now, acts>>

\* manual_add_machi, manual_add_booking: one ceremony, and its repeats.
AskAdd(c, by, day, at, family, repeat) ==
    Begin(c, [op |-> "add", by |-> by, day |-> day, at |-> at, family |-> family,
              repeat |-> repeat, seen |-> SlotsOf(by)])

NewRule(id, a) ==
    [live |-> TRUE, active |-> TRUE, source |-> id, pattern |-> a.repeat.pattern,
     until |-> a.day, end |-> LastOf(a.day, a.repeat.pattern, a.repeat.count),
     count |-> a.repeat.count, start |-> a.day]

Add(c) ==
    LET a == calls[c]
        id == Len(events) + 1
    IN /\ a.op = "add"
       /\ IF ~Free(Row(a.by, a.day, a.at, a.family, 0), a.seen)
          THEN UNCHANGED <<events, rules>>
          ELSE IF a.repeat = Once
          THEN /\ events' = Append(events, Row(a.by, a.day, a.at, a.family, 0))
               /\ UNCHANGED rules
          ELSE LET src == Row(a.by, a.day, a.at, a.family, Len(rules) + 1)
                   rule == NewRule(id, a)
                   through == DayAt(MonthOf(a.day) + Horizon * StepOf(rule.pattern), RojOf(a.day))
                   days == Tries(a.day, RojOf(a.day), rule.pattern, Reach(through, rule.end))
               IN /\ events' = Append(events, src) \o Repeats(src, Len(rules) + 1, days, a.seen)
                  /\ rules' = Append(rules, [rule EXCEPT !.until = Furthest(days, a.day)])
       /\ Finish(c)
       /\ UNCHANGED <<raced, torn, failed>>
-----------------------------------------------------------------------------
\* A board or a calendar is opened up to a day: the rules that do not reach it
\* are read, an event's under a lock that the rest of the request keeps.
\* Mutant: an event's rule is read without a lock.
NeverLocked(r) == FALSE
Locked(r) ==
    kind = "booking" /\ \E c \in Call : calls[c].op = "topup" /\ calls[c].rule = r

AskTopUp(c, who, r, through) ==
    /\ rules[r].live /\ rules[r].active
    /\ \/ events[rules[r].source].by = who
       \/ kind = "machi" /\ who \in Panthaky
    /\ rules[r].until < through
    /\ rules[r].end # NoEnd => rules[r].until < rules[r].end
    /\ ~Locked(r)
    /\ Begin(c, [op |-> "topup", rule |-> r, row |-> rules[r], through |-> through,
                 seen |-> SlotsOf(events[rules[r].source].by)])

\* generate_recurrence_instances.  A rule row that is gone refuses the update,
\* and the whole request with it.
TopUp(c) ==
    LET t == calls[c]
        r == t.rule
        src == events[t.row.source]
        days == Tries(t.row.until, src.roj, t.row.pattern, Reach(t.through, t.row.end))
    IN /\ t.op = "topup"
       /\ IF ~rules[r].live
          THEN UNCHANGED <<events, rules>>
          ELSE IF ~src.live
          THEN rules' = [rules EXCEPT ![r].active = FALSE] /\ UNCHANGED events
          ELSE /\ events' = events \o Repeats(src, r, days, t.seen)
               /\ rules' = [rules EXCEPT ![r].until = Furthest(days, t.row.until)]
       /\ raced' = IF rules[r] = t.row THEN raced ELSE raced \cup {r}
       /\ Finish(c)
       /\ UNCHANGED <<torn, failed>>
-----------------------------------------------------------------------------
\* edit_machi, edit_booking: the row as it was loaded, and as it is to be.
AskEdit(c, who, i, day, at, family) ==
    /\ May(who, i)
    /\ Begin(c, [op |-> "edit", event |-> i, had |-> events[i],
                 new |-> [events[i] EXCEPT !.family = family, !.day = day, !.at = at,
                            !.roj = RojOf(day), !.month = MonthOf(day), !.when = Instant(day, at)],
                 seen |-> SlotsOf(events[i].by)])

TimeOf(e) == <<e.day, e.at, e.roj, e.month, e.when>>
\* Of a row's columns those are written that are not as they were loaded.  An
\* event's day and time are one column.
Field(row, e, f) == IF e.new[f] = e.had[f] THEN row[f] ELSE e.new[f]
TimeField(row, e, f) == IF kind = "booking" /\ e.new.when # e.had.when THEN e.new[f] ELSE Field(row, e, f)
Renamed(row, e) == [row EXCEPT !.family = Field(row, e, "family")]
Moved(row, e) ==
    [Renamed(row, e) EXCEPT !.day = TimeField(row, e, "day"), !.at = TimeField(row, e, "at"),
        !.roj = Field(row, e, "roj"), !.month = Field(row, e, "month"), !.when = Field(row, e, "when")]

\* A machi is to move, and its new slot is not to be had.
ToMove(e) == kind = "machi" => <<e.new.day, e.new.at>> # <<e.had.day, e.had.at>>
SlotRefused(e) ==
    /\ kind = "machi" /\ ToMove(e)
    /\ ~Open(e.new, e.seen) \/ ~Unique(Moved(events[e.event], e), Live \ {e.event})

\* The family is changed before the slot is tried, and stays changed.
Edit(c) ==
    LET e == calls[c]
        moves == events[e.event].live /\ ToMove(e) /\ ~SlotRefused(e)
    IN
    /\ e.op = "edit"
    /\ events' = IF ~events[e.event].live THEN events
                 ELSE IF moves THEN [events EXCEPT ![e.event] = Moved(@, e)]
                 ELSE [events EXCEPT ![e.event] = Renamed(@, e)]
    /\ torn' = IF moves /\ TimeOf(events[e.event]) # TimeOf(e.had) THEN torn \cup {e.event} ELSE torn
    /\ Finish(c)
    /\ UNCHANGED <<rules, raced, failed>>

\* A payment of a ceremony was recorded as received (older rows have these).
Settle(i) ==
    /\ acts < MaxActs /\ ~events[i].settled
    /\ events' = [events EXCEPT ![i].settled = TRUE]
    /\ acts' = acts + 1
    /\ UNCHANGED <<kind, rules, calls, now, raced, torn, failed>>
-----------------------------------------------------------------------------
\* delete_machi compares days, delete_booking the time.
OrderOf(e) == IF kind = "machi" THEN e.day ELSE e.when
\* Mutant: the whole series goes, the part before the event too.
VictimsAll(ev, i, future) ==
    IF ~future \/ ev[i].rule = 0 THEN {i}
    ELSE {j \in DOMAIN ev : ev[j].live /\ ev[j].rule = ev[i].rule}
Victims(ev, i, future) ==
    IF ~future \/ ev[i].rule = 0 THEN {i}
    ELSE {j \in DOMAIN ev : ev[j].live /\ ev[j].rule = ev[i].rule
                            /\ OrderOf(ev[j]) >= OrderOf(ev[i])}
Survivors(ev, i, victims) ==
    IF ev[i].rule = 0 THEN {}
    ELSE {j \in DOMAIN ev : ev[j].live /\ ev[j].rule = ev[i].rule} \ victims
Earliest(ev, ids) ==
    CHOOSE i \in ids : \A j \in ids : OrderOf(ev[i]) < OrderOf(ev[j])
                                      \/ (OrderOf(ev[i]) = OrderOf(ev[j]) /\ i <= j)

\* What a delete of one event reads.
DeleteOf(ev, ru, i, future) ==
    LET victims == Victims(ev, i, future)
    IN [op |-> "delete", event |-> i, future |-> future, victims |-> victims,
        survivors |-> Survivors(ev, i, victims),
        row |-> IF ev[i].rule = 0 THEN Idle ELSE ru[ev[i].rule]]

AskDelete(c, who, i, future) ==
    May(who, i) /\ Begin(c, DeleteOf(events, rules, i, future))

Blocked(ev, victims) == \E v \in victims : ev[v].live /\ ev[v].settled

\* Mutant: the rule keeps the source that goes.
NeverRepointed(ev, row, d) ==
    IF row.source \notin d.victims THEN [row EXCEPT !.active = @ /\ ~d.future]
    ELSE IF d.survivors = {} THEN [row EXCEPT !.live = FALSE]
    ELSE [row EXCEPT !.active = @ /\ ~d.future]
\* What is left of the rule: re-pointed, stopped, or gone with its last event.
Repointed(ev, row, d) ==
    IF row.source \notin d.victims THEN [row EXCEPT !.active = @ /\ ~d.future]
    ELSE IF d.survivors = {} THEN [row EXCEPT !.live = FALSE]
    ELSE [row EXCEPT !.active = @ /\ ~d.future, !.source = Earliest(ev, d.survivors)]
\* The rows an event's delete leaves, and the rule it writes over the current
\* one: only the columns that it changes.
Over(current, row, new) ==
    [current EXCEPT !.live = @ /\ new.live,
                    !.active = IF new.active = row.active THEN @ ELSE new.active,
                    !.source = IF new.source = row.source THEN @ ELSE new.source]
Without(ev, victims) ==
    [i \in DOMAIN ev |-> IF i \in victims THEN [ev[i] EXCEPT !.live = FALSE] ELSE ev[i]]
\* The foreign keys both ways, and updates of rows that are no longer there.
Refused(ev, ru, d, r, new) ==
    LET next == Over(ru[r], d.row, new) IN
    \/ new # d.row /\ new.live /\ ~ru[r].live
    \/ ~new.live /\ \E v \in d.victims : d.victims = {v} /\ ~ev[v].live
    \/ ~next.live /\ \E i \in DOMAIN ev \ d.victims : ev[i].live /\ ev[i].rule = r
    \/ next.live /\ (next.source \in d.victims \/ ~ev[next.source].live)

Delete(c) ==
    LET d == calls[c]
        r == events[d.event].rule
        new == Repointed(events, d.row, d)
        calm == rules[r] = d.row /\ SeriesOf(r) = d.victims \cup d.survivors
    IN /\ d.op = "delete"
       /\ IF Blocked(events, d.victims)
          THEN UNCHANGED <<events, rules, failed>>
          ELSE IF r = 0
          THEN events' = Without(events, d.victims) /\ UNCHANGED <<rules, failed>>
          ELSE /\ new # d.row => ~Locked(r)
               /\ IF Refused(events, rules, d, r, new)
                  THEN failed' = (failed \/ calm) /\ UNCHANGED <<events, rules>>
                  ELSE /\ events' = Without(events, d.victims)
                       /\ rules' = [rules EXCEPT ![r] = Over(@, d.row, new)]
                       /\ UNCHANGED failed
       /\ Finish(c)
       /\ UNCHANGED <<raced, torn>>

\* delete_behdin_scoped with scope "all": every upcoming ceremony of the family
\* and the later ones of its series, in one transaction; a ceremony with a
\* recorded payment is kept.  (Their memorials and their record in the book:
\* MobedBook.)
Upcoming(who, family) ==
    {i \in Live : events[i].by = who /\ events[i].family = family /\ events[i].when > now}
DeleteLater(s, i) ==
    LET d == DeleteOf(s.events, s.rules, i, TRUE)
        r == s.events[i].rule
    IN IF ~s.events[i].live \/ Blocked(s.events, d.victims) THEN s
       ELSE [events |-> Without(s.events, d.victims),
             rules |-> IF r = 0 THEN s.rules
                       ELSE [s.rules EXCEPT ![r] = Repointed(s.events, @, d)]]

\* Machis are taken in the order of their times, events as they come.
Orders(ids) ==
    {f \in [1 .. Cardinality(ids) -> ids] : \A m, n \in DOMAIN f : m < n =>
        f[m] # f[n] /\ (kind = "machi" => events[f[m]].when <= events[f[n]].when)}
LeftAfter(order) ==
    LET left[n \in 0 .. Len(order)] ==
          IF n = 0 THEN [events |-> events, rules |-> rules] ELSE DeleteLater(left[n - 1], order[n])
    IN left[Len(order)]

RemoveFamily(who, family) ==
    /\ acts < MaxActs /\ acts' = acts + 1
    /\ UNCHANGED <<kind, calls, now, raced, torn, failed>>
    /\ \A i \in Upcoming(who, family) : ~Locked(events[i].rule)
    /\ \E order \in Orders(Upcoming(who, family)) :
        /\ order # <<>>
        /\ events' = LeftAfter(order).events /\ rules' = LeftAfter(order).rules

\* A request is over before the next geh begins.
Tick == /\ now < FirstNow + MaxTicks /\ now' = now + 1
        /\ \A c \in Call : calls[c] = Idle
        /\ UNCHANGED <<kind, events, rules, calls, raced, torn, failed, acts>>

DiaryNext ==
    \/ \E c \in Call :
        \/ \E by \in Mobed, day \in Days, at \in At, family \in Family, repeat \in {Once} \cup Repeat :
               AskAdd(c, by, day, at, family, repeat)
        \/ \E who \in Mobed, r \in DOMAIN rules, through \in Throughs : AskTopUp(c, who, r, through)
        \/ \E who \in Mobed, i \in Live :
               \/ \E day \in Days, at \in At, family \in Family : AskEdit(c, who, i, day, at, family)
               \/ \E future \in BOOLEAN : AskDelete(c, who, i, future)
        \/ Add(c) \/ TopUp(c) \/ Edit(c) \/ Delete(c)
    \/ \E i \in Live : Settle(i)
    \/ \E who \in Mobed, family \in Family : RemoveFamily(who, family)
    \/ Tick

DiarySpec == DiaryInit /\ [][DiaryNext]_dVars
-----------------------------------------------------------------------------
\* No mobed holds one geh of one day twice, whatever requests saw before they
\* wrote (book_machi_slot and rebook_machi_slot over the unique index), machis
\* aside that an edit moved after another had: it writes a part of the columns.
SlotsExclusive ==
    kind = "machi" =>
        \A i, j \in Live \ torn : i < j /\ events[i].by = events[j].by
            => <<events[i].day, events[i].at>> # <<events[j].day, events[j].at>>

\* No date of a series is ever written twice, so an occurrence that was deleted
\* by itself does not come back ("the series keeps generating around the
\* gap").  Events: always, as a top-up locks its rule.  Machis: as long as no
\* two top-ups of the series overlapped.
OccurrenceOnce ==
    \A i, j \in DOMAIN events :
        i < j /\ events[i].rule # 0 /\ events[i].rule = events[j].rule
            => events[i].for # events[j].for \/ (kind = "machi" /\ events[i].rule \in raced)

\* A delete that nothing overlapped is never refused by the foreign keys that
\* a rule and its ceremonies hold on each other.
DeletesGoThrough == ~failed

\* A repeat that was asked to run a number of times never has more dates, as
\* long as it kept to one Roj and no two top-ups of it overlapped.
SeriesDates(r) == {events[i].for : i \in {j \in DOMAIN events : events[j].rule = r}}
OneRoj(r) == \A d, e \in SeriesDates(r) : RojOf(d) = RojOf(e)
RunsItsCount ==
    \A r \in DOMAIN rules :
        rules[r].count # 0 /\ OneRoj(r) /\ r \notin raced => Cardinality(SeriesDates(r)) <= rules[r].count

\* A repeating event has every one of its dates up to where it was generated,
\* and none beyond: reading the calendar in any windows leaves no gap.
NoneMissing ==
    kind = "booking" =>
        \A r \in DOMAIN rules : OneRoj(r) =>
            SeriesDates(r) = {d \in rules[r].start .. rules[r].until :
                RojOf(d) = RojOf(rules[r].start)
                /\ (MonthOf(d) - MonthOf(rules[r].start)) % StepOf(rules[r].pattern) = 0}

\* Deleting a family with its ceremonies leaves what was already performed
\* ("Ceremonies already performed stay as history").  Not so a machi earlier
\* on the very day of an upcoming one of its series, as days are compared; nor
\* in a series with a machi whose day and time two edits made disagree.
HistoryKept ==
    [][\A who \in Mobed, family \in Family : RemoveFamily(who, family) =>
        \A i \in Live : events[i].when <= now =>
            \/ events'[i].live
            \/ /\ kind = "machi"
               /\ events[i].day = now \div Gehs \/ SeriesOf(events[i].rule) \cap torn # {}]_dVars

\* What the model of a machi says of its slot: "THE critical constraint: one
\* active machi per geh per day per agyary per mobed".
OneMachiPerSlot ==
    kind = "machi" =>
        \A i, j \in Live : i < j /\ events[i].by = events[j].by
            => <<events[i].day, events[i].at>> # <<events[j].day, events[j].at>>
=============================================================================
