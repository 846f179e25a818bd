---------------------------- MODULE MemorialCare ----------------------------
(***************************************************************************)
(* A saved memorial in its mobed's hands (services/memorials.py from       *)
(* create_memorial on, and its routes), and the notice that it closes      *)
(* (services/reminders.py, notify_closing_tomorrow).                       *)
(*                                                                         *)
(* A request loads the memorial's dates, changes what it was asked to      *)
(* change in memory, and saves: the mapper writes only the columns that    *)
(* differ from what was loaded, and only the prayers added or removed.     *)
(* Notes are kept as the time is, and stand for themselves nowhere.        *)
(***************************************************************************)
EXTENDS Naturals, FiniteSets, FiniteSetsExt

CONSTANTS
    Memorial, DatesOf,   \* [Memorial -> its dates]
    DayOf,               \* [date -> the day it falls on]
    Prayer,              \* the services the temple offers
    Request, Worker,     \* requests, and evening passes, at work at once
    LastDay,             \* bound: the last day of the model
    MaxAsks              \* bound: requests in a behaviour

\* A memorial has a date at least, and its dates are its own.
ASSUME CareAssumption ==
    /\ \A m \in Memorial : DatesOf[m] # {} /\ IsFiniteSet(DatesOf[m])
    /\ \A m, n \in Memorial : m # n => DatesOf[m] \cap DatesOf[n] = {}
    /\ \A m \in Memorial : \A d \in DatesOf[m] : DayOf[d] \in Nat
    /\ LastDay \in Nat /\ IsFiniteSet(Worker)

VARIABLES
    used,       \* memorials ever saved: an id is not given twice
    onFile,     \* memorials saved and not deleted
    dates,      \* [date -> its row]
    req,        \* [Request -> what is asked, and the rows as they were loaded]
    today,
    notices,    \* [Memorial -> closing notices left for its mobed]
    pass,       \* [Worker -> memorials its pass found to tell of]
    word,       \* observer: [date -> the row by the last word saved on each part]
    clash,      \* observer: parts that two overlapping requests were about
    lapped,     \* observer: [memorial -> the most open passes that had found it at once]
    asks        \* bound

careVars == <<used, onFile, dates, req, today, notices, pass, word, clash, lapped, asks>>

Dates == UNION {DatesOf[m] : m \in Memorial}
Column == {"paid", "told", "time"}
Part == Column \cup {"prayers"}
DateRow == [paid : BOOLEAN, told : BOOLEAN, time : BOOLEAN, prayers : SUBSET Prayer]
AtRest == [on |-> {}]
NotYet == [paid |-> FALSE, told |-> FALSE, time |-> FALSE, prayers |-> {}]
NoPass == [open |-> FALSE, finds |-> {}]

CareInit ==
    /\ used = {} /\ onFile = {} /\ dates = [d \in Dates |-> NotYet] /\ word = dates
    /\ req = [r \in Request |-> AtRest] /\ asks = 0 /\ clash = {}
    /\ today = 0 /\ notices = [m \in Memorial |-> 0]
    /\ pass = [w \in Worker |-> NoPass] /\ lapped = [m \in Memorial |-> 0]

-----------------------------------------------------------------------------
\* Every date starts with the prayers chosen for it, and paid if all were.
Create(m) ==
    /\ m \notin used /\ used' = used \cup {m}
    /\ \E prayers \in [DatesOf[m] -> (SUBSET Prayer) \ {{}}], allPaid \in BOOLEAN :
         LET saved(d) == [NotYet EXCEPT !.paid = allPaid, !.prayers = prayers[d]]
         IN /\ dates' = [d \in Dates |-> IF d \in DatesOf[m] THEN saved(d) ELSE dates[d]]
            /\ word' = [d \in Dates |-> IF d \in DatesOf[m] THEN saved(d) ELSE word[d]]
    /\ onFile' = onFile \cup {m}
    /\ UNCHANGED <<req, today, notices, pass, clash, lapped, asks>>

\* What can be asked: a mark on one date or on all, an hour or other prayers (not
\* none) for one, the word that the family was told, or that the memorial go.
Ask(m, on, column, to, prayers, delete) ==
    [of |-> m, on |-> on, column |-> column, to |-> to, prayers |-> prayers, delete |-> delete]
PaidAsks(m) == {Ask(m, on, "paid", to, {}, FALSE) :
                    on \in {DatesOf[m]} \cup {{d} : d \in DatesOf[m]}, to \in BOOLEAN}
ToldAsks(m) == {Ask(m, {d}, "told", to, {}, FALSE) : d \in DatesOf[m], to \in BOOLEAN}
EditAsks(m) ==
    {Ask(m, {d}, "time", to, prayers, FALSE) : d \in DatesOf[m], to \in BOOLEAN, prayers \in SUBSET Prayer}
    \cup {Ask(m, {d}, "none", FALSE, prayers, FALSE) : d \in DatesOf[m], prayers \in (SUBSET Prayer) \ {{}}}
DeleteAsk(m) == Ask(m, DatesOf[m], "none", FALSE, {}, TRUE)
AsksFor(m) == PaidAsks(m) \cup ToldAsks(m) \cup EditAsks(m) \cup {DeleteAsk(m)}

\* The memorial is looked up, with all its dates; a missing one is a 404.
Load(r) ==
    /\ req[r] = AtRest /\ asks < MaxAsks /\ asks' = asks + 1
    /\ \E m \in onFile : \E ask \in AsksFor(m) :
         req' = [req EXCEPT ![r] = [on |-> ask.on, ask |-> ask, seen |-> [d \in ask.on |-> dates[d]]]]
    /\ UNCHANGED <<used, onFile, dates, today, notices, pass, word, clash, lapped>>

\* Mutant: the whole row is written back as it was loaded.
WholeRow(row, seen, ask) ==
    LET mine == IF ask.column \in Column THEN [seen EXCEPT ![ask.column] = ask.to] ELSE seen
    IN IF ask.prayers = {} THEN mine ELSE [mine EXCEPT !.prayers = ask.prayers]
\* Whether the column goes into the UPDATE: a hand mark is a new time each time.
ColumnWritten(seen, ask) ==
    ask.column \in Column /\ (seen[ask.column] # ask.to \/ (ask.column = "told" /\ ask.to))
\* Prayers that were loaded and are asked for again are not touched.
Added(seen, ask) == IF ask.prayers = {} THEN {} ELSE ask.prayers \ seen.prayers
Removed(seen, ask) == IF ask.prayers = {} THEN {} ELSE seen.prayers \ ask.prayers
Written(row, seen, ask) ==
    LET after == IF ColumnWritten(seen, ask) THEN [row EXCEPT ![ask.column] = ask.to] ELSE row
    IN [after EXCEPT !.prayers = (@ \ Removed(seen, ask)) \cup Added(seen, ask)]

\* An UPDATE that finds no row, or a prayer that is there already, fails the request.
Fails(ask, seen) ==
    \E d \in ask.on :
        \/ ask.of \notin onFile /\ (ColumnWritten(seen[d], ask) \/ Added(seen[d], ask) # {})
        \/ Added(seen[d], ask) \cap dates[d].prayers # {}

PartsOf(ask) == {p \in Part : p = ask.column \/ (p = "prayers" /\ ask.prayers # {})}
About(ask) == ask.on \X PartsOf(ask)
Others(r) == UNION {About(req[q].ask) : q \in {q \in Request \ {r} : req[q] # AtRest}}

\* The change is flushed and committed, or the request fails and changes nothing.
Save(r) ==
    LET ask == req[r].ask
        seen == req[r].seen
    IN /\ req[r] # AtRest /\ ~ask.delete /\ ~Fails(ask, seen)
       /\ IF ask.of \in onFile
          THEN /\ dates' = [d \in Dates |-> IF d \in ask.on THEN Written(dates[d], seen[d], ask) ELSE dates[d]]
               /\ word' = [d \in Dates |-> [p \in Part |->
                              IF <<d, p>> \notin About(ask) THEN word[d][p]
                              ELSE IF p = "prayers" THEN ask.prayers ELSE ask.to]]
               /\ clash' = clash \cup (About(ask) \cap Others(r))
          ELSE UNCHANGED <<dates, word, clash>>
       /\ req' = [req EXCEPT ![r] = AtRest]
       /\ UNCHANGED <<used, onFile, today, notices, pass, lapped, asks>>
Abandon(r) ==
    /\ req[r] # AtRest
    /\ req' = [req EXCEPT ![r] = AtRest]
    /\ UNCHANGED <<used, onFile, dates, today, notices, pass, word, clash, lapped, asks>>
\* Deleted with its dates; one that is gone already is gone.
DeleteMemorial(r) ==
    /\ req[r] # AtRest /\ req[r].ask.delete
    /\ onFile' = onFile \ {req[r].ask.of}
    /\ req' = [req EXCEPT ![r] = AtRest]
    /\ UNCHANGED <<used, dates, today, notices, pass, word, clash, lapped, asks>>

-----------------------------------------------------------------------------
\* The last date, over all the memorial's dates, as the notice takes it.
LastDate(m) == Max({DayOf[d] : d \in DatesOf[m]})
\* Mutant: the loop does not look for the notice it left a minute ago.
NeverAlready(m) == FALSE
Already(m) == notices[m] > 0

Finders(m) == {w \in Worker : m \in pass[w].finds}
Lapping(m) == LET n == Cardinality(Finders(m)) + 1 IN IF n > lapped[m] THEN n ELSE lapped[m]

\* An evening pass looks for what closes tomorrow and was not told of ...
LookForClosing(w) ==
    /\ ~pass[w].open
    /\ LET finds == {m \in onFile : LastDate(m) = today + 1 /\ ~Already(m)}
       IN  /\ pass' = [pass EXCEPT ![w] = [open |-> TRUE, finds |-> finds]]
           /\ lapped' = [m \in Memorial |-> IF m \in finds THEN Lapping(m) ELSE lapped[m]]
    /\ UNCHANGED <<used, onFile, dates, req, today, notices, word, clash, asks>>
\* ... and commits its notices with the rest of the evening's sweeps,
NotifyClosing(w) ==
    /\ pass[w].open
    /\ notices' = [m \in Memorial |-> notices[m] + (IF m \in pass[w].finds THEN 1 ELSE 0)]
    /\ pass' = [pass EXCEPT ![w] = NoPass]
    /\ UNCHANGED <<used, onFile, dates, req, today, word, clash, lapped, asks>>
\* or fails, and is rolled back.
PassIsLost(w) ==
    /\ pass[w].open
    /\ pass' = [pass EXCEPT ![w] = NoPass]
    /\ UNCHANGED <<used, onFile, dates, req, today, notices, word, clash, lapped, asks>>
DayEnds ==
    /\ today < LastDay /\ \A w \in Worker : ~pass[w].open
    /\ today' = today + 1
    /\ UNCHANGED <<used, onFile, dates, req, notices, pass, word, clash, lapped, asks>>

HandsNext == \E r \in Request : Load(r) \/ Save(r) \/ Abandon(r) \/ DeleteMemorial(r)
CareNext ==
    \/ \E m \in Memorial : Create(m)
    \/ HandsNext
    \/ \E w \in Worker : LookForClosing(w) \/ NotifyClosing(w) \/ PassIsLost(w)
    \/ DayEnds
CareSpec == CareInit /\ [][CareNext]_careVars

-----------------------------------------------------------------------------
\* What the mobed's calendar shows from one day to another, and which memorials it
\* closes there: those shown on the last of all their dates.
Feed(from, to) == {d \in UNION {DatesOf[m] : m \in onFile} : DayOf[d] \in from .. to}
\* Mutant: the last of the dates shown.
OnlyShown(m, shown) == DatesOf[m] \cap shown
EveryDate(m, shown) == DatesOf[m]
Closings(from, to) ==
    {m \in onFile : \E d \in DatesOf[m] \cap Feed(from, to) :
        DayOf[d] = Max({DayOf[e] : e \in EveryDate(m, Feed(from, to))})}
\* Where the memorial's own page says it has got to.
Running(m, on) == \E d \in DatesOf[m] : DayOf[d] >= on

\* A save changes what it was asked to and nothing else: until two requests overlap
\* on the same part of the same date, each part is as the last word on it left it.
EveryWordStands ==
    \A m \in onFile : \A d \in DatesOf[m] : \A p \in Part :
        <<d, p>> \notin clash => dates[d][p] = word[d][p]

\* Calendar, page and notice agree on when a memorial closes, whatever stretch the
\* calendar shows; and its mobed is told on the eve or later, no more often than there
\* were ever passes at once that had found it: once, where passes do not overlap.
ClosingsAgree ==
    /\ \A from, to \in 0 .. LastDay : \A m \in onFile :
        m \in Closings(from, to) <=> \E d \in from .. to : Running(m, d) /\ ~Running(m, d + 1)
    /\ \A m \in Memorial :
        /\ notices[m] <= lapped[m]
        /\ notices[m] > 0 /\ m \in onFile => m \in Closings(0, today + 1)

\* memorials.py: "Services must stay non-empty - an observance with nothing to do
\* is a mistake, not a state" (refuted by a run of its own).
NeverWithoutPrayers == \A m \in onFile : \A d \in DatesOf[m] : dates[d].prayers # {}
=============================================================================
