--------------------------- MODULE MemorialShare ---------------------------
(***************************************************************************)
(* Sending a memorial's schedule to its family as a PDF, from the shared   *)
(* number (services/memorial_share.py and its route): within one day,      *)
(* taps on "send" that overlap, may die, and race a STOP and each other    *)
(* for what is left of the limits.                                         *)
(*                                                                         *)
(* A tap checks, draws the PDF (seconds), takes one lock for all, checks   *)
(* again, commits a row that says "sending" (which frees the lock), posts, *)
(* and commits what WhatsApp answered.  The PDF and the words are left out.*)
(***************************************************************************)
EXTENDS Naturals, FiniteSets

CONSTANTS
    Behdin,      \* behdins with a memorial, each on its own mobed's record
    MobedOf,     \* [Behdin -> its mobed]
    NumberOf,    \* [Behdin -> its phone number]
    Tap,         \* requests to send that can be at work at once
    Nobody,      \* no one has the lock; no family
    ShareCap,    \* memorial_share_daily_cap, or the lower one of a new account
    GlobalCap,   \* memorial_share_global_daily_cap
    MaxRows,     \* bound: rows of the day
    MaxDeaths,   \* bound: requests that die
    MaxTurns     \* bound: STOPs, agreements, pauses

ASSUME ShareAssumption ==
    /\ Nobody \notin Tap
    /\ DOMAIN MobedOf = Behdin /\ DOMAIN NumberOf = Behdin
    /\ ShareCap \in Nat /\ GlobalCap \in Nat
    /\ MaxRows \in Nat /\ MaxDeaths \in Nat /\ MaxTurns \in Nat

VARIABLES
    agrees,     \* families whose record has reminders on
    said,       \* ... whose record holds a STOP
    halted,     \* the pause switch
    rows,       \* [1 .. MaxRows -> the day's rows, as committed]
    lock,       \* who has the lock
    tap,        \* [Tap -> a request, and what it read]
    capAlert,   \* the admins have their "Schedule sending hit its daily limit"
    arrived,    \* observer: [number -> schedules that WhatsApp accepted]
    unheard,    \* observer: numbers with a message whose answer never came
    deaths, turns   \* bounds

shareBook == <<agrees, said, halted>>
shareVars == <<shareBook, rows, lock, tap, capAlert, arrived, unheard, deaths, turns>>

Numbers == {NumberOf[f] : f \in Behdin}
RowId == 1 .. MaxRows
ShareRow == [status : {"none", "sending", "sent", "failed"}, family : Behdin \cup {Nobody}]
NoTap == [at |-> "idle"]
TapState == [at : {"draw", "locked", "clear", "posting", "sent", "failed"}, family : Behdin,
             agreed : BOOLEAN, stopped : BOOLEAN, row : 0 .. MaxRows]

ShareInit ==
    /\ agrees = Behdin /\ said = {} /\ halted = FALSE
    /\ rows = [i \in RowId |-> [status |-> "none", family |-> Nobody]]
    /\ lock = Nobody
    /\ tap = [t \in Tap |-> NoTap]
    /\ capAlert = FALSE
    /\ arrived = [p \in Numbers |-> 0] /\ unheard = {} /\ deaths = 0 /\ turns = 0

-----------------------------------------------------------------------------
\* Mutant: only what WhatsApp has taken counts.
SentForSure == {i \in RowId : rows[i].status = "sent"}
\* Sent today, or going: a failed one was not sent.
SentToday == {i \in RowId : rows[i].status \in {"sending", "sent"}}
SentTo(p) == {i \in SentToday : NumberOf[rows[i].family] = p}
SentBy(m) == {i \in SentToday : MobedOf[rows[i].family] = m}

\* Why it cannot go, in the order of blocked_reason.  What the record says is what
\* the request read when it began; the switch and the rows are read each time.
ShareRefused(f, agreed, stopped) ==
    \/ halted \/ ~agreed \/ stopped
    \/ SentTo(NumberOf[f]) # {}
    \/ Cardinality(SentBy(MobedOf[f])) >= ShareCap
AtGlobalCap == Cardinality(SentToday) >= GlobalCap
ShareBlocked(f, agreed, stopped) == ShareRefused(f, agreed, stopped) \/ AtGlobalCap
\* Refused for the limit of all: the admins are told, and that is committed.
TellAdmins(f, agreed, stopped) ==
    capAlert' = (capAlert \/ (~ShareRefused(f, agreed, stopped) /\ AtGlobalCap))

\* The first check.
Share(t, f) ==
    /\ tap[t] = NoTap
    /\ IF ShareBlocked(f, f \in agrees, f \in said)
       THEN UNCHANGED tap
       ELSE tap' = [tap EXCEPT ![t] = [at |-> "draw", family |-> f, agreed |-> f \in agrees,
                                       stopped |-> f \in said, row |-> 0]]
    /\ TellAdmins(f, f \in agrees, f \in said)
    /\ UNCHANGED <<shareBook, rows, lock, arrived, unheard, deaths, turns>>

\* Mutant: the lock keeps nobody out.
NoLock == TRUE
LockFree == lock = Nobody
\* The PDF is drawn; the lock is waited for.
TakeLock(t) ==
    /\ tap[t].at = "draw" /\ LockFree
    /\ lock' = t
    /\ tap' = [tap EXCEPT ![t].at = "locked"]
    /\ UNCHANGED <<shareBook, rows, capAlert, arrived, unheard, deaths, turns>>

Freed(t) == IF lock = t THEN Nobody ELSE lock
\* The second check, under the lock.
CheckAgain(t) ==
    LET f == tap[t].family
        blocked == ShareBlocked(f, tap[t].agreed, tap[t].stopped)
    IN /\ tap[t].at = "locked"
       /\ tap' = IF blocked THEN [tap EXCEPT ![t] = NoTap] ELSE [tap EXCEPT ![t].at = "clear"]
       /\ lock' = IF blocked THEN Freed(t) ELSE lock
       /\ TellAdmins(f, tap[t].agreed, tap[t].stopped)
       /\ UNCHANGED <<shareBook, rows, arrived, unheard, deaths, turns>>

\* The row is committed before Meta is called.
RecordSending(t) ==
    /\ tap[t].at = "clear"
    /\ \E i \in RowId :
         /\ rows[i].status = "none" /\ \A j \in 1 .. i - 1 : rows[j].status # "none"
         /\ rows' = [rows EXCEPT ![i] = [status |-> "sending", family |-> tap[t].family]]
         /\ tap' = [tap EXCEPT ![t].at = "posting", ![t].row = i]
    /\ lock' = Freed(t)
    /\ UNCHANGED <<shareBook, capAlert, arrived, unheard, deaths, turns>>

Outcome(accepted, answered) == IF accepted /\ answered THEN "sent" ELSE "failed"
\* Uploaded and posted: accepted, refused, or no answer, which is called failed.
PostPdf(t) ==
    LET p == NumberOf[tap[t].family] IN
    /\ tap[t].at = "posting"
    /\ \E accepted, answered \in BOOLEAN :
         /\ arrived' = IF accepted THEN [arrived EXCEPT ![p] = @ + 1] ELSE arrived
         /\ unheard' = IF answered THEN unheard ELSE unheard \cup {p}
         /\ tap' = [tap EXCEPT ![t].at = Outcome(accepted, answered)]
    /\ UNCHANGED <<shareBook, rows, lock, capAlert, deaths, turns>>

RecordOutcome(t) ==
    /\ tap[t].at \in {"sent", "failed"}
    /\ rows' = [rows EXCEPT ![tap[t].row].status = tap[t].at]
    /\ tap' = [tap EXCEPT ![t] = NoTap]
    /\ UNCHANGED <<shareBook, lock, capAlert, arrived, unheard, deaths, turns>>

\* The process dies; what was committed stays.
TapDies(t) ==
    /\ tap[t] # NoTap /\ deaths < MaxDeaths
    /\ deaths' = deaths + 1
    /\ tap' = [tap EXCEPT ![t] = NoTap]
    /\ lock' = Freed(t)
    /\ UNCHANGED <<shareBook, rows, capAlert, arrived, unheard, turns>>

\* Meanwhile: a STOP on every record of the number, an agreement, a pause.
Turn(A) == turns < MaxTurns /\ turns' = turns + 1 /\ A
           /\ UNCHANGED <<rows, lock, tap, capAlert, arrived, unheard, deaths>>
StopFrom(p) ==
    LET its == {f \in Behdin : NumberOf[f] = p}
    IN Turn(agrees' = agrees \ its /\ said' = said \cup its /\ UNCHANGED halted)
AgreeAgain(f) == Turn(agrees' = agrees \cup {f} /\ said' = said \ {f} /\ UNCHANGED halted)
FlipSwitch == Turn(halted' = ~halted /\ UNCHANGED <<agrees, said>>)

ShareStep(t) == TakeLock(t) \/ CheckAgain(t) \/ RecordSending(t) \/ PostPdf(t) \/ RecordOutcome(t) \/ TapDies(t)
ShareNext ==
    \/ \E t \in Tap, f \in Behdin : Share(t, f)
    \/ \E t \in Tap : ShareStep(t)
    \/ \E p \in Numbers : StopFrom(p)
    \/ \E f \in Behdin : AgreeAgain(f)
    \/ FlipSwitch

ShareSpec == ShareInit /\ [][ShareNext]_shareVars
-----------------------------------------------------------------------------
\* However taps overlap and die, what counts as sent stays within each limit: one
\* schedule a day to a number, so many by a mobed, so many by all (SEC-03).
WithinShareCaps ==
    /\ \A p \in Numbers : Cardinality(SentTo(p)) <= 1
    /\ \A f \in Behdin : Cardinality(SentBy(MobedOf[f])) <= ShareCap
    /\ Cardinality(SentToday) <= GlobalCap

\* A number gets a second schedule in a day only if the answer to one was lost;
\* and one that went without a row to show for it is one still being posted.
OneADayUnlessLost ==
    \A p \in Numbers \ unheard :
        /\ arrived[p] <= 1
        /\ arrived[p] = 1 => SentTo(p) # {}
=============================================================================
