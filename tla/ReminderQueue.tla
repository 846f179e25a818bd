---------------------------- MODULE ReminderQueue ----------------------------
(***************************************************************************)
(* The evening worker: it plans one reminder row for each of tomorrow's    *)
(* observances that may be reminded (plan_tomorrow) and posts the rows to  *)
(* WhatsApp one at a time (send_pending), while mobeds, families and       *)
(* admins go on acting.  One evening, with sending live.                   *)
(*                                                                         *)
(* A worker's pass is a sequence of database transactions; each is one     *)
(* action, and between any two of them the book, the pause switch, another *)
(* worker or a crash may come.  A row is picked, judged and marked in one  *)
(* transaction under its lock, so that is one action as well.              *)
(***************************************************************************)
EXTENDS MobedBook

CONSTANTS
    Worker,        \* processes running run_forever (two while deploys overlap)
    None,          \* no row in hand
    Allowlist,     \* numbers that live reminders may go to
    Unsendable,    \* observances whose free text breaks the template rules
    DailyCap,      \* reminders a day, all fire temples
    MobedCap,      \* reminders a day, one mobed
    MaxAttempts,   \* tries before a reminder is given up on
    Breaker,       \* failures in a row that pause everything
    MaxCrashes     \* bound: crashes of workers in a behaviour

ASSUME QueueAssumption ==
    /\ None \notin Obs
    /\ Allowlist \subseteq Phone
    /\ Unsendable \subseteq Obs
    /\ DailyCap \in Nat /\ MobedCap \in Nat
    /\ MaxAttempts \in Nat \ {0}
    /\ Breaker \in Nat \ {0}
    /\ MaxCrashes \in Nat

VARIABLES
    row,       \* [Obs -> its one notifications row, status "none" if there is none]
    told,      \* [Obs -> "reminder_failed" notices left for its mobed]
    summed,    \* observances named in a "reminders_sent" notice
    paused,    \* app_settings.reminders_paused: why, or "" when running
    alerts,    \* titles of the admin alerts made this evening (not repeated for 6 hours)
    clock,     \* "evening" in the sending window, "late" past the cutoff
    pc,        \* [Worker -> where its pass is]
    pass,      \* [Worker -> what the pass remembers]
    hand,      \* [Worker -> the row it is posting]
    answer,    \* [Worker -> how WhatsApp answered the post]
    accepted,  \* observer: [Obs -> times WhatsApp accepted its message]
    crashes    \* how many crashes have happened (bounds the model only)

rowVars == <<row, told, summed>>
switchVars == <<paused, alerts>>
workVars == <<pc, pass, hand, answer>>
queueVars == <<rowVars, switchVars, workVars, clock, accepted, crashes>>
vars == <<bookVars, queueVars>>

Status == {"none", "pending", "sending", "sent", "failed"}
\* Why a row failed (error_message, by kind).
Reason == {"", "capped", "barred", "late", "withdrawn", "refused", "unknown"}
RowState == [status : Status, id : Nat, phone : Phone \cup {NoPhone}, tries : Nat,
             why : Reason, stale : BOOLEAN]
Answer == {"", "ok", "unknown", "transient", "permanent", "recipient", "account"}
PassState == [late : BOOLEAN,                        \* past the cutoff, by the tick's own now
              paused : BOOLEAN,                      \* the switch, read once per pass
              streak : Nat,                          \* failures in a row in this pass
              offer : [Obs -> Phone \cup {NoPhone}], \* the planner's read: whom to remind
              counted : SUBSET Obs,                  \* the planner's read: rows that count today
              owned : SUBSET Obs,                    \* ... and still have an owner
              sent : SUBSET Obs]                     \* sent in this pass, to be summed up
Place == {"idle", "plan", "open", "send", "post", "settle", "trip", "close"}

\* The types, and that a row is in hand exactly while it is posted and settled.
QueueTypeOK ==
    /\ row \in [Obs -> RowState]
    /\ told \in [Obs -> Nat]
    /\ summed \subseteq Obs
    /\ paused \in {"", "admin", "breaker", "account"}
    /\ alerts \subseteq {"limit", "paused"}
    /\ clock \in {"evening", "late"}
    /\ pc \in [Worker -> Place]
    /\ pass \in [Worker -> PassState]
    /\ hand \in [Worker -> Obs \cup {None}]
    /\ answer \in [Worker -> Answer]
    /\ accepted \in [Obs -> Nat]
    /\ crashes \in Nat
    /\ \A w \in Worker : hand[w] # None <=> pc[w] \in {"post", "settle"}
    /\ \A w \in Worker : answer[w] # "" <=> pc[w] = "settle"

TypeOK == BookTypeOK /\ QueueTypeOK

NoRow == [status |-> "none", id |-> 0, phone |-> NoPhone, tries |-> 0, why |-> "", stale |-> FALSE]
FreshPass == [late |-> FALSE, paused |-> FALSE, streak |-> 0, offer |-> [o \in Obs |-> NoPhone],
              counted |-> {}, owned |-> {}, sent |-> {}]

Init ==
    /\ BookInit
    /\ row = [o \in Obs |-> NoRow]
    /\ told = [o \in Obs |-> 0]
    /\ summed = {}
    /\ paused = ""
    /\ alerts = {}
    /\ clock = "evening"
    /\ pc = [w \in Worker |-> "idle"]
    /\ pass = [w \in Worker |-> FreshPass]
    /\ hand = [w \in Worker |-> None]
    /\ answer = [w \in Worker |-> ""]
    /\ accepted = [o \in Obs |-> 0]
    /\ crashes = 0

-----------------------------------------------------------------------------
\* One more "reminder_failed" notice for each of S; nobody hears of a row
\* whose memorial, and so whose mobed, is gone.
TellMobeds(S) == told' = [o \in Obs |-> IF o \in S /\ prayer[o].live THEN told[o] + 1 ELSE told[o]]

\* Rows the caps and the one-per-number rule count: planned or sent, not failed.
Counted == {o \in Obs : row[o].status \in {"pending", "sending", "sent"}}

\* Owners are found through the memorial, so the row of a deleted one has none.
Owned == {o \in Counted : prayer[o].live}

Goto(w, place) == pc' = [pc EXCEPT ![w] = place]

(***************************************************************************)
(* Planning.                                                               *)
(***************************************************************************)

\* The planner's query: tomorrow's observances of families that agreed.
Remindable(o) == prayer[o].live /\ ~prayer[o].byHand /\ Agreed(RecordOf[o])

\* A tick reads the time once.  In the window it first reads what to plan.
StartTick(w) ==
    /\ pc[w] = "idle"
    /\ Goto(w, IF clock = "evening" THEN "plan" ELSE "open")
    /\ pass' = [pass EXCEPT ![w] =
         IF clock = "evening"
         THEN [FreshPass EXCEPT
                 !.offer = [o \in Obs |-> IF Remindable(o) THEN record[RecordOf[o]].phone ELSE NoPhone],
                 !.counted = Counted, !.owned = Owned]
         ELSE [FreshPass EXCEPT !.late = TRUE]]
    /\ UNCHANGED <<bookVars, rowVars, switchVars, hand, answer, clock, accepted, crashes>>

\* Mutant: an observance given up on is planned again by every tick.
FreshOrFailed(w) == {o \in Obs : pass[w].offer[o] \in Allowlist /\ row[o].status \in {"none", "failed"}}

\* What a pass goes through: on the allowlist, and not planned before.
Fresh(w) == {o \in Obs : pass[w].offer[o] \in Allowlist /\ row[o].status = "none"}

\* Mutant: a number queued in this pass is not remembered.
BarredByReadOnly(w, o, S) ==
    \/ o \in Unsendable
    \/ \E q \in pass[w].counted : row[q].phone = pass[w].offer[o]

\* The wording cannot be sent, or the number has its reminder for today, when
\* the observances in S were queued before o in this pass.
Barred(w, o, S) ==
    \/ o \in Unsendable
    \/ \E q \in pass[w].counted : row[q].phone = pass[w].offer[o]
    \/ \E q \in S : pass[w].offer[q] = pass[w].offer[o]

\* Mutant: what this pass has queued for the mobed is not added to the count.
CappedNotAdded(w, o, S) ==
    \/ Cardinality(pass[w].counted \cup S) >= DailyCap
    \/ Cardinality({q \in pass[w].owned : Owner[RecordOf[q]] = Owner[RecordOf[o]]}) >= MobedCap

Capped(w, o, S) ==
    \/ Cardinality(pass[w].counted \cup S) >= DailyCap
    \/ Cardinality({q \in pass[w].owned \cup S : Owner[RecordOf[q]] = Owner[RecordOf[o]]}) >= MobedCap

\* Those queued among the observances up to i, gone through in id order: each
\* one queued counts against those after it.
QueuedUpTo(w) ==
    LET queued[i \in 0 .. LastObs] ==
          IF i = 0 THEN {}
          ELSE LET before == queued[i - 1]
               IN  IF i \in Fresh(w) /\ ~Barred(w, i, before) /\ ~Capped(w, i, before)
                   THEN before \cup {i} ELSE before
    IN  queued

AlertOfCap(capped) == alerts' = IF capped # {} THEN alerts \cup {"limit"} ELSE alerts

NewRow(id, phone, status, why) ==
    [status |-> status, id |-> id, phone |-> phone, tries |-> 0, why |-> why, stale |-> FALSE]

\* Each observance gone through gets its one row: pending, or failed with the
\* mobed told why; a cap that was reached also alerts the admins.
WritePlan(w) ==
    LET fresh == Fresh(w)
        queued == QueuedUpTo(w)
        planned == {o \in fresh : o \in queued[o]}
        capped == {o \in fresh \ planned : ~Barred(w, o, queued[o - 1])}
        rows == {o \in Obs : row[o].status # "none"}
    IN  /\ pc[w] = "plan"
        /\ \A o \in fresh : prayer[o].live
        /\ row' = [o \in Obs |->
             IF o \notin fresh THEN row[o]
             ELSE NewRow(Cardinality(rows) + Cardinality({q \in fresh : q <= o}), pass[w].offer[o],
                         IF o \in planned THEN "pending" ELSE "failed",
                         IF o \in planned THEN "" ELSE IF o \in capped THEN "capped" ELSE "barred")]
        /\ TellMobeds(fresh \ planned)
        /\ AlertOfCap(capped)
        /\ pass' = [pass EXCEPT ![w] = FreshPass]
        /\ Goto(w, "open")
        /\ UNCHANGED <<bookVars, summed, paused, hand, answer, clock, accepted, crashes>>

\* A memorial deleted since the read makes an insert fail on its foreign key:
\* the transaction is rolled back and the tick ends with the error logged.
PlanFails(w) ==
    /\ pc[w] = "plan"
    /\ \E o \in Fresh(w) : ~prayer[o].live
    /\ Goto(w, "idle")
    /\ pass' = [pass EXCEPT ![w] = FreshPass]
    /\ UNCHANGED <<bookVars, rowVars, switchVars, hand, answer, clock, accepted, crashes>>

(***************************************************************************)
(* Sending.                                                                *)
(***************************************************************************)

\* Mutant: five minutes are not waited for.
StuckAtOnce == {o \in Obs : row[o].status = "sending"}
\* Rows whose sender was lost.
Stuck == {o \in Obs : row[o].status = "sending" /\ row[o].stale}

\* Mutant: such a row is queued again.
QueuedAgain(n) == [n EXCEPT !.status = "pending", !.stale = FALSE]
WrittenOff(n) == [n EXCEPT !.status = "failed", !.why = "unknown", !.stale = FALSE]

\* The pass reads the pause switch, and closes the stuck rows.
OpenQueue(w) ==
    /\ pc[w] = "open"
    /\ row' = [o \in Obs |-> IF o \in Stuck THEN WrittenOff(row[o]) ELSE row[o]]
    /\ TellMobeds(Stuck)
    /\ pass' = [pass EXCEPT ![w].paused = (paused # "")]
    /\ Goto(w, "send")
    /\ UNCHANGED <<bookVars, summed, switchVars, hand, answer, clock, accepted, crashes>>

Pending == {o \in Obs : row[o].status = "pending"}
\* The pending row with the lowest id.
Head(o) == o \in Pending /\ \A q \in Pending : row[o].id <= row[q].id

\* Mutant: only the record is looked at again, not its agreement.
WithdrawnRecord(o) == ~prayer[o].live \/ record[RecordOf[o]].kept # "listed"
\* Judged again just before it goes: the record, its STOP, its mobed's switch.
Withdrawn(o) == ~prayer[o].live \/ ~Agreed(RecordOf[o])

\* Mutant: the mark is left to be committed with the answer.
Unmarked(n) == n

\* What becomes of a row.
Marked(n) == [n EXCEPT !.status = "sending"]
Sent(n) == [n EXCEPT !.status = "sent"]
Requeued(n) == [n EXCEPT !.status = "pending"]
Tried(n) == [n EXCEPT !.tries = @ + 1]
Failed(n, why) == [n EXCEPT !.status = "failed", !.why = why]

\* Mutant: a paused pass leaves even past the cutoff.
LeaveWhenPaused(w) ==
    /\ pc[w] = "send"
    /\ Pending = {} \/ pass[w].paused
    /\ Goto(w, "close")
    /\ UNCHANGED <<bookVars, rowVars, switchVars, pass, hand, answer, clock, accepted, crashes>>

\* Nothing is pending, or sending was paused when the pass began.
LeaveQueue(w) ==
    /\ pc[w] = "send"
    /\ Pending = {} \/ (pass[w].paused /\ ~pass[w].late)
    /\ Goto(w, "close")
    /\ UNCHANGED <<bookVars, rowVars, switchVars, pass, hand, answer, clock, accepted, crashes>>

GiveUpLate(w, o) ==
    /\ pc[w] = "send" /\ Head(o)
    /\ pass[w].late
    /\ row' = [row EXCEPT ![o] = Failed(@, "late")]
    /\ TellMobeds({o})
    /\ UNCHANGED <<bookVars, summed, switchVars, workVars, clock, accepted, crashes>>

DropWithdrawn(w, o) ==
    /\ pc[w] = "send" /\ Head(o)
    /\ ~pass[w].late /\ ~pass[w].paused
    /\ Withdrawn(o)
    /\ row' = [row EXCEPT ![o] = Failed(@, "withdrawn")]
    /\ UNCHANGED <<bookVars, told, summed, switchVars, workVars, clock, accepted, crashes>>

\* Marked as on its way, and committed, before it is handed to WhatsApp.
MarkSending(w, o) ==
    /\ pc[w] = "send" /\ Head(o)
    /\ ~pass[w].late /\ ~pass[w].paused
    /\ ~Withdrawn(o)
    /\ row' = [row EXCEPT ![o] = Marked(@)]
    /\ hand' = [hand EXCEPT ![w] = o]
    /\ Goto(w, "post")
    /\ UNCHANGED <<bookVars, told, summed, switchVars, pass, answer, clock, accepted, crashes>>

\* WhatsApp's side of the POST: accepted and answered; no answer, accepted or
\* not; or refused in one of the ways _post tells apart.
PostMessage(w) ==
    /\ pc[w] = "post"
    /\ \E a \in Answer \ {""}, taken \in BOOLEAN :
         /\ a = "ok" => taken
         /\ taken => a \in {"ok", "unknown"}
         /\ answer' = [answer EXCEPT ![w] = a]
         /\ accepted' = IF taken THEN [accepted EXCEPT ![hand[w]] = @ + 1] ELSE accepted
    /\ Goto(w, "settle")
    /\ UNCHANGED <<bookVars, rowVars, switchVars, pass, hand, clock, crashes>>

\* Mutant: the answer is cleared and the row is not.
LetGoOfAnswer(w) == UNCHANGED hand /\ answer' = [answer EXCEPT ![w] = ""]

\* The row is settled: the pass lets go of it and, unless the breaker's count
\* is reached, goes on to the next.
LetGo(w) == /\ hand' = [hand EXCEPT ![w] = None]
            /\ answer' = [answer EXCEPT ![w] = ""]

CountFailure(w, n) ==
    /\ pass' = [pass EXCEPT ![w].streak = @ + n]
    /\ Goto(w, IF pass[w].streak + n >= Breaker THEN "trip" ELSE "send")

\* Mutant: no answer is taken for an acceptance.
WentOrNoAnswer == {"ok", "unknown"}
Went == {"ok"}

SettleSent(w) ==
    /\ pc[w] = "settle" /\ answer[w] \in Went
    /\ row' = [row EXCEPT ![hand[w]] = Sent(@)]
    /\ pass' = [pass EXCEPT ![w].streak = 0,
                            ![w].sent = @ \cup {o \in {hand[w]} : prayer[o].live}]
    /\ Goto(w, "send")
    /\ LetGo(w)
    /\ UNCHANGED <<bookVars, told, summed, switchVars, clock, accepted, crashes>>

\* No answer: it may have gone, so it is never tried again.
SettleUnknown(w) ==
    /\ pc[w] = "settle" /\ answer[w] = "unknown"
    /\ row' = [row EXCEPT ![hand[w]] = Failed(@, "unknown")]
    /\ TellMobeds({hand[w]})
    /\ CountFailure(w, 0)
    /\ LetGo(w)
    /\ UNCHANGED <<bookVars, summed, switchVars, clock, accepted, crashes>>

\* Refused for good; a bad number does not count towards the breaker.
SettleRefused(w) ==
    /\ pc[w] = "settle" /\ answer[w] \in {"permanent", "recipient"}
    /\ row' = [row EXCEPT ![hand[w]] = Failed(@, "refused")]
    /\ TellMobeds({hand[w]})
    /\ CountFailure(w, IF answer[w] = "recipient" THEN 0 ELSE 1)
    /\ LetGo(w)
    /\ UNCHANGED <<bookVars, summed, switchVars, clock, accepted, crashes>>

\* An outage: tried again by a later pass, and this pass ends ...
SettleRetry(w) ==
    /\ pc[w] = "settle" /\ answer[w] = "transient"
    /\ row[hand[w]].tries + 1 < MaxAttempts
    /\ row' = [row EXCEPT ![hand[w]] = Requeued(Tried(@))]
    /\ Goto(w, "close")
    /\ LetGo(w)
    /\ UNCHANGED <<bookVars, told, summed, switchVars, pass, clock, accepted, crashes>>

\* ... until the tries are used up.
SettleExhausted(w) ==
    /\ pc[w] = "settle" /\ answer[w] = "transient"
    /\ row[hand[w]].tries + 1 >= MaxAttempts
    /\ row' = [row EXCEPT ![hand[w]] = Failed(Tried(@), "refused")]
    /\ TellMobeds({hand[w]})
    /\ CountFailure(w, 1)
    /\ LetGo(w)
    /\ UNCHANGED <<bookVars, summed, switchVars, clock, accepted, crashes>>

\* guardrails.pause: the reason is kept, and the admins alerted once an evening.
Pause(why) == /\ paused' = why
              /\ alerts' = alerts \cup {"paused"}

\* The account itself is at fault: the row stays pending and everything stops.
SettleAccount(w) ==
    /\ pc[w] = "settle" /\ answer[w] = "account"
    /\ row' = [row EXCEPT ![hand[w]] = Requeued(@)]
    /\ Pause("account")
    /\ Goto(w, "close")
    /\ LetGo(w)
    /\ UNCHANGED <<bookVars, told, summed, pass, clock, accepted, crashes>>

\* Mutant: the pass goes on to the next row.
TripAndGoOn(w) ==
    /\ pc[w] = "trip"
    /\ Pause("breaker")
    /\ Goto(w, "send")
    /\ UNCHANGED <<bookVars, rowVars, pass, hand, answer, clock, accepted, crashes>>

\* The breaker pauses in a transaction of its own, after the last failure's.
TripBreaker(w) ==
    /\ pc[w] = "trip"
    /\ Pause("breaker")
    /\ Goto(w, "close")
    /\ UNCHANGED <<bookVars, rowVars, pass, hand, answer, clock, accepted, crashes>>

\* Each mobed gets one notice of what was sent; the worker sleeps till the next tick.
ClosePass(w) ==
    /\ pc[w] = "close"
    /\ summed' = summed \cup pass[w].sent
    /\ pass' = [pass EXCEPT ![w] = FreshPass]
    /\ Goto(w, "idle")
    /\ UNCHANGED <<bookVars, row, told, switchVars, hand, answer, clock, accepted, crashes>>

-----------------------------------------------------------------------------
(***************************************************************************)
(* Around the worker.                                                      *)
(***************************************************************************)

\* The process dies, or an error ends the tick: what was not committed is lost.
Crash(w) ==
    /\ crashes < MaxCrashes
    /\ pc[w] # "idle"
    /\ crashes' = crashes + 1
    /\ Goto(w, "idle")
    /\ pass' = [pass EXCEPT ![w] = FreshPass]
    /\ LetGo(w)
    /\ UNCHANGED <<bookVars, rowVars, switchVars, clock, accepted>>

\* Five minutes go by without a change to a row whose sender was lost.  A live
\* sender waits 20 seconds at most for each step of a post, so its row is never stale.
GoStale(o) ==
    /\ row[o].status = "sending" /\ ~row[o].stale
    /\ \A w \in Worker : hand[w] # o
    /\ row' = [row EXCEPT ![o].stale = TRUE]
    /\ UNCHANGED <<bookVars, told, summed, switchVars, workVars, clock, accepted, crashes>>

CutOff ==
    /\ clock = "evening"
    /\ clock' = "late"
    /\ UNCHANGED <<bookVars, rowVars, switchVars, workVars, accepted, crashes>>

AdminPause ==
    /\ Act
    /\ Pause("admin")
    /\ UNCHANGED <<record, optOut, prayer, lifted, rowVars, workVars, clock, accepted, crashes>>

AdminResume ==
    /\ Act
    /\ paused' = ""
    /\ UNCHANGED <<record, optOut, prayer, lifted, alerts, rowVars, workVars, clock, accepted, crashes>>

-----------------------------------------------------------------------------
Planning(w) == StartTick(w) \/ WritePlan(w) \/ PlanFails(w)

Sending(w) ==
    \/ OpenQueue(w) \/ LeaveQueue(w)
    \/ \E o \in Obs : GiveUpLate(w, o) \/ DropWithdrawn(w, o) \/ MarkSending(w, o)
    \/ PostMessage(w)
    \/ ClosePass(w)

Settling(w) ==
    \/ SettleSent(w) \/ SettleUnknown(w) \/ SettleRefused(w)
    \/ SettleRetry(w) \/ SettleExhausted(w) \/ SettleAccount(w) \/ TripBreaker(w)

Work(w) == Planning(w) \/ Sending(w) \/ Settling(w)

\* Mobeds and families act; the worker finds out when it next reads.
InTheBook == BookNext /\ UNCHANGED queueVars

Next ==
    \/ \E w \in Worker : Work(w) \/ Crash(w)
    \/ \E o \in Obs : GoStale(o)
    \/ CutOff
    \/ AdminPause \/ AdminResume
    \/ InTheBook

Spec == Init /\ [][Next]_vars

\* The loop runs a pass every minute and a process that dies is restarted; a
\* lost sender's row grows old; the evening ends.
Fairness ==
    /\ \A w \in Worker : WF_vars(Work(w))
    /\ \A o \in Obs : WF_vars(GoStale(o))
    /\ WF_vars(CutOff)

FairSpec == Spec /\ Fairness

-----------------------------------------------------------------------------
(***************************************************************************)
(* Properties.                                                             *)
(***************************************************************************)

\* "At most once per observance": WhatsApp never accepts a second message for
\* one observance, whatever is retried, restarted or run twice (the unique row,
\* the mark committed before the post, _Unknown and the stuck sweep).
AtMostOnce == \A o \in Obs : accepted[o] <= 1

\* A row on its way is in one pair of hands or in none, and only a row in
\* nobody's hands is ever written off by the stuck sweep: what its worker is
\* about to write is never already decided (skip_locked, the mark committed
\* before the post, and five minutes longer than any post).
Custody ==
    /\ \A w \in Worker : hand[w] # None => row[hand[w]].status = "sending" /\ ~row[hand[w]].stale
    /\ \A w, v \in Worker : hand[w] # None /\ hand[w] = hand[v] => w = v
    /\ \A o \in Obs : row[o].stale => row[o].status = "sending"

\* What the mobed is told was not sent, and what a pass may still send, really
\* has not gone: only "we could not tell" may hide a message that went.
NotSentIsTrue ==
    \A o \in Obs : row[o].status \in {"none", "pending"} \/ (row[o].status = "failed" /\ row[o].why # "unknown")
                   => accepted[o] = 0

\* A reminder shown as sent, or named in the evening's summary, did go.
SentIsTrue ==
    \A o \in Obs : row[o].status = "sent" \/ o \in summed => accepted[o] = 1 /\ row[o].status = "sent"

\* What the workers know and have not yet written agrees with what went: a row
\* about to be posted has not gone, one to be settled went if its answer says
\* so, and a pass only remembers as sent what the rows say was sent.
InTransit ==
    \A w \in Worker :
        /\ pc[w] = "post" => accepted[hand[w]] = 0
        /\ answer[w] = "ok" => accepted[hand[w]] = 1
        /\ answer[w] \notin {"", "ok", "unknown"} => accepted[hand[w]] = 0
        /\ \A o \in pass[w].sent : row[o].status = "sent"

\* Together they are inductive: what each step relies on is in it.
Ledger == TypeOK /\ Custody /\ InTransit /\ AtMostOnce /\ NotSentIsTrue /\ SentIsTrue

\* A reminder that will not go is told to its mobed exactly once, unless the
\* agreement had been withdrawn or the memorial deleted; one that may yet go,
\* or went, never is (the failed rows of planning, sending and sweeping).
MobedToldOnce ==
    \A o \in Obs :
        /\ told[o] <= 1
        /\ told[o] = 1 => row[o].status = "failed"
        /\ row[o].status = "failed" /\ row[o].why # "withdrawn" /\ prayer[o].live => told[o] = 1

\* With one worker the reminders that count never exceed the day's cap nor
\* their mobed's, and no two of them are for one number, however ticks, failures,
\* changes of the book and crashes fall.
WithinCaps ==
    /\ Cardinality(Counted) <= DailyCap
    /\ \A o, q \in Counted : row[o].phone = row[q].phone => o = q
    /\ \A r \in Record : Cardinality({o \in Owned : Owner[RecordOf[o]] = Owner[r]}) <= MobedCap

Handover(w, o) == hand[w] = None /\ hand'[w] = o

\* A STOP wins until the moment a reminder is marked: nothing is then handed
\* over to a number that ever replied STOP, except through a record that still
\* holds the number and whose own mobed lifted the STOP, or moved the number.
StopWins ==
    [][\A w \in Worker, o \in Obs :
          Handover(w, o) /\ row[o].phone \in optOut
          => RecordOf[o] \in lifted \/ record[RecordOf[o]].phone # row[o].phone]_vars

\* With one worker, once the loop has paused itself (an account problem, the
\* breaker) nothing is handed over until an admin resumes, even across a crash.
BreakerHolds ==
    [][\A w \in Worker, o \in Obs : Handover(w, o) => paused \notin {"breaker", "account"}]_vars

\* The promise of ReminderPromise: decided on once, tried only while no copy can
\* have gone, and never revised.
FateOf(n) ==
    CASE n.status = "none"    -> "none"
      [] n.status = "pending" -> "queued"
      [] n.status = "sending" -> "trying"
      [] n.status = "sent"    -> "sent"
      [] n.status = "failed" /\ n.why = "unknown" -> "unknown"
      [] OTHER                -> "not sent"
Fate == [o \in Obs |-> FateOf(row[o])]
Promise == INSTANCE ReminderPromise WITH fate <- Fate, copies <- accepted
PromiseKept == Promise!Spec

\* Every reminder that is planned is settled: sent, or failed for good.  It
\* never waits for ever on a pause, an outage, a lost sender or an empty evening.
EveryReminderSettles ==
    \A o \in Obs : row[o].status \in {"pending", "sending"} ~> row[o].status \in {"sent", "failed"}

-----------------------------------------------------------------------------
(***************************************************************************)
(* What the documents say and the code does not do (refuted by a run of    *)
(* its own).                                                               *)
(***************************************************************************)

\* The "reminded" route: "The mobed told the family themselves.  Nothing is
\* then sent automatically for it."
ToldByHandIsNotSent ==
    [][\A w \in Worker, o \in Obs : Handover(w, o) => ~prayer[o].byHand]_vars
=============================================================================
