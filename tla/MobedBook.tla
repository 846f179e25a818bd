------------------------------ MODULE MobedBook ------------------------------
(***************************************************************************)
(* The mobeds' books: their records of families, the agreement to be       *)
(* reminded, the STOP that withdraws it, and the memorial dates a reminder  *)
(* is about.  Every operation is one database transaction of a request or  *)
(* of Meta's webhook, and is one action here.                              *)
(*                                                                         *)
(* A record belongs to one mobed (Owner) and holds one number; two mobeds  *)
(* who serve the same family keep two records of the same number.  A       *)
(* memorial is represented by the dates that hang off one record.          *)
(***************************************************************************)
EXTENDS Integers, FiniteSets

CONSTANTS
    Record,      \* rows of customers
    Phone,       \* numbers
    NoPhone,     \* no number: the record is not on file
    Owner,       \* [Record -> mobed]
    LastObs,     \* the memorial_observances dated tomorrow, past the opening days: ids 1 .. LastObs
    RecordOf,    \* [Obs -> Record]: the family the memorial is for
    HasEvents,   \* records that a booking, machi or payment points at that no deletion removes
    MaxActs      \* bound: acts of mobeds, families and admins in a behaviour

Obs == 1 .. LastObs

ASSUME BookAssumption ==
    /\ NoPhone \notin Phone
    /\ DOMAIN Owner = Record
    /\ LastObs \in Nat
    /\ RecordOf \in [Obs -> Record]
    /\ HasEvents \subseteq Record
    /\ MaxActs \in Nat

VARIABLES
    record,   \* [Record -> the columns of customers that reminders depend on]
    optOut,   \* reminder_opt_outs: the numbers that ever replied STOP
    prayer,   \* [Obs -> whether its memorial still exists, and reminded_by_hand_at]
    lifted,   \* observer: records whose mobed lifted the STOP of their present number
    acts      \* how many acts have happened (bounds the model only)

bookVars == <<record, optOut, prayer, lifted, acts>>

RecordState == [kept : {"no", "listed", "unlisted"}, phone : Phone \cup {NoPhone},
                enabled : BOOLEAN, stopped : BOOLEAN]
PrayerState == [live : BOOLEAN, byHand : BOOLEAN]

\* The types, and that a record holds a number exactly while it is on file.
BookTypeOK ==
    /\ record \in [Record -> RecordState]
    /\ \A r \in Record : record[r].kept = "no" <=> record[r].phone = NoPhone
    /\ optOut \subseteq Phone
    /\ prayer \in [Obs -> PrayerState]
    /\ lifted \subseteq Record
    /\ acts \in 0 .. MaxActs

-----------------------------------------------------------------------------
OnFile(r) == record[r].kept # "no"

\* The mobed's own record of a number, listed or not (get_customer_by_phone).
HoldersOf(m, p) == {r \in Record : OnFile(r) /\ Owner[r] = m /\ record[r].phone = p}

\* What the planner asks of the family's record, and send_pending asks again.
Agreed(r) ==
    /\ record[r].kept = "listed"
    /\ record[r].enabled
    /\ ~record[r].stopped

\* The dates of the family's memorials.
DatesOf(r) == {o \in Obs : RecordOf[o] = r /\ prayer[o].live}

Act == /\ acts < MaxActs
       /\ acts' = acts + 1

\* Some families have agreed, nobody has stopped, every memorial stands.
BookInit ==
    /\ record \in [Record -> {s \in RecordState : s.kept = "listed" /\ s.phone # NoPhone /\ ~s.stopped}]
    /\ \A r, s \in Record : r # s /\ Owner[r] = Owner[s] => record[r].phone # record[s].phone
    /\ optOut = {}
    /\ prayer = [o \in Obs |-> [live |-> TRUE, byHand |-> FALSE]]
    /\ lifted = {}
    /\ acts = 0

-----------------------------------------------------------------------------
(***************************************************************************)
(* A mobed's own acts.                                                     *)
(***************************************************************************)

TurnedOn(s) == [s EXCEPT !.enabled = TRUE, !.stopped = FALSE]
TurnedOff(s) == [s EXCEPT !.enabled = FALSE]

\* "They agreed": refused (409) for a stopped record unless the mobed confirms
\* that the family asked to restart; then this record's STOP is lifted.
TurnOn(r, confirmRestart) ==
    /\ Act
    /\ record[r].kept = "listed"
    /\ record[r].stopped => confirmRestart
    /\ record' = [record EXCEPT ![r] = TurnedOn(@)]
    /\ lifted' = IF record[r].stopped THEN lifted \cup {r} ELSE lifted
    /\ UNCHANGED <<optOut, prayer>>

TurnOff(r) ==
    /\ Act
    /\ record[r].kept = "listed"
    /\ record' = [record EXCEPT ![r] = TurnedOff(@)]
    /\ UNCHANGED <<optOut, prayer, lifted>>

\* Mutant: a number's STOP is looked up among the mobed's records only.
ForgottenStop(p) == \E r \in Record : record[r].phone = p /\ record[r].stopped
\* Whether a number ever replied STOP (reminder_opt_outs).
KnownStop(p) == p \in optOut

\* The agreement was for the old number; a STOP known for the new one is carried over.
Moved(s, p) == [s EXCEPT !.phone = p, !.enabled = FALSE, !.stopped = @ \/ KnownStop(p)]

ChangeNumber(r, p) ==
    /\ Act
    /\ record[r].kept = "listed"
    /\ p # record[r].phone
    /\ HoldersOf(Owner[r], p) = {}
    /\ record' = [record EXCEPT ![r] = Moved(@, p)]
    /\ lifted' = lifted \ {r}
    /\ UNCHANGED <<optOut, prayer>>

\* Mutant: the agreement is left on a record out of the list.
UnlistedAgreed(s) == [s EXCEPT !.kept = "unlisted"]
Unlisted(s) == [s EXCEPT !.kept = "unlisted", !.enabled = FALSE]

Erased(s) == [kept |-> "no", phone |-> NoPhone, enabled |-> FALSE, stopped |-> FALSE]

\* With a memorial go all its dates, by cascade.
Without(S) == [o \in Obs |-> [prayer[o] EXCEPT !.live = @ /\ o \notin S]]

\* Out of the list with reminders off; gone altogether when nothing refers to
\* it.  The mobed chooses whether the family's memorials are deleted as well.
RemoveFromBook(r, withMemorials) ==
    /\ Act
    /\ record[r].kept = "listed"
    /\ prayer' = IF withMemorials THEN Without(DatesOf(r)) ELSE prayer
    /\ IF r \in HasEvents \/ (DatesOf(r) # {} /\ ~withMemorials)
       THEN record' = [record EXCEPT ![r] = Unlisted(@)] /\ UNCHANGED lifted
       ELSE /\ record' = [record EXCEPT ![r] = Erased(@)]
            /\ lifted' = lifted \ {r}
    /\ UNCHANGED optOut

Relisted(s) == [s EXCEPT !.kept = "listed"]
NewRecord(p) == [kept |-> "listed", phone |-> p, enabled |-> FALSE, stopped |-> KnownStop(p)]

\* A number the mobed already has comes back into the list; a new one is a new
\* record, which starts stopped if that number ever replied STOP.
Register(r, p) ==
    /\ Act
    /\ \/ /\ r \in HoldersOf(Owner[r], p)
          /\ record' = [record EXCEPT ![r] = Relisted(@)]
       \/ /\ ~OnFile(r)
          /\ HoldersOf(Owner[r], p) = {}
          /\ record' = [record EXCEPT ![r] = NewRecord(p)]
    /\ UNCHANGED <<optOut, prayer, lifted>>

\* One memorial of the family, whose dates are S.
DeleteMemorial(r, S) ==
    /\ Act
    /\ S # {} /\ S \subseteq DatesOf(r)
    /\ prayer' = Without(S)
    /\ UNCHANGED <<record, optOut, lifted>>

\* "I told them myself", or taken back.
MarkReminded(o, reminded) ==
    /\ Act
    /\ prayer[o].live
    /\ prayer[o].byHand # reminded
    /\ prayer' = [prayer EXCEPT ![o].byHand = reminded]
    /\ UNCHANGED <<record, optOut, lifted>>

Stopped(s) == [s EXCEPT !.stopped = TRUE, !.enabled = FALSE]

(***************************************************************************)
(* The family's STOP: remembered against the number, and put on every      *)
(* mobed's record of it.                                                   *)
(***************************************************************************)
RecordStop(p) ==
    /\ Act
    /\ optOut' = optOut \cup {p}
    /\ record' = [r \in Record |->
                    IF OnFile(r) /\ record[r].phone = p /\ ~record[r].stopped
                    THEN Stopped(record[r]) ELSE record[r]]
    /\ lifted' = {r \in lifted : record[r].phone # p}
    /\ UNCHANGED prayer

-----------------------------------------------------------------------------
Consent(r) ==
    \/ \E confirm \in BOOLEAN : TurnOn(r, confirm)
    \/ TurnOff(r)

Upkeep(r) ==
    \/ \E p \in Phone : ChangeNumber(r, p) \/ Register(r, p)
    \/ \E withMemorials \in BOOLEAN : RemoveFromBook(r, withMemorials)
    \/ \E S \in SUBSET Obs : DeleteMemorial(r, S)

BookNext ==
    \/ \E r \in Record : Consent(r) \/ Upkeep(r)
    \/ \E o \in Obs, reminded \in BOOLEAN : MarkReminded(o, reminded)
    \/ \E p \in Phone : RecordStop(p)

BookSpec == BookInit /\ [][BookNext]_bookVars

-----------------------------------------------------------------------------
(***************************************************************************)
(* Properties.                                                             *)
(***************************************************************************)

\* A STOP is the person's and is never forgotten: whatever numbers are moved,
\* records removed and brought back, every record that holds a number which
\* ever replied STOP is stopped, unless its own mobed lifted it for that
\* record (record_stop, create_customer, update, set_reminders together).
StopHolds ==
    \A r \in Record : OnFile(r) /\ record[r].phone \in optOut => record[r].stopped \/ r \in lifted

\* A record the family can be reminded through is one in its mobed's list: an
\* agreement never outlives the removal of the record, nor comes back with it.
AgreementIsInTheBook == \A r \in Record : record[r].enabled => record[r].kept = "listed"
=============================================================================
