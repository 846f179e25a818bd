------------------------- MODULE ReminderQueueProofs --------------------------
(***************************************************************************)
(* What MobedBook guarantees by itself, and ReminderQueue with it, for any *)
(* number of workers, records, observances, mobeds and numbers, and any caps, *)
(* tries, acts and crashes; and what ReminderQueue guarantees besides when one *)
(* worker runs.                                                            *)
(***************************************************************************)
EXTENDS ReminderQueue, Counting

-----------------------------------------------------------------------------
(***************************************************************************)
(* The book.                                                               *)
(***************************************************************************)

\* The three invariants are proved together: STOP is kept on typed records only.
BookOK == BookTypeOK /\ StopHolds /\ AgreementIsInTheBook

\* The initial records are well typed and nothing has been stopped.
LEMMA BookInitOK == BookInit => BookOK
<1> USE DEF BookOK
<1> SUFFICES ASSUME BookInit PROVE BookTypeOK /\ StopHolds /\ AgreementIsInTheBook
  OBVIOUS
<1> USE BookAssumption
<1>1. \A r \in Record : record[r] \in RecordState /\ record[r].kept = "listed" /\ record[r].phone # NoPhone
  BY DEF BookInit
<1>2. record \in [Record -> RecordState]
  BY DEF BookInit
<1>3. prayer \in [Obs -> PrayerState]
  BY DEF BookInit, PrayerState
<1>4. BookTypeOK
  BY <1>1, <1>2, <1>3 DEF BookInit, BookTypeOK
<1> QED
  BY <1>1, <1>4 DEF BookInit, StopHolds, AgreementIsInTheBook

\* What the acts make of a record is a record again.
LEMMA RecordShapes ==
    ASSUME NEW s \in RecordState
    PROVE  /\ {TurnedOn(s), TurnedOff(s), Unlisted(s), Erased(s), Relisted(s), Stopped(s)} \subseteq RecordState
           /\ \A p \in Phone : {Moved(s, p), NewRecord(p)} \subseteq RecordState
<1>1. TurnedOn(s) \in RecordState /\ TurnedOff(s) \in RecordState
  BY DEF RecordState, TurnedOn, TurnedOff
<1>2. Unlisted(s) \in RecordState /\ Erased(s) \in RecordState
  BY DEF RecordState, Unlisted, Erased
<1>3. Relisted(s) \in RecordState /\ Stopped(s) \in RecordState
  BY DEF RecordState, Relisted, Stopped
<1>4. \A p \in Phone : Moved(s, p) \in RecordState
  BY DEF RecordState, Moved, KnownStop
<1>5. \A p \in Phone : NewRecord(p) \in RecordState
  BY DEF RecordState, NewRecord, KnownStop
<1> QED
  BY <1>1, <1>2, <1>3, <1>4, <1>5

\* Whether they leave it agreed and stopped.
LEMMA RecordConsent ==
    ASSUME NEW s \in RecordState
    PROVE  /\ ~TurnedOff(s).enabled /\ TurnedOff(s).stopped = s.stopped
           /\ ~Unlisted(s).enabled /\ Unlisted(s).stopped = s.stopped
           /\ ~Erased(s).enabled
           /\ Relisted(s).stopped = s.stopped
           /\ ~Stopped(s).enabled /\ Stopped(s).stopped
           /\ \A p \in optOut : Moved(s, p).stopped /\ NewRecord(p).stopped
           /\ \A p \in Phone : ~Moved(s, p).enabled /\ ~NewRecord(p).enabled
<1>1. ~TurnedOff(s).enabled /\ TurnedOff(s).stopped = s.stopped
  BY DEF RecordState, TurnedOff
<1>2. ~Unlisted(s).enabled /\ Unlisted(s).stopped = s.stopped
  BY DEF RecordState, Unlisted
<1>3. ~Erased(s).enabled
  BY DEF Erased
<1>4. Relisted(s).stopped = s.stopped
  BY DEF RecordState, Relisted
<1>5. ~Stopped(s).enabled /\ Stopped(s).stopped
  BY DEF RecordState, Stopped
<1>6. \A p \in optOut : Moved(s, p).stopped
  BY DEF RecordState, Moved, KnownStop
<1>7. \A p \in optOut : NewRecord(p).stopped
  BY DEF NewRecord, KnownStop
<1>8. \A p \in Phone : ~Moved(s, p).enabled
  BY DEF RecordState, Moved
<1>9. \A p \in Phone : ~NewRecord(p).enabled
  BY DEF NewRecord
<1> QED
  BY <1>1, <1>2, <1>3, <1>4, <1>5, <1>6, <1>7, <1>8, <1>9

\* An act on one record disturbs the types and the invariants only through it.
LEMMA OneRecord ==
    ASSUME BookTypeOK, StopHolds, AgreementIsInTheBook,
           NEW r \in Record, NEW t \in RecordState, record' = [record EXCEPT ![r] = t],
           t.kept = "no" <=> t.phone = NoPhone,
           t.enabled => t.kept = "listed",
           OnFile(r)' /\ t.phone \in optOut => t.stopped \/ r \in lifted',
           optOut' = optOut, lifted \ {r} \subseteq lifted', lifted' \subseteq Record,
           prayer' \in [Obs -> PrayerState], acts' \in 0 .. MaxActs
    PROVE  (BookTypeOK /\ StopHolds /\ AgreementIsInTheBook)'
<1>1. record' \in [Record -> RecordState] /\ record'[r] = t /\ \A q \in Record \ {r} : record'[q] = record[q]
  BY DEF BookTypeOK
<1>2. BookTypeOK'
  BY <1>1 DEF BookTypeOK
<1>3. AgreementIsInTheBook'
  BY <1>1 DEF AgreementIsInTheBook
<1>4. StopHolds'
  <2> SUFFICES ASSUME NEW q \in Record, OnFile(q)', record'[q].phone \in optOut
               PROVE  record'[q].stopped \/ q \in lifted'
    BY DEF StopHolds
  <2> QED
    BY <1>1 DEF StopHolds, OnFile
<1> QED
  BY <1>2, <1>3, <1>4

\* Every act of the book keeps the types; no act lets a number's STOP slip, and
\* none leaves an agreement outside the book.
LEMMA BookStep == BookOK /\ [BookNext]_bookVars => BookOK'
<1> USE DEF BookOK
<1> DEFINE Inv == BookTypeOK /\ StopHolds /\ AgreementIsInTheBook
<1> SUFFICES ASSUME Inv, [BookNext]_bookVars PROVE Inv'
  OBVIOUS
<1> USE BookAssumption
<1>a. Act => acts' \in 0 .. MaxActs
  BY DEF Act, BookTypeOK
<1>b. \A r \in Record : record[r] \in RecordState
  BY DEF BookTypeOK
<1>1. ASSUME NEW r \in Record, NEW confirm \in BOOLEAN, TurnOn(r, confirm) PROVE Inv'
  <2>1. TurnedOn(record[r]).kept = "listed" /\ TurnedOn(record[r]).phone = record[r].phone
    BY <1>1, <1>b DEF TurnOn, TurnedOn, RecordState
  <2>2. OnFile(r)' /\ TurnedOn(record[r]).phone \in optOut => r \in lifted'
    BY <1>1, <2>1 DEF TurnOn, StopHolds, OnFile
  <2> QED
    BY <1>1, <1>a, <1>b, <2>1, <2>2, RecordShapes, OneRecord DEF TurnOn, BookTypeOK
<1>2. ASSUME NEW r \in Record, TurnOff(r) PROVE Inv'
  <2>1. TurnedOff(record[r]).kept = "listed" /\ TurnedOff(record[r]).phone = record[r].phone
    BY <1>2, <1>b DEF TurnOff, TurnedOff, RecordState
  <2>2. OnFile(r)' /\ TurnedOff(record[r]).phone \in optOut => TurnedOff(record[r]).stopped \/ r \in lifted'
    BY <1>2, <1>b, <2>1, RecordConsent DEF TurnOff, StopHolds, OnFile
  <2> QED
    BY <1>2, <1>a, <1>b, <2>1, <2>2, RecordShapes, RecordConsent, OneRecord DEF TurnOff, BookTypeOK
<1>3. ASSUME NEW r \in Record, NEW p \in Phone, ChangeNumber(r, p) PROVE Inv'
  <2>1. Moved(record[r], p).kept = "listed" /\ Moved(record[r], p).phone = p
    BY <1>3, <1>b DEF ChangeNumber, Moved, RecordState
  <2> QED
    BY <1>3, <1>a, <1>b, <2>1, RecordShapes, RecordConsent, OneRecord DEF ChangeNumber, BookTypeOK
<1>4. ASSUME NEW r \in Record, NEW p \in Phone, Register(r, p) PROVE Inv'
  <2>1. CASE record' = [record EXCEPT ![r] = Relisted(@)] /\ r \in HoldersOf(Owner[r], p)
    <3>1. Relisted(record[r]).kept = "listed" /\ Relisted(record[r]).phone = record[r].phone
      BY <1>b DEF Relisted, RecordState
    <3>2. OnFile(r)' /\ Relisted(record[r]).phone \in optOut => Relisted(record[r]).stopped \/ r \in lifted'
      BY <1>4, <1>b, <2>1, <3>1, RecordConsent DEF Register, StopHolds, HoldersOf
    <3>3. record[r].phone # NoPhone
      BY <2>1 DEF HoldersOf, OnFile, BookTypeOK
    <3> QED
      BY <1>4, <1>a, <1>b, <2>1, <3>1, <3>2, <3>3, RecordShapes, OneRecord DEF Register, BookTypeOK
  <2>2. CASE record' = [record EXCEPT ![r] = NewRecord(p)]
    <3>1. NewRecord(p).kept = "listed" /\ NewRecord(p).phone = p
      BY DEF NewRecord
    <3>2. NewRecord(p) \in RecordState /\ ~NewRecord(p).enabled /\ (p \in optOut => NewRecord(p).stopped)
      BY <1>b, RecordShapes, RecordConsent
    <3> QED
      BY <1>4, <1>a, <2>2, <3>1, <3>2, OneRecord DEF Register, BookTypeOK
  <2> QED
    BY <1>4, <2>1, <2>2 DEF Register
<1>w. \A S : Without(S) \in [Obs -> PrayerState]
  BY DEF Without, BookTypeOK, PrayerState
<1>5. ASSUME NEW r \in Record, NEW withMemorials \in BOOLEAN, RemoveFromBook(r, withMemorials) PROVE Inv'
  <2>a. prayer' \in [Obs -> PrayerState]
    BY <1>5, <1>w DEF RemoveFromBook, BookTypeOK
  <2>1. CASE record' = [record EXCEPT ![r] = Unlisted(@)] /\ UNCHANGED lifted
    <3>1. Unlisted(record[r]).kept = "unlisted" /\ Unlisted(record[r]).phone = record[r].phone
      BY <1>b DEF Unlisted, RecordState
    <3>2. OnFile(r)' /\ Unlisted(record[r]).phone \in optOut => Unlisted(record[r]).stopped \/ r \in lifted'
      BY <1>5, <1>b, <2>1, <3>1, RecordConsent DEF RemoveFromBook, StopHolds, OnFile
    <3>3. Unlisted(record[r]) \in RecordState /\ ~Unlisted(record[r]).enabled /\ record[r].phone # NoPhone
      BY <1>5, <1>b, RecordShapes, RecordConsent DEF RemoveFromBook, BookTypeOK
    <3> QED
      BY <1>5, <1>a, <2>a, <2>1, <3>1, <3>2, <3>3, OneRecord DEF RemoveFromBook, BookTypeOK
  <2>2. CASE record' = [record EXCEPT ![r] = Erased(@)] /\ lifted' = lifted \ {r}
    <3>1. Erased(record[r]).kept = "no" /\ Erased(record[r]).phone = NoPhone
      BY DEF Erased
    <3>2. NoPhone \notin optOut
      BY DEF BookTypeOK
    <3> QED
      BY <1>5, <1>a, <1>b, <2>a, <2>2, <3>1, <3>2, RecordShapes, RecordConsent, OneRecord DEF RemoveFromBook, BookTypeOK
  <2> QED
    BY <1>5, <2>1, <2>2 DEF RemoveFromBook
<1>6. ASSUME NEW r \in Record, NEW S, DeleteMemorial(r, S) PROVE Inv'
  <2>1. prayer' \in [Obs -> PrayerState]
    BY <1>6, <1>w DEF DeleteMemorial
  <2> QED
    BY <1>6, <1>a, <2>1 DEF DeleteMemorial, BookTypeOK, StopHolds, AgreementIsInTheBook, OnFile
<1>7. ASSUME NEW o \in Obs, NEW reminded \in BOOLEAN, MarkReminded(o, reminded) PROVE Inv'
  <2>1. prayer' \in [Obs -> PrayerState]
    BY <1>7 DEF MarkReminded, BookTypeOK, PrayerState
  <2> QED
    BY <1>7, <1>a, <2>1 DEF MarkReminded, BookTypeOK, StopHolds, AgreementIsInTheBook, OnFile
<1>8. ASSUME NEW p \in Phone, RecordStop(p) PROVE Inv'
  <2>1. \A q \in Record : Stopped(record[q]).kept = record[q].kept /\ Stopped(record[q]).phone = record[q].phone
    BY <1>b DEF Stopped, RecordState
  <2>2. \A q \in Record : record'[q] \in {record[q], Stopped(record[q])}
    BY <1>8 DEF RecordStop
  <2>3. record' \in [Record -> RecordState]
    BY <1>8, <1>b, <2>2, RecordShapes DEF RecordStop
  <2>4. BookTypeOK'
    BY <1>8, <1>a, <2>1, <2>2, <2>3 DEF RecordStop, BookTypeOK
  <2>5. AgreementIsInTheBook'
    BY <1>b, <2>2, RecordConsent DEF AgreementIsInTheBook
  <2>6. StopHolds'
    <3> SUFFICES ASSUME NEW q \in Record, OnFile(q)', record'[q].phone \in optOut'
                 PROVE  record'[q].stopped \/ q \in lifted'
      BY DEF StopHolds
    <3>1. OnFile(q) /\ record[q].phone = record'[q].phone
      BY <2>1, <2>2 DEF OnFile
    <3>2. CASE record[q].phone = p
      BY <1>8, <1>b, <3>1, <3>2, RecordConsent DEF RecordStop
    <3>3. CASE record[q].phone # p
      BY <1>8, <3>1, <3>3 DEF RecordStop, StopHolds
    <3> QED
      BY <3>2, <3>3
  <2> QED
    BY <2>4, <2>5, <2>6
<1>9. CASE UNCHANGED bookVars
  BY <1>9 DEF bookVars, BookTypeOK, StopHolds, AgreementIsInTheBook, OnFile
<1> QED
  BY <1>1, <1>2, <1>3, <1>4, <1>5, <1>6, <1>7, <1>8, <1>9 DEF BookNext, Consent, Upkeep

-----------------------------------------------------------------------------
\* The columns and the bookkeeping of the book keep their types for ever.
THEOREM BookTypes == BookSpec => []BookTypeOK
<1>1. BookOK => BookTypeOK /\ StopHolds /\ AgreementIsInTheBook
  BY DEF BookOK
<1> QED
  BY <1>1, BookInitOK, BookStep, PTL DEF BookSpec

\* A number that ever replied STOP is stopped on every record that holds it,
\* unless that record's own mobed lifted it (record_stop, create_customer,
\* update and set_reminders together).
THEOREM StopAlwaysHolds == BookSpec => []StopHolds
<1>1. BookOK => BookTypeOK /\ StopHolds /\ AgreementIsInTheBook
  BY DEF BookOK
<1> QED
  BY <1>1, BookInitOK, BookStep, PTL DEF BookSpec

\* No record out of its mobed's list carries an agreement (remove_from_book, resolve_own).
THEOREM AgreementsStayInTheBook == BookSpec => []AgreementIsInTheBook
<1>1. BookOK => BookTypeOK /\ StopHolds /\ AgreementIsInTheBook
  BY DEF BookOK
<1> QED
  BY <1>1, BookInitOK, BookStep, PTL DEF BookSpec

-----------------------------------------------------------------------------
(***************************************************************************)
(* The rows of the queue.                                                  *)
(***************************************************************************)

\* What is done to a row makes a row again.
LEMMA RowShapes ==
    ASSUME NEW n \in RowState, NEW why \in Reason
    PROVE  /\ {Marked(n), Sent(n), Requeued(n), Tried(n), Failed(n, why), WrittenOff(n)} \subseteq RowState
           /\ [n EXCEPT !.stale = TRUE] \in RowState
<1>1. Marked(n) \in RowState /\ Sent(n) \in RowState /\ Requeued(n) \in RowState
  BY DEF RowState, Status, Marked, Sent, Requeued
<1>2. Tried(n) \in RowState
  BY DEF RowState, Tried
<1>3. Failed(n, why) \in RowState
  BY DEF RowState, Status, Failed
<1>4. WrittenOff(n) \in RowState
  BY DEF RowState, Status, Reason, WrittenOff
<1>5. [n EXCEPT !.stale = TRUE] \in RowState
  BY DEF RowState
<1> QED
  BY <1>1, <1>2, <1>3, <1>4, <1>5

\* And says this of its fate.
LEMMA RowFields ==
    ASSUME NEW n \in RowState, NEW why \in Reason
    PROVE  /\ Marked(n).status = "sending" /\ Marked(n).stale = n.stale
           /\ Sent(n).status = "sent" /\ Sent(n).stale = n.stale
           /\ Requeued(n).status = "pending" /\ Requeued(n).stale = n.stale
           /\ Tried(n).stale = n.stale
           /\ Failed(n, why).status = "failed" /\ Failed(n, why).why = why /\ Failed(n, why).stale = n.stale
           /\ WrittenOff(n).status = "failed" /\ WrittenOff(n).why = "unknown" /\ ~WrittenOff(n).stale
<1>1. Marked(n).status = "sending" /\ Marked(n).stale = n.stale
  BY DEF RowState, Marked
<1>2. Sent(n).status = "sent" /\ Sent(n).stale = n.stale
  BY DEF RowState, Sent
<1>3. Requeued(n).status = "pending" /\ Requeued(n).stale = n.stale /\ Tried(n).stale = n.stale
  BY DEF RowState, Requeued, Tried
<1>4. Failed(n, why).status = "failed" /\ Failed(n, why).why = why /\ Failed(n, why).stale = n.stale
  BY DEF RowState, Failed
<1>5. WrittenOff(n).status = "failed" /\ WrittenOff(n).why = "unknown" /\ ~WrittenOff(n).stale
  BY DEF RowState, WrittenOff
<1> QED
  BY <1>1, <1>2, <1>3, <1>4, <1>5

\* A planned row is a row.
LEMMA NewRowShape ==
    ASSUME NEW id \in Nat, NEW phone \in Phone \cup {NoPhone}, NEW status \in Status, NEW why \in Reason
    PROVE  NewRow(id, phone, status, why) \in RowState
BY DEF NewRow, RowState

\* What a planned row holds.
LEMMA NewRowFields ==
    \A id, phone, status, why :
        /\ NewRow(id, phone, status, why).status = status
        /\ NewRow(id, phone, status, why).why = why
        /\ ~NewRow(id, phone, status, why).stale
BY DEF NewRow

\* The counts that number the rows of a plan are numbers.
LEMMA ObsCount == ASSUME NEW S \in SUBSET Obs PROVE IsFiniteSet(S) /\ Cardinality(S) \in Nat
<1>1. IsFiniteSet(Obs)
  BY FS_Interval, BookAssumption DEF Obs
<1> QED
  BY <1>1, FS_Subset, FS_CardinalityType

\* A pass that begins afresh, or reads and counts, is a pass.
LEMMA PassShapes ==
    /\ FreshPass \in PassState
    /\ \A s \in PassState :
         /\ \A b \in BOOLEAN : [s EXCEPT !.paused = b] \in PassState
         /\ \A n \in Nat : [s EXCEPT !.streak = n] \in PassState
         /\ \A S \in SUBSET Obs : [s EXCEPT !.streak = 0, !.sent = S] \in PassState
<1>1. FreshPass \in PassState
  BY DEF FreshPass, PassState
<1>2. \A s \in PassState, b \in BOOLEAN : [s EXCEPT !.paused = b] \in PassState
  BY DEF PassState
<1>3. \A s \in PassState, n \in Nat : [s EXCEPT !.streak = n] \in PassState
  BY DEF PassState
<1>4. \A s \in PassState, S \in SUBSET Obs : [s EXCEPT !.streak = 0, !.sent = S] \in PassState
  BY DEF PassState
<1> QED
  BY <1>1, <1>2, <1>3, <1>4

\* What a pass remembers.
LEMMA PassFields ==
    ASSUME NEW s \in PassState
    PROVE  s.streak \in Nat /\ s.sent \in SUBSET Obs /\ \A o \in Obs : s.offer[o] \in Phone \cup {NoPhone}
BY DEF PassState

-----------------------------------------------------------------------------
(***************************************************************************)
(* Types.                                                                  *)
(***************************************************************************)

\* Notices are counted.
LEMMA TellMobedsType ==
    ASSUME told \in [Obs -> Nat], NEW S, TellMobeds(S) PROVE told' \in [Obs -> Nat]
BY DEF TellMobeds

\* What the queue's types come to, apart from who holds what.
RowsTyped ==
    /\ row \in [Obs -> RowState]
    /\ told \in [Obs -> Nat]
    /\ summed \subseteq Obs
    /\ paused \in {"", "admin", "breaker", "account"}
    /\ alerts \subseteq {"limit", "paused"}
    /\ clock \in {"evening", "late"}
    /\ accepted \in [Obs -> Nat]
    /\ crashes \in Nat

WorkTyped ==
    /\ pc \in [Worker -> Place]
    /\ pass \in [Worker -> PassState]
    /\ hand \in [Worker -> Obs \cup {None}]
    /\ answer \in [Worker -> Answer]
    /\ \A w \in Worker : hand[w] # None <=> pc[w] \in {"post", "settle"}
    /\ \A w \in Worker : answer[w] # "" <=> pc[w] = "settle"

\* The types, in the two parts that the steps treat apart.
LEMMA QueueTypeParts == QueueTypeOK <=> RowsTyped /\ WorkTyped
BY DEF QueueTypeOK, RowsTyped, WorkTyped

\* A worker that has, and keeps, nothing in hand goes somewhere else.
LEMMA GoesOn ==
    ASSUME WorkTyped, NEW w \in Worker, NEW place \in Place \ {"post", "settle"},
           Goto(w, place), pass' \in [Worker -> PassState],
           pc[w] \notin {"post", "settle"}, UNCHANGED <<hand, answer>>
    PROVE  WorkTyped'
BY DEF WorkTyped, Goto

\* A worker lets go of what it has in hand, if anything.
LEMMA LetsGo ==
    ASSUME WorkTyped, NEW w \in Worker, NEW place \in Place \ {"post", "settle"},
           Goto(w, place), pass' \in [Worker -> PassState], LetGo(w), None \notin Obs
    PROVE  WorkTyped'
BY DEF WorkTyped, Goto, LetGo, Answer

\* A failure is counted in the pass, which goes on or trips the breaker.
LEMMA CountFailureType ==
    ASSUME WorkTyped, NEW w \in Worker, NEW n \in Nat, CountFailure(w, n)
    PROVE  /\ pass' \in [Worker -> PassState]
           /\ \E place \in {"trip", "send"} : Goto(w, place)
<1> DEFINE m == pass[w].streak + n
<1>1. pass[w] \in PassState /\ m \in Nat
  <2>1. pass[w] \in PassState
    BY DEF WorkTyped
  <2>2. pass[w].streak \in Nat
    BY <2>1, PassFields
  <2> QED
    BY <2>1, <2>2
<1>2. pass' = [pass EXCEPT ![w] = [pass[w] EXCEPT !.streak = m]]
  BY DEF CountFailure
<1>3. pass' \in [Worker -> PassState]
  <2> HIDE DEF m
  <2> QED
    BY <1>1, <1>2, PassShapes DEF WorkTyped
<1> QED
  BY <1>3 DEF CountFailure

\* Every step of a worker's planning keeps the types.
LEMMA PlanningTypes ==
    ASSUME RowsTyped, WorkTyped, BookTypeOK, NEW w \in Worker, Planning(w)
    PROVE  RowsTyped' /\ WorkTyped'
<1>1. CASE StartTick(w)
  <2>1. RowsTyped'
    BY <1>1 DEF StartTick, RowsTyped, rowVars, switchVars
  <2> DEFINE offer == [o \in Obs |-> IF Remindable(o) THEN record[RecordOf[o]].phone ELSE NoPhone]
             read == [FreshPass EXCEPT !.offer = offer, !.counted = Counted, !.owned = Owned]
  <2>2. offer \in [Obs -> Phone \cup {NoPhone}]
    BY BookAssumption DEF BookTypeOK, RecordState
  <2>3. Counted \in SUBSET Obs /\ Owned \in SUBSET Obs
    BY DEF Counted, Owned
  <2>4. read \in PassState
    <3> HIDE DEF offer
    <3> QED
      BY <2>2, <2>3 DEF FreshPass, PassState
  <2>5. [FreshPass EXCEPT !.late = TRUE] \in PassState
    BY DEF FreshPass, PassState
  <2>6. pass' \in [Worker -> PassState]
    BY <1>1, <2>4, <2>5 DEF StartTick, WorkTyped
  <2>7. \E place \in {"plan", "open"} : Goto(w, place)
    BY <1>1 DEF StartTick
  <2> QED
    BY <1>1, <2>1, <2>6, <2>7, GoesOn DEF StartTick, Place
<1>2. CASE WritePlan(w)
  <2>1. pass' \in [Worker -> PassState]
    BY <1>2, PassShapes DEF WritePlan, WorkTyped
  <2>2. WorkTyped'
    BY <1>2, <2>1, GoesOn DEF WritePlan, Place
  <2>3. told' \in [Obs -> Nat]
    BY <1>2, TellMobedsType DEF WritePlan, RowsTyped
  <2>4. alerts' \subseteq {"limit", "paused"}
    BY <1>2 DEF WritePlan, RowsTyped, AlertOfCap
  <2>5. row' \in [Obs -> RowState]
    <3>1. \A o \in Obs : row[o] \in RowState /\ pass[w].offer[o] \in Phone \cup {NoPhone}
      BY PassFields DEF RowsTyped, WorkTyped
    <3>2. \A o \in Obs : row'[o] = row[o] \/ \E id \in Nat, status \in Status, why \in Reason :
                                               row'[o] = NewRow(id, pass[w].offer[o], status, why)
      <4> SUFFICES ASSUME NEW o \in Obs, row'[o] # row[o]
                   PROVE  \E id \in Nat, status \in Status, why \in Reason :
                             row'[o] = NewRow(id, pass[w].offer[o], status, why)
        OBVIOUS
      <4> DEFINE fresh == Fresh(w)
                 queued == QueuedUpTo(w)
                 planned == {q \in fresh : q \in queued[q]}
                 capped == {q \in fresh \ planned : ~Barred(w, q, queued[q - 1])}
                 rows == {q \in Obs : row[q].status # "none"}
                 id == Cardinality(rows) + Cardinality({q \in fresh : q <= o})
                 status == IF o \in planned THEN "pending" ELSE "failed"
                 why == IF o \in planned THEN "" ELSE IF o \in capped THEN "capped" ELSE "barred"
      <4>1. row'[o] = NewRow(id, pass[w].offer[o], status, why)
        BY <1>2 DEF WritePlan
      <4>2. id \in Nat
        <5>1. rows \in SUBSET Obs /\ {q \in fresh : q <= o} \in SUBSET Obs
          BY DEF Fresh
        <5> QED
          BY <5>1, ObsCount
      <4>3. status \in Status /\ why \in Reason
        BY DEF Status, Reason
      <4> HIDE DEF id, status, why
      <4> QED
        BY <4>1, <4>2, <4>3
    <3>3. \A o \in Obs : row'[o] \in RowState
      BY <3>1, <3>2, NewRowShape
    <3>4. row' = [o \in Obs |-> row'[o]]
      BY <1>2 DEF WritePlan
    <3> QED
      BY <3>3, <3>4
  <2> QED
    BY <1>2, <2>2, <2>3, <2>4, <2>5 DEF WritePlan, RowsTyped
<1>3. CASE PlanFails(w)
  <2>1. RowsTyped'
    BY <1>3 DEF PlanFails, RowsTyped, rowVars, switchVars
  <2>2. pass' \in [Worker -> PassState]
    BY <1>3, PassShapes DEF PlanFails, WorkTyped
  <2> QED
    BY <1>3, <2>1, <2>2, GoesOn DEF PlanFails, Place
<1> QED
  BY <1>1, <1>2, <1>3 DEF Planning

\* Every step of sending keeps the types.
LEMMA SendingTypes ==
    ASSUME RowsTyped, WorkTyped, NEW w \in Worker, Sending(w)
    PROVE  RowsTyped' /\ WorkTyped'
<1>a. \A o \in Obs : row[o] \in RowState
  BY DEF RowsTyped
<1>b. \A why \in {"late", "withdrawn"} : why \in Reason
  BY DEF Reason
<1>1. CASE OpenQueue(w)
  <2>1. row' \in [Obs -> RowState]
    <3>1. \A n \in RowState : WrittenOff(n) \in RowState
      BY RowShapes DEF Reason
    <3> QED
      BY <1>1, <1>a, <3>1 DEF OpenQueue
  <2>2. told' \in [Obs -> Nat]
    BY <1>1, TellMobedsType DEF OpenQueue, RowsTyped
  <2>3. pass' \in [Worker -> PassState]
    BY <1>1, PassShapes DEF OpenQueue, WorkTyped
  <2>4. WorkTyped'
    BY <1>1, <2>3, GoesOn DEF OpenQueue, Place
  <2> QED
    BY <1>1, <2>1, <2>2, <2>4 DEF OpenQueue, RowsTyped, switchVars
<1>2. CASE LeaveQueue(w)
  <2>1. RowsTyped'
    BY <1>2 DEF LeaveQueue, RowsTyped, rowVars, switchVars
  <2>2. pass' \in [Worker -> PassState]
    BY <1>2 DEF LeaveQueue, WorkTyped
  <2> QED
    BY <1>2, <2>1, <2>2, GoesOn DEF LeaveQueue, Place
<1>3. ASSUME NEW o \in Obs, GiveUpLate(w, o) PROVE RowsTyped' /\ WorkTyped'
  <2>1. row' \in [Obs -> RowState]
    BY <1>3, <1>a, <1>b, RowShapes DEF GiveUpLate, RowsTyped
  <2>2. told' \in [Obs -> Nat]
    BY <1>3, TellMobedsType DEF GiveUpLate, RowsTyped
  <2> QED
    BY <1>3, <2>1, <2>2 DEF GiveUpLate, RowsTyped, WorkTyped, switchVars, workVars
<1>4. ASSUME NEW o \in Obs, DropWithdrawn(w, o) PROVE RowsTyped' /\ WorkTyped'
  <2>1. row' \in [Obs -> RowState]
    BY <1>4, <1>a, <1>b, RowShapes DEF DropWithdrawn, RowsTyped
  <2> QED
    BY <1>4, <2>1 DEF DropWithdrawn, RowsTyped, WorkTyped, switchVars, workVars
<1>5. ASSUME NEW o \in Obs, MarkSending(w, o) PROVE RowsTyped' /\ WorkTyped'
  <2>1. row' \in [Obs -> RowState]
    BY <1>5, <1>a, <1>b, RowShapes DEF MarkSending, RowsTyped
  <2>2. WorkTyped'
    BY <1>5, QueueAssumption DEF MarkSending, WorkTyped, Goto, Place
  <2> QED
    BY <1>5, <2>1, <2>2 DEF MarkSending, RowsTyped, switchVars
<1>6. CASE PostMessage(w)
  <2>1. accepted' \in [Obs -> Nat]
    <3>1. hand[w] \in Obs
      BY <1>6 DEF PostMessage, WorkTyped
    <3>a. accepted \in [Obs -> Nat]
      BY DEF RowsTyped
    <3>2. accepted[hand[w]] + 1 \in Nat
      BY <3>1, <3>a
    <3>3. accepted' = accepted \/ accepted' = [accepted EXCEPT ![hand[w]] = accepted[hand[w]] + 1]
      BY <1>6 DEF PostMessage
    <3> QED
      BY <3>1, <3>2, <3>3, <3>a
  <2>2. WorkTyped'
    BY <1>6 DEF PostMessage, WorkTyped, Goto, Place
  <2> QED
    BY <1>6, <2>1, <2>2 DEF PostMessage, RowsTyped, rowVars, switchVars
<1>7. CASE ClosePass(w)
  <2>1. pass[w].sent \in SUBSET Obs
    BY PassFields DEF WorkTyped
  <2>2. pass' \in [Worker -> PassState]
    BY <1>7, PassShapes DEF ClosePass, WorkTyped
  <2>3. WorkTyped'
    BY <1>7, <2>2, GoesOn DEF ClosePass, Place
  <2> QED
    BY <1>7, <2>1, <2>3 DEF ClosePass, RowsTyped, switchVars
<1> QED
  BY <1>1, <1>2, <1>3, <1>4, <1>5, <1>6, <1>7 DEF Sending

\* A settled row is written, and its worker goes on without it.
LEMMA SettlingTypes ==
    ASSUME RowsTyped, WorkTyped, NEW w \in Worker, Settling(w)
    PROVE  RowsTyped' /\ WorkTyped'
<1> USE QueueAssumption
<1>a. hand[w] \in Obs => row[hand[w]] \in RowState /\ Tried(row[hand[w]]) \in RowState
  BY RowShapes DEF RowsTyped, Reason
<1>b. \A why \in {"unknown", "refused"} : why \in Reason
  BY DEF Reason
<1>c. \A place \in {"send", "trip", "close"} : place \in Place \ {"post", "settle"}
  BY DEF Place
<1>d. pc[w] = "settle" => hand[w] \in Obs
  BY DEF WorkTyped
<1>1. CASE SettleSent(w)
  <2> DEFINE S == pass[w].sent \cup {o \in {hand[w]} : prayer[o].live}
  <2>1. S \in SUBSET Obs
    BY <1>1, <1>d, PassFields DEF SettleSent, WorkTyped
  <2>2. pass' = [pass EXCEPT ![w] = [pass[w] EXCEPT !.streak = 0, !.sent = S]]
    BY <1>1 DEF SettleSent
  <2>3. pass' \in [Worker -> PassState]
    <3> HIDE DEF S
    <3> QED
      BY <2>1, <2>2, PassShapes DEF WorkTyped
  <2>4. row' \in [Obs -> RowState]
    BY <1>1, <1>a, <1>b, <1>d, RowShapes DEF SettleSent, RowsTyped
  <2>5. WorkTyped'
    BY <1>1, <1>c, <2>3, LetsGo DEF SettleSent
  <2> QED
    BY <1>1, <2>4, <2>5 DEF SettleSent, RowsTyped, switchVars
<1>2. CASE SettleUnknown(w)
  <2>1. row' \in [Obs -> RowState]
    BY <1>2, <1>a, <1>b, <1>d, RowShapes DEF SettleUnknown, RowsTyped
  <2>2. told' \in [Obs -> Nat]
    BY <1>2, TellMobedsType DEF SettleUnknown, RowsTyped
  <2>3. WorkTyped'
    BY <1>2, <1>c, CountFailureType, LetsGo DEF SettleUnknown
  <2> QED
    BY <1>2, <2>1, <2>2, <2>3 DEF SettleUnknown, RowsTyped, switchVars
<1>3. CASE SettleRefused(w)
  <2>1. row' \in [Obs -> RowState]
    BY <1>3, <1>a, <1>b, <1>d, RowShapes DEF SettleRefused, RowsTyped
  <2>2. told' \in [Obs -> Nat]
    BY <1>3, TellMobedsType DEF SettleRefused, RowsTyped
  <2>3. \E n \in {0, 1} : CountFailure(w, n)
    BY <1>3 DEF SettleRefused
  <2>4. WorkTyped'
    BY <1>3, <1>c, <2>3, CountFailureType, LetsGo DEF SettleRefused
  <2> QED
    BY <1>3, <2>1, <2>2, <2>4 DEF SettleRefused, RowsTyped, switchVars
<1>4. CASE SettleRetry(w)
  <2>1. row' \in [Obs -> RowState]
    BY <1>4, <1>a, <1>b, <1>d, RowShapes DEF SettleRetry, RowsTyped
  <2>2. pass' \in [Worker -> PassState]
    BY <1>4 DEF SettleRetry, WorkTyped
  <2>3. WorkTyped'
    BY <1>4, <1>c, <2>2, LetsGo DEF SettleRetry
  <2> QED
    BY <1>4, <2>1, <2>3 DEF SettleRetry, RowsTyped, switchVars
<1>5. CASE SettleExhausted(w)
  <2>1. row' \in [Obs -> RowState]
    BY <1>5, <1>a, <1>b, <1>d, RowShapes DEF SettleExhausted, RowsTyped
  <2>2. told' \in [Obs -> Nat]
    BY <1>5, TellMobedsType DEF SettleExhausted, RowsTyped
  <2>3. WorkTyped'
    BY <1>5, <1>c, CountFailureType, LetsGo DEF SettleExhausted
  <2> QED
    BY <1>5, <2>1, <2>2, <2>3 DEF SettleExhausted, RowsTyped, switchVars
<1>6. CASE SettleAccount(w)
  <2>1. row' \in [Obs -> RowState]
    BY <1>6, <1>a, <1>b, <1>d, RowShapes DEF SettleAccount, RowsTyped
  <2>2. pass' \in [Worker -> PassState]
    BY <1>6 DEF SettleAccount, WorkTyped
  <2>3. WorkTyped'
    BY <1>6, <1>c, <2>2, LetsGo DEF SettleAccount
  <2> QED
    BY <1>6, <2>1, <2>3 DEF SettleAccount, Pause, RowsTyped
<1>7. CASE TripBreaker(w)
  <2>1. pass' \in [Worker -> PassState]
    BY <1>7 DEF TripBreaker, WorkTyped
  <2>2. WorkTyped'
    BY <1>7, <1>c, <2>1, GoesOn DEF TripBreaker
  <2> QED
    BY <1>7, <2>2 DEF TripBreaker, Pause, RowsTyped, rowVars
<1> QED
  BY <1>1, <1>2, <1>3, <1>4, <1>5, <1>6, <1>7 DEF Settling

\* So does every other step, and a step that changes nothing.
LEMMA TypeStep == BookOK /\ TypeOK /\ [Next]_vars => BookOK' /\ TypeOK'
<1> SUFFICES ASSUME BookOK, RowsTyped, WorkTyped, [Next]_vars PROVE BookOK' /\ RowsTyped' /\ WorkTyped'
  BY QueueTypeParts DEF TypeOK, BookOK, QueueTypeOK, RowsTyped, WorkTyped
<1>a. bookVars' = bookVars => BookOK'
  BY DEF bookVars, BookOK, BookTypeOK, StopHolds, AgreementIsInTheBook, OnFile
<1>b. queueVars' = queueVars => RowsTyped' /\ WorkTyped'
  BY DEF queueVars, rowVars, switchVars, workVars, RowsTyped, WorkTyped
<1>1. ASSUME NEW w \in Worker, Work(w) PROVE BookOK' /\ RowsTyped' /\ WorkTyped'
  <2>1. bookVars' = bookVars
    BY <1>1 DEF Work, Planning, Sending, Settling, StartTick, WritePlan, PlanFails, OpenQueue, LeaveQueue,
                GiveUpLate, DropWithdrawn, MarkSending, PostMessage, ClosePass, SettleSent, SettleUnknown,
                SettleRefused, SettleRetry, SettleExhausted, SettleAccount, TripBreaker
  <2> QED
    BY <1>1, <1>a, <2>1, PlanningTypes, SendingTypes, SettlingTypes DEF Work, BookOK
<1>2. ASSUME NEW w \in Worker, Crash(w) PROVE BookOK' /\ RowsTyped' /\ WorkTyped'
  <2>0. crashes' \in Nat
    <3>1. crashes \in Nat
      BY DEF RowsTyped
    <3> QED
      BY <1>2, <3>1 DEF Crash
  <2>1. RowsTyped'
    BY <1>2, <2>0 DEF Crash, RowsTyped, rowVars, switchVars
  <2>2. pass' \in [Worker -> PassState]
    BY <1>2, PassShapes DEF Crash, WorkTyped
  <2>3. WorkTyped'
    BY <1>2, <2>2, LetsGo, QueueAssumption DEF Crash, Place
  <2> QED
    BY <1>2, <1>a, <2>1, <2>3 DEF Crash
<1>3. ASSUME NEW o \in Obs, GoStale(o) PROVE BookOK' /\ RowsTyped' /\ WorkTyped'
  <2>1. row' = [row EXCEPT ![o] = [row[o] EXCEPT !.stale = TRUE]]
    BY <1>3 DEF GoStale
  <2>2. row' \in [Obs -> RowState]
    BY <2>1, RowShapes DEF RowsTyped, Reason
  <2> QED
    BY <1>3, <1>a, <2>2 DEF GoStale, RowsTyped, WorkTyped, switchVars, workVars
<1>4. CASE CutOff
  BY <1>4, <1>a DEF CutOff, RowsTyped, WorkTyped, rowVars, switchVars, workVars
<1>c. Act /\ UNCHANGED <<record, optOut, prayer, lifted>> => BookOK'
  <2>1. Act => acts' \in 0 .. MaxActs
    BY BookAssumption DEF Act, BookOK, BookTypeOK
  <2> QED
    BY <2>1 DEF BookOK, BookTypeOK, StopHolds, AgreementIsInTheBook, OnFile
<1>5. CASE AdminPause
  BY <1>5, <1>c DEF AdminPause, Pause, RowsTyped, WorkTyped, rowVars, workVars
<1>6. CASE AdminResume
  BY <1>6, <1>c DEF AdminResume, RowsTyped, WorkTyped, rowVars, workVars
<1>7. CASE InTheBook
  BY <1>7, <1>b, BookStep DEF InTheBook
<1>8. CASE UNCHANGED vars
  BY <1>8, <1>a, <1>b DEF vars
<1> QED
  BY <1>1, <1>2, <1>3, <1>4, <1>5, <1>6, <1>7, <1>8 DEF Next

\* At the beginning of the evening everything is in its place.
LEMMA TypeInit == Init => BookOK /\ TypeOK
<1> SUFFICES ASSUME Init PROVE BookOK /\ TypeOK
  OBVIOUS
<1>1. BookOK
  BY BookInitOK DEF Init
<1>2. NoRow \in RowState
  BY DEF NoRow, RowState, Status, Reason
<1>3. RowsTyped
  BY <1>2 DEF Init, RowsTyped
<1>4. WorkTyped
  BY PassShapes DEF Init, WorkTyped, Place, Answer
<1> QED
  BY <1>1, <1>3, <1>4, QueueTypeParts DEF TypeOK, BookOK

\* The book, the rows and the workers keep their types, and a worker has a row
\* in hand exactly while it posts it and settles it (send_pending).
THEOREM QueueTypes == Spec => []TypeOK
BY TypeInit, TypeStep, PTL DEF Spec

-----------------------------------------------------------------------------
(***************************************************************************)
(* The ledger: the rows, the hands they are in and what really went.       *)
(***************************************************************************)

\* A row tells the truth about the copies that went.
HonestRow(n, c) ==
    /\ c \in {0, 1}
    /\ n.status \in {"none", "pending"} => c = 0
    /\ n.status = "failed" /\ n.why # "unknown" => c = 0
    /\ n.status = "sent" => c = 1

Honesty == \A o \in Obs : HonestRow(row[o], accepted[o])
SummedWent == \A o \in summed : row[o].status = "sent"

\* The ledger, one row at a time.
LEMMA LedgerParts == Ledger <=> TypeOK /\ Custody /\ InTransit /\ Honesty /\ SummedWent
<1>1. TypeOK => summed \subseteq Obs /\ \A o \in Obs : accepted[o] \in Nat
  BY DEF TypeOK, QueueTypeOK
<1>2. ASSUME Ledger PROVE Honesty /\ SummedWent
  BY <1>1, <1>2 DEF Ledger, AtMostOnce, NotSentIsTrue, SentIsTrue, Honesty, HonestRow, SummedWent
<1>3. ASSUME TypeOK, Honesty, SummedWent PROVE AtMostOnce /\ NotSentIsTrue /\ SentIsTrue
  BY <1>1, <1>3 DEF AtMostOnce, NotSentIsTrue, SentIsTrue, Honesty, HonestRow, SummedWent
<1> QED
  BY <1>2, <1>3 DEF Ledger

\* The same of the next state.
LEMMA LedgerPartsNext == TypeOK' /\ Custody' /\ InTransit' /\ Honesty' /\ SummedWent' => Ledger'
BY LedgerParts, PTL

\* What the types say of hands and answers, before and after a step.
LEMMA Hands ==
    ASSUME TypeOK, NEW w \in Worker
    PROVE  /\ hand[w] \in Obs \cup {None} /\ answer[w] \in Answer
           /\ hand[w] # None <=> pc[w] \in {"post", "settle"}
           /\ answer[w] # "" <=> pc[w] = "settle"
BY DEF TypeOK, QueueTypeOK

\* A step that leaves hands, answers and copies alone keeps the ledger, if the
\* rows it writes are in nobody's hands and stay honest, and nothing that was
\* sent is revised.
LEMMA LeavesHands ==
    ASSUME Ledger, TypeOK', UNCHANGED <<hand, answer, accepted>>,
           \A w \in Worker : hand[w] # None => row'[hand[w]] = row[hand[w]],
           \A o \in Obs : \/ row'[o] = row[o]
                          \/ /\ row[o].status # "sent"
                             /\ HonestRow(row'[o], accepted[o])
                             /\ row'[o].stale => row'[o].status = "sending",
           \A w \in Worker, o \in Obs : o \in pass'[w].sent => row[o].status = "sent",
           \A o \in Obs : o \in summed' => row[o].status = "sent"
    PROVE  Ledger'
<1>1. TypeOK /\ Custody /\ InTransit /\ Honesty /\ SummedWent
  BY LedgerParts
<1>2. Custody'
  BY <1>1 DEF Custody
<1>3. \A o \in Obs : row[o].status = "sent" => row'[o].status = "sent"
  OBVIOUS
<1>4. \A w \in Worker : \A o \in pass'[w].sent : row'[o].status = "sent"
  <2>1. \A w \in Worker : pass'[w] \in PassState
    BY DEF TypeOK, QueueTypeOK
  <2>2. \A w \in Worker : pass'[w].sent \subseteq Obs
    BY <2>1 DEF PassState
  <2> QED
    BY <1>3, <2>2
<1>5. \A w \in Worker : pc'[w] = "post" => pc[w] = "post"
  BY <1>1, Hands DEF TypeOK, QueueTypeOK
<1>6. InTransit'
  BY <1>1, <1>4, <1>5 DEF InTransit
<1>7. Honesty'
  BY <1>1 DEF Honesty
<1>8. SummedWent'
  <2>1. summed' \subseteq Obs
    BY DEF TypeOK, QueueTypeOK
  <2> QED
    BY <1>3, <2>1 DEF SummedWent
<1> QED
  BY <1>2, <1>6, <1>7, <1>8, LedgerPartsNext

\* A step that settles the row in hand keeps the ledger, if what it writes is
\* honest and final or pending.
LEMMA SettlesRow ==
    ASSUME Ledger, TypeOK', NEW w \in Worker, pc[w] = "settle", NEW t \in RowState,
           row' = [row EXCEPT ![hand[w]] = t], t.stale = row[hand[w]].stale,
           t.status \in {"pending", "sent", "failed"}, HonestRow(t, accepted[hand[w]]),
           LetGo(w), UNCHANGED <<accepted, summed>>,
           \A v \in Worker, o \in Obs : o \in pass'[v].sent =>
               o \in pass[v].sent \/ (v = w /\ o = hand[w] /\ t.status = "sent")
    PROVE  Ledger'
<1>1. TypeOK /\ Custody /\ InTransit /\ Honesty /\ SummedWent
  BY LedgerParts
<1>2. hand[w] \in Obs
  BY <1>1, Hands
<1>3. row'[hand[w]] = t /\ \A o \in Obs \ {hand[w]} : row'[o] = row[o]
  BY <1>1, <1>2 DEF TypeOK, QueueTypeOK
<1>4. hand'[w] = None /\ \A v \in Worker \ {w} : hand'[v] = hand[v] /\ answer'[v] = answer[v] /\ hand[v] # hand[w]
  <2>1. hand \in [Worker -> Obs \cup {None}] /\ answer \in [Worker -> Answer]
    BY <1>1 DEF TypeOK, QueueTypeOK
  <2> QED
    BY <1>1, <1>2, <2>1, QueueAssumption DEF LetGo, Custody
<1>5. row[hand[w]].status = "sending" /\ ~t.stale
  BY <1>1, <1>2, QueueAssumption DEF Custody
<1>6. Custody'
  <2>1. \A v \in Worker : hand'[v] # None => v # w /\ hand'[v] \in Obs \ {hand[w]} /\ hand'[v] = hand[v]
    BY <1>1, <1>4, Hands
  <2>2. \A v \in Worker : hand'[v] # None => row'[hand'[v]].status = "sending" /\ ~row'[hand'[v]].stale
    BY <1>1, <1>3, <2>1 DEF Custody
  <2>3. \A u, v \in Worker : hand'[u] # None /\ hand'[u] = hand'[v] => u = v
    BY <1>1, <2>1 DEF Custody
  <2>4. \A o \in Obs : row'[o].stale => row'[o].status = "sending"
    BY <1>1, <1>3, <1>5 DEF Custody
  <2> QED
    BY <2>2, <2>3, <2>4 DEF Custody
<1>7. \A o \in Obs : row[o].status = "sent" => row'[o].status = "sent"
  BY <1>3, <1>5
<1>8. \A v \in Worker : \A o \in pass'[v].sent : row'[o].status = "sent"
  <2>1. \A v \in Worker : pass'[v] \in PassState
    BY DEF TypeOK, QueueTypeOK
  <2>2. \A v \in Worker : pass'[v].sent \subseteq Obs
    BY <2>1 DEF PassState
  <2>3. \A v \in Worker, o \in Obs : o \in pass[v].sent => row[o].status = "sent"
    BY <1>1 DEF InTransit
  <2> QED
    BY <1>3, <1>7, <2>2, <2>3
<1>9. \A v \in Worker : pc'[v] \in {"post", "settle"} => v # w /\ pc[v] = pc'[v]
  <2> SUFFICES ASSUME NEW v \in Worker, pc'[v] \in {"post", "settle"} PROVE v # w /\ pc[v] = pc'[v]
    OBVIOUS
  <2>1. hand'[v] # None /\ (pc'[v] = "settle" <=> answer'[v] # "")
    BY DEF TypeOK, QueueTypeOK
  <2>2. v # w /\ hand'[v] = hand[v] /\ answer'[v] = answer[v]
    BY <1>4, <2>1
  <2>3. /\ hand[v] # None <=> pc[v] \in {"post", "settle"}
        /\ answer[v] # "" <=> pc[v] = "settle"
    BY <1>1, Hands
  <2>4. CASE pc'[v] = "settle"
    BY <2>1, <2>2, <2>3, <2>4
  <2>5. CASE pc'[v] = "post"
    BY <2>1, <2>2, <2>3, <2>5
  <2> QED
    BY <2>4, <2>5
<1>10. InTransit'
  <2> SUFFICES ASSUME NEW v \in Worker
               PROVE  /\ pc'[v] = "post" => accepted[hand'[v]] = 0
                      /\ answer'[v] = "ok" => accepted[hand'[v]] = 1
                      /\ answer'[v] \notin {"", "ok", "unknown"} => accepted[hand'[v]] = 0
    BY <1>8 DEF InTransit
  <2>1. CASE v = w
    <3>1. answer'[w] = ""
      BY <1>1 DEF LetGo, TypeOK, QueueTypeOK
    <3> QED
      BY <1>9, <2>1, <3>1
  <2>2. CASE v # w
    <3>1. /\ pc[v] = "post" => accepted[hand[v]] = 0
          /\ answer[v] = "ok" => accepted[hand[v]] = 1
          /\ answer[v] \notin {"", "ok", "unknown"} => accepted[hand[v]] = 0
      BY <1>1 DEF InTransit
    <3>2. hand'[v] = hand[v] /\ answer'[v] = answer[v] /\ (pc'[v] = "post" => pc[v] = "post")
      BY <1>4, <1>9, <2>2
    <3> QED
      BY <3>1, <3>2
  <2> QED
    BY <2>1, <2>2
<1>11. Honesty'
  BY <1>1, <1>3 DEF Honesty
<1>12. SummedWent'
  <2>1. summed \subseteq Obs
    BY <1>1 DEF TypeOK, QueueTypeOK
  <2> QED
    BY <1>1, <1>7, <2>1 DEF SummedWent
<1> QED
  BY <1>6, <1>10, <1>11, <1>12, LedgerPartsNext

\* What a worker's pass remembers as sent was sent; nothing else of Ledger needs it.
LEMMA PassSent ==
    ASSUME Ledger, NEW w \in Worker, pass' \in [Worker -> PassState],
           \E s : pass' = [pass EXCEPT ![w] = s] /\ s.sent \in {{}, pass[w].sent}
    PROVE  \A v \in Worker, o \in Obs : o \in pass'[v].sent => row[o].status = "sent"
<1>1. PICK s : pass' = [pass EXCEPT ![w] = s] /\ s.sent \in {{}, pass[w].sent}
  OBVIOUS
<1>2. pass \in [Worker -> PassState]
  BY DEF Ledger, TypeOK, QueueTypeOK
<1>3. \A v \in Worker : pass'[v].sent \in {{}, pass[v].sent}
  BY <1>1, <1>2
<1> QED
  BY <1>3 DEF Ledger, InTransit

\* A plan gives rows only to observances that have none.
LEMMA PlannedRows ==
    ASSUME NEW w \in Worker, WritePlan(w)
    PROVE  \A o \in Obs : \/ row'[o] = row[o]
                          \/ /\ row[o].status = "none"
                             /\ ~row'[o].stale
                             /\ row'[o].status \in {"pending", "failed"}
                             /\ row'[o].why # "unknown"
<1> SUFFICES ASSUME NEW o \in Obs, row'[o] # row[o]
             PROVE  /\ row[o].status = "none"
                    /\ ~row'[o].stale
                    /\ row'[o].status \in {"pending", "failed"}
                    /\ row'[o].why # "unknown"
  OBVIOUS
<1>1. o \in Fresh(w)
  BY DEF WritePlan
<1>2. row[o].status = "none"
  BY <1>1 DEF Fresh
<1>3. \E id, phone, status, why : /\ row'[o] = NewRow(id, phone, status, why)
                                  /\ status \in {"pending", "failed"} /\ why \in {"", "capped", "barred"}
  <2> DEFINE fresh == Fresh(w)
             queued == QueuedUpTo(w)
             planned == {q \in fresh : q \in queued[q]}
             capped == {q \in fresh \ planned : ~Barred(w, q, queued[q - 1])}
             rows == {q \in Obs : row[q].status # "none"}
             id == Cardinality(rows) + Cardinality({q \in fresh : q <= o})
             status == IF o \in planned THEN "pending" ELSE "failed"
             why == IF o \in planned THEN "" ELSE IF o \in capped THEN "capped" ELSE "barred"
  <2>1. row'[o] = NewRow(id, pass[w].offer[o], status, why)
    BY <1>1 DEF WritePlan, Fresh
  <2>2. status \in {"pending", "failed"} /\ why \in {"", "capped", "barred"}
    OBVIOUS
  <2> HIDE DEF id, status, why
  <2> QED
    BY <2>1, <2>2
<1> QED
  <2>1. PICK id, phone, status, why : /\ row'[o] = NewRow(id, phone, status, why)
                                      /\ status \in {"pending", "failed"} /\ why \in {"", "capped", "barred"}
    BY <1>3
  <2>2. row'[o] = NewRow(id, phone, status, why)
    BY <2>1
  <2>3. row'[o].status = status
    BY <2>2 DEF NewRow
  <2>4. row'[o].why = why
    BY <2>2 DEF NewRow
  <2>5. ~row'[o].stale
    BY <2>2 DEF NewRow
  <2> QED
    BY <1>2, <2>1, <2>3, <2>4, <2>5

\* Planning leaves what is in hand alone.
LEMMA PlanningLedger == ASSUME Ledger, TypeOK', NEW w \in Worker, Planning(w) PROVE Ledger'
<1>a. TypeOK /\ Custody /\ InTransit /\ Honesty /\ SummedWent
  BY LedgerParts
<1>b. FreshPass.sent = {}
  BY DEF FreshPass
<1>c. pass' \in [Worker -> PassState] /\ summed' \subseteq Obs
  BY DEF TypeOK, QueueTypeOK
<1>d. \A v \in Worker : hand[v] # None => hand[v] \in Obs /\ row[hand[v]].status = "sending"
  BY <1>a, Hands DEF Custody
<1>1. CASE StartTick(w)
  <2> DEFINE late == [FreshPass EXCEPT !.late = TRUE]
             read == [FreshPass EXCEPT
                        !.offer = [o \in Obs |-> IF Remindable(o) THEN record[RecordOf[o]].phone ELSE NoPhone],
                        !.counted = Counted, !.owned = Owned]
  <2>0. late.sent = {} /\ read.sent = {}
    BY DEF FreshPass
  <2>a. pass' = [pass EXCEPT ![w] = IF clock = "evening" THEN read ELSE late]
    BY <1>1 DEF StartTick
  <2>1. \E s : pass' = [pass EXCEPT ![w] = s] /\ s.sent = {}
    <3> HIDE DEF late, read
    <3> QED
      BY <2>0, <2>a
  <2>2. \A v \in Worker, o \in Obs : o \in pass'[v].sent => row[o].status = "sent"
    BY <1>c, <2>1, PassSent
  <2> QED
    BY <1>1, <1>a, <2>2, LeavesHands DEF StartTick, rowVars, SummedWent
<1>2. CASE WritePlan(w)
  <2>1. \A v \in Worker, o \in Obs : o \in pass'[v].sent => row[o].status = "sent"
    BY <1>2, <1>b, <1>c, PassSent DEF WritePlan
  <2>2. \A o \in Obs : \/ row'[o] = row[o]
                       \/ /\ row[o].status = "none"
                          /\ ~row'[o].stale
                          /\ row'[o].status \in {"pending", "failed"}
                          /\ row'[o].why # "unknown"
    BY <1>2, PlannedRows
  <2>3. \A v \in Worker : hand[v] # None => row'[hand[v]] = row[hand[v]]
    BY <1>d, <2>2
  <2>4. \A o \in Obs : \/ row'[o] = row[o]
                       \/ /\ row[o].status # "sent"
                          /\ HonestRow(row'[o], accepted[o])
                          /\ row'[o].stale => row'[o].status = "sending"
    BY <1>a, <2>2 DEF Honesty, HonestRow
  <2>5. \A o \in Obs : o \in summed' => row[o].status = "sent"
    BY <1>2, <1>a DEF WritePlan, SummedWent
  <2> QED
    BY <1>2, <2>1, <2>3, <2>4, <2>5, LeavesHands DEF WritePlan
<1>3. CASE PlanFails(w)
  <2>1. \A v \in Worker, o \in Obs : o \in pass'[v].sent => row[o].status = "sent"
    BY <1>3, <1>b, <1>c, PassSent DEF PlanFails
  <2> QED
    BY <1>3, <1>a, <2>1, LeavesHands DEF PlanFails, rowVars, SummedWent
<1> QED
  BY <1>1, <1>2, <1>3 DEF Planning
\* The first copy.
LEMMA OneMore == \A k : k = 0 => k + 1 = 1
OBVIOUS

\* Rows are swept, picked, marked and posted.
LEMMA SendingLedger == ASSUME Ledger, TypeOK', NEW w \in Worker, Sending(w) PROVE Ledger'
<1>a. TypeOK /\ Custody /\ InTransit /\ Honesty /\ SummedWent
  BY LedgerParts
<1>b. pass' \in [Worker -> PassState] /\ summed \subseteq Obs
  BY <1>a DEF TypeOK, QueueTypeOK
<1>c. \A o \in Obs : row[o] \in RowState
  BY <1>a DEF TypeOK, QueueTypeOK
<1>d. \A v \in Worker : hand[v] # None => hand[v] \in Obs /\ row[hand[v]].status = "sending" /\ ~row[hand[v]].stale
  BY <1>a, Hands DEF Custody
<1>e. \A v \in Worker, o \in Obs : o \in pass[v].sent => row[o].status = "sent"
  BY <1>a DEF InTransit
<1>f. \A o \in Obs : o \in summed => row[o].status = "sent"
  BY <1>a DEF SummedWent
<1>1. CASE OpenQueue(w)
  <2>1. \A v \in Worker, o \in Obs : o \in pass'[v].sent => row[o].status = "sent"
    <3>1. \A v \in Worker : pass[v] \in PassState
      BY <1>a DEF TypeOK, QueueTypeOK
    <3>2. \A v \in Worker : pass'[v].sent = pass[v].sent
      BY <1>1, <1>b, <3>1 DEF OpenQueue, PassState
    <3> QED
      BY <1>e, <3>2
  <2>2. \A o \in Obs : o \notin Stuck => row'[o] = row[o]
    BY <1>1 DEF OpenQueue
  <2>3. \A o \in Stuck : row'[o] = WrittenOff(row[o])
    BY <1>1 DEF OpenQueue, Stuck
  <2>4. \A o \in Stuck : /\ row[o].status = "sending"
                         /\ row'[o].status = "failed" /\ row'[o].why = "unknown" /\ ~row'[o].stale
    <3> SUFFICES ASSUME NEW o \in Stuck
                 PROVE  /\ row[o].status = "sending"
                        /\ row'[o].status = "failed" /\ row'[o].why = "unknown" /\ ~row'[o].stale
      OBVIOUS
    <3>1. row[o] \in RowState /\ row[o].status = "sending" /\ "" \in Reason
      BY <1>c DEF Stuck, Reason
    <3>2. /\ WrittenOff(row[o]).status = "failed"
          /\ WrittenOff(row[o]).why = "unknown"
          /\ ~WrittenOff(row[o]).stale
      BY <3>1, RowFields
    <3> QED
      BY <2>3, <3>1, <3>2
  <2>5. \A v \in Worker : hand[v] # None => row'[hand[v]] = row[hand[v]]
    BY <1>d, <2>2 DEF Stuck
  <2>6. \A o \in Obs : \/ row'[o] = row[o]
                       \/ /\ row[o].status # "sent"
                          /\ HonestRow(row'[o], accepted[o])
                          /\ row'[o].stale => row'[o].status = "sending"
    BY <1>a, <2>2, <2>4 DEF Honesty, HonestRow
  <2> QED
    BY <1>1, <1>f, <2>1, <2>5, <2>6, LeavesHands DEF OpenQueue
<1>2. CASE LeaveQueue(w)
  BY <1>2, <1>e, <1>f, LeavesHands DEF LeaveQueue, rowVars
<1>3. ASSUME NEW o \in Obs, NEW why \in {"late", "withdrawn"}, Head(o),
             row' = [row EXCEPT ![o] = Failed(@, why)], UNCHANGED <<summed, workVars, accepted>>
      PROVE  Ledger'
  <2>1. row[o].status = "pending"
    BY <1>3 DEF Head, Pending
  <2>2. row'[o] = Failed(row[o], why) /\ \A q \in Obs \ {o} : row'[q] = row[q]
    BY <1>3, <1>a DEF TypeOK, QueueTypeOK
  <2>3. row'[o].status = "failed" /\ row'[o].why = why /\ row'[o].stale = row[o].stale
    <3>1. row[o] \in RowState /\ why \in Reason
      BY <1>c DEF Reason
    <3>2. /\ Failed(row[o], why).status = "failed"
          /\ Failed(row[o], why).why = why
          /\ Failed(row[o], why).stale = row[o].stale
      BY <3>1, RowFields
    <3> QED
      BY <2>2, <3>2
  <2>4. ~row[o].stale /\ accepted[o] = 0
    BY <1>a, <2>1 DEF Custody, Honesty, HonestRow
  <2>5. \A v \in Worker : hand[v] # None => row'[hand[v]] = row[hand[v]]
    BY <1>d, <2>1, <2>2
  <2>6. HonestRow(row'[o], accepted[o])
    BY <2>3, <2>4 DEF HonestRow
  <2>7. UNCHANGED <<hand, answer, accepted, pass, summed>>
    BY <1>3 DEF workVars
  <2> QED
    BY <1>e, <1>f, <2>1, <2>2, <2>3, <2>4, <2>5, <2>6, <2>7, LeavesHands
<1>4. ASSUME NEW o \in Obs, GiveUpLate(w, o) \/ DropWithdrawn(w, o) PROVE Ledger'
  BY <1>3, <1>4 DEF GiveUpLate, DropWithdrawn
<1>5. ASSUME NEW o \in Obs, MarkSending(w, o) PROVE Ledger'
  <2>1. row[o].status = "pending" /\ ~row[o].stale /\ accepted[o] = 0
    BY <1>5, <1>a DEF MarkSending, Head, Pending, Custody, Honesty, HonestRow
  <2>2. row'[o] = Marked(row[o]) /\ \A q \in Obs \ {o} : row'[q] = row[q]
    BY <1>5, <1>a DEF MarkSending, TypeOK, QueueTypeOK
  <2>3. row'[o].status = "sending" /\ ~row'[o].stale
    <3>1. row[o] \in RowState /\ "" \in Reason
      BY <1>c DEF Reason
    <3>2. Marked(row[o]).status = "sending" /\ Marked(row[o]).stale = row[o].stale
      BY <3>1, RowFields
    <3> QED
      BY <2>1, <2>2, <3>2
  <2>4. hand'[w] = o /\ \A v \in Worker \ {w} : hand'[v] = hand[v]
    BY <1>5, <1>a DEF MarkSending, TypeOK, QueueTypeOK
  <2>5. \A v \in Worker : hand[v] # None => hand[v] # o /\ row'[hand[v]] = row[hand[v]]
    BY <1>d, <2>1, <2>2
  <2>6. Custody'
    <3>1. \A v \in Worker : hand'[v] # None => row'[hand'[v]].status = "sending" /\ ~row'[hand'[v]].stale
      BY <1>d, <2>3, <2>4, <2>5
    <3>2. \A u, v \in Worker : hand'[u] # None /\ hand'[u] = hand'[v] => u = v
      BY <1>a, <2>4, <2>5, QueueAssumption DEF Custody
    <3>3. \A q \in Obs : row'[q].stale => row'[q].status = "sending"
      BY <1>a, <2>2, <2>3 DEF Custody
    <3> QED
      BY <3>1, <3>2, <3>3 DEF Custody
  <2>7. UNCHANGED <<answer, accepted, pass, summed>>
    BY <1>5 DEF MarkSending
  <2>8. pc[w] = "send" /\ pc'[w] = "post" /\ \A v \in Worker \ {w} : pc'[v] = pc[v]
    BY <1>5, <1>a DEF MarkSending, Goto, TypeOK, QueueTypeOK
  <2>9. answer[w] = ""
    BY <1>a, <2>8, Hands
  <2>10. InTransit'
    <3>1. \A v \in Worker : pc'[v] = "post" => accepted'[hand'[v]] = 0
      BY <1>a, <2>1, <2>4, <2>7, <2>8 DEF InTransit
    <3>2. \A v \in Worker : /\ answer'[v] = "ok" => accepted'[hand'[v]] = 1
                            /\ answer'[v] \notin {"", "ok", "unknown"} => accepted'[hand'[v]] = 0
      BY <1>a, <2>4, <2>7, <2>9 DEF InTransit
    <3>3. \A v \in Worker : \A q \in pass'[v].sent : row'[q].status = "sent"
      <4>1. \A v \in Worker : pass[v].sent \subseteq Obs
        <5>1. \A v \in Worker : pass[v] \in PassState
          BY <1>a DEF TypeOK, QueueTypeOK
        <5> QED
          BY <5>1, PassFields
      <4> QED
        BY <1>e, <2>1, <2>2, <2>7, <4>1
    <3> SUFFICES ASSUME NEW v \in Worker
                 PROVE  /\ pc'[v] = "post" => accepted'[hand'[v]] = 0
                        /\ answer'[v] = "ok" => accepted'[hand'[v]] = 1
                        /\ answer'[v] \notin {"", "ok", "unknown"} => accepted'[hand'[v]] = 0
                        /\ \A q \in pass'[v].sent : row'[q].status = "sent"
      BY DEF InTransit
    <3> QED
      BY <3>1, <3>2, <3>3
  <2>11. Honesty'
    BY <1>a, <2>1, <2>2, <2>3, <2>7 DEF Honesty, HonestRow
  <2>12. SummedWent'
    BY <1>b, <1>f, <2>1, <2>2, <2>7 DEF SummedWent
  <2> QED
    BY <2>6, <2>10, <2>11, <2>12, LedgerPartsNext
<1>6. CASE PostMessage(w)
  <2>1. pc[w] = "post" /\ hand[w] \in Obs /\ accepted[hand[w]] = 0
    BY <1>6, <1>a, <1>d, Hands DEF PostMessage, InTransit
  <2>2. row[hand[w]].status = "sending"
    BY <1>d, <2>1, QueueAssumption
  <2>3. UNCHANGED <<hand, row, pass, summed>>
    BY <1>6 DEF PostMessage, rowVars
  <2>4. PICK a \in Answer \ {""}, taken \in BOOLEAN :
          /\ a = "ok" => taken
          /\ taken => a \in {"ok", "unknown"}
          /\ answer' = [answer EXCEPT ![w] = a]
          /\ accepted' = IF taken THEN [accepted EXCEPT ![hand[w]] = @ + 1] ELSE accepted
    BY <1>6 DEF PostMessage
  <2>5. answer'[w] = a /\ \A v \in Worker \ {w} : answer'[v] = answer[v]
    BY <1>a, <2>4 DEF TypeOK, QueueTypeOK
  <2>6. /\ accepted'[hand[w]] = IF taken THEN 1 ELSE 0
        /\ \A o \in Obs \ {hand[w]} : accepted'[o] = accepted[o]
    <3>1. accepted \in [Obs -> Nat]
      BY <1>a DEF TypeOK, QueueTypeOK
    <3>2. CASE taken
      <4>1. accepted' = [accepted EXCEPT ![hand[w]] = accepted[hand[w]] + 1]
        BY <2>4, <3>2
      <4>2. accepted[hand[w]] + 1 = 1
        BY <2>1, OneMore
      <4>3. accepted'[hand[w]] = accepted[hand[w]] + 1
        BY <2>1, <3>1, <4>1
      <4>4. \A o \in Obs \ {hand[w]} : accepted'[o] = accepted[o]
        BY <2>1, <3>1, <4>1
      <4> QED
        BY <3>2, <4>2, <4>3, <4>4
    <3>3. CASE ~taken
      BY <2>1, <2>4, <3>1, <3>3
    <3> QED
      BY <3>2, <3>3
  <2>7. \A v \in Worker \ {w} : hand[v] # None => hand[v] # hand[w] /\ accepted'[hand[v]] = accepted[hand[v]]
    BY <1>a, <1>d, <2>6 DEF Custody
  <2>8. pc'[w] = "settle" /\ \A v \in Worker \ {w} : pc'[v] = pc[v]
    BY <1>6, <1>a DEF PostMessage, Goto, TypeOK, QueueTypeOK
  <2>9. Custody'
    BY <1>a, <2>3 DEF Custody
  <2>10. InTransit'
    <3>1. ASSUME NEW v \in Worker \ {w}
          PROVE  /\ pc'[v] = "post" => accepted'[hand'[v]] = 0
                 /\ answer'[v] = "ok" => accepted'[hand'[v]] = 1
                 /\ answer'[v] \notin {"", "ok", "unknown"} => accepted'[hand'[v]] = 0
      <4>1. pc[v] = "post" \/ answer[v] # "" => hand[v] # None
        BY <1>a, Hands
      <4>2. /\ pc[v] = "post" => accepted[hand[v]] = 0
            /\ answer[v] = "ok" => accepted[hand[v]] = 1
            /\ answer[v] \notin {"", "ok", "unknown"} => accepted[hand[v]] = 0
        BY <1>a DEF InTransit
      <4> QED
        BY <2>3, <2>5, <2>7, <2>8, <4>1, <4>2
    <3>2. /\ answer'[w] = "ok" => accepted'[hand'[w]] = 1
          /\ answer'[w] \notin {"", "ok", "unknown"} => accepted'[hand'[w]] = 0
      BY <2>3, <2>4, <2>5, <2>6
    <3>3. \A v \in Worker : \A q \in pass'[v].sent : row'[q].status = "sent"
      BY <1>a, <2>3 DEF InTransit
    <3> QED
      BY <2>8, <3>1, <3>2, <3>3 DEF InTransit
  <2>11. Honesty'
    BY <1>a, <2>2, <2>3, <2>6 DEF Honesty, HonestRow
  <2>12. SummedWent'
    BY <1>a, <2>3 DEF SummedWent
  <2> QED
    BY <2>9, <2>10, <2>11, <2>12, LedgerPartsNext
<1>7. CASE ClosePass(w)
  <2>1. \A v \in Worker, o \in Obs : o \in pass'[v].sent => row[o].status = "sent"
    <3>1. FreshPass.sent = {}
      BY DEF FreshPass
    <3> QED
      BY <1>7, <1>b, <3>1, PassSent DEF ClosePass
  <2>2. \A o \in Obs : o \in summed' => row[o].status = "sent"
    BY <1>7, <1>e, <1>f DEF ClosePass
  <2> QED
    BY <1>7, <2>1, <2>2, LeavesHands DEF ClosePass
<1> QED
  BY <1>1, <1>2, <1>4, <1>5, <1>6, <1>7 DEF Sending
\* The pass of the worker that settles a row, when it only counts.
LEMMA CountsOnly ==
    ASSUME TypeOK, NEW w \in Worker, NEW n \in Nat, CountFailure(w, n)
    PROVE  \A v \in Worker : pass'[v].sent = pass[v].sent
<1>1. pass \in [Worker -> PassState]
  BY DEF TypeOK, QueueTypeOK
<1>2. \A v \in Worker : pass[v] \in PassState
  BY <1>1
<1>3. pass' = [pass EXCEPT ![w].streak = @ + n]
  BY DEF CountFailure
<1> QED
  BY <1>1, <1>2, <1>3 DEF PassState

\* A row that is marked failed, or tried again, while WhatsApp did not take it.
LEMMA SettledRows ==
    ASSUME NEW n \in RowState, NEW why \in Reason, NEW c, c \in {0, 1}, n.status = "sending"
    PROVE  /\ c = 1 => HonestRow(Sent(n), c)
           /\ c = 0 => HonestRow(Requeued(n), c) /\ HonestRow(Failed(n, why), c)
           /\ HonestRow(Failed(n, "unknown"), c)
<1>1. /\ Sent(n).status = "sent"
      /\ Requeued(n).status = "pending"
      /\ Failed(n, why).status = "failed"
  BY RowFields
<1>2. Failed(n, "unknown").status = "failed" /\ Failed(n, "unknown").why = "unknown"
  BY RowFields DEF Reason
<1> QED
  BY <1>1, <1>2 DEF HonestRow

\* What WhatsApp answered is written on the row in hand.
LEMMA SettlingLedger == ASSUME Ledger, TypeOK', NEW w \in Worker, Settling(w) PROVE Ledger'
<1>a. TypeOK /\ Custody /\ InTransit /\ Honesty /\ SummedWent
  BY LedgerParts
<1>e. \A v \in Worker, o \in Obs : o \in pass[v].sent => row[o].status = "sent"
  BY <1>a DEF InTransit
<1>f. \A o \in Obs : o \in summed => row[o].status = "sent"
  BY <1>a DEF SummedWent
<1> DEFINE n == row[hand[w]]
           c == accepted[hand[w]]
<1>g. ASSUME pc[w] = "settle"
      PROVE  /\ hand[w] \in Obs /\ n \in RowState /\ n.status = "sending" /\ c \in {0, 1}
             /\ answer[w] = "ok" => c = 1
             /\ answer[w] \notin {"ok", "unknown"} => c = 0
  <2>1. hand[w] \in Obs /\ hand[w] # None /\ answer[w] # ""
    BY <1>a, <1>g, Hands, QueueAssumption
  <2>2. n \in RowState
    BY <1>a, <2>1 DEF TypeOK, QueueTypeOK
  <2>3. n.status = "sending"
    BY <1>a, <2>1 DEF Custody
  <2>4. c \in {0, 1}
    BY <1>a, <2>1 DEF Honesty, HonestRow
  <2>5. /\ answer[w] = "ok" => c = 1
        /\ answer[w] \notin {"ok", "unknown"} => c = 0
    BY <1>a, <2>1 DEF InTransit
  <2> QED
    BY <2>1, <2>2, <2>3, <2>4, <2>5
<1> HIDE DEF n, c
<1>h. \A why \in {"unknown", "refused"} : why \in Reason
  BY DEF Reason
<1>i. ASSUME pc[w] = "settle", NEW t \in RowState, row' = [row EXCEPT ![hand[w]] = t],
             t.stale = n.stale, t.status \in {"pending", "failed"}, HonestRow(t, c),
             LetGo(w), UNCHANGED <<accepted, summed>>,
             \A v \in Worker : pass'[v].sent = pass[v].sent
      PROVE  Ledger'
  BY <1>i, SettlesRow DEF n, c
<1>1. CASE SettleSent(w)
  <2>1. pc[w] = "settle" /\ answer[w] = "ok"
    BY <1>1 DEF SettleSent, Went
  <2>2. hand[w] \in Obs /\ n \in RowState /\ n.status = "sending" /\ c = 1
    BY <1>g, <2>1
  <2>3. row' = [row EXCEPT ![hand[w]] = Sent(n)]
    BY <1>1 DEF SettleSent, n
  <2>4. Sent(n) \in RowState /\ Sent(n).status = "sent" /\ Sent(n).stale = n.stale
    BY <1>h, <2>2, RowShapes, RowFields
  <2>5. HonestRow(Sent(n), c)
    BY <2>2, <2>4 DEF HonestRow
  <2>6. \A v \in Worker, o \in Obs : o \in pass'[v].sent => o \in pass[v].sent \/ (v = w /\ o = hand[w])
    <3>1. pass \in [Worker -> PassState]
      BY <1>a DEF TypeOK, QueueTypeOK
    <3>2. \A v \in Worker : pass[v] \in PassState
      BY <3>1
    <3>3. PICK S : S \subseteq {hand[w]} /\ pass' = [pass EXCEPT ![w] = [pass[w] EXCEPT !.streak = 0, !.sent = @ \cup S]]
      <4>1. pass' = [pass EXCEPT ![w] = [pass[w] EXCEPT !.streak = 0,
                                            !.sent = @ \cup {o \in {hand[w]} : prayer[o].live}]]
        BY <1>1 DEF SettleSent
      <4> QED
        BY <4>1
    <3>4. \A v \in Worker \ {w} : pass'[v] = pass[v]
      BY <3>1, <3>3
    <3>5. pass'[w] = [pass[w] EXCEPT !.streak = 0, !.sent = @ \cup S]
      BY <3>1, <3>3
    <3>6. pass'[w].sent = pass[w].sent \cup S
      BY <3>2, <3>5 DEF PassState
    <3> QED
      BY <3>3, <3>4, <3>6
  <2>7. LetGo(w) /\ UNCHANGED <<accepted, summed>>
    BY <1>1 DEF SettleSent
  <2> QED
    BY <2>1, <2>3, <2>4, <2>5, <2>6, <2>7, SettlesRow DEF n, c
<1>2. CASE SettleUnknown(w)
  <2>1. pc[w] = "settle" /\ n \in RowState /\ n.status = "sending" /\ c \in {0, 1}
    BY <1>2, <1>g DEF SettleUnknown
  <2>2. row' = [row EXCEPT ![hand[w]] = Failed(n, "unknown")]
    BY <1>2 DEF SettleUnknown, n
  <2>3. Failed(n, "unknown") \in RowState
    BY <1>h, <2>1, RowShapes
  <2>4. Failed(n, "unknown").status = "failed" /\ Failed(n, "unknown").stale = n.stale
    BY <1>h, <2>1, RowFields
  <2>5. HonestRow(Failed(n, "unknown"), c)
    BY <1>h, <2>1, SettledRows
  <2>6. \A v \in Worker : pass'[v].sent = pass[v].sent
    BY <1>2, <1>a, CountsOnly DEF SettleUnknown
  <2>7. LetGo(w) /\ UNCHANGED <<accepted, summed>>
    BY <1>2 DEF SettleUnknown
  <2> QED
    BY <1>i, <2>1, <2>2, <2>3, <2>4, <2>5, <2>6, <2>7
<1>3. CASE SettleRefused(w)
  <2>1. pc[w] = "settle" /\ n \in RowState /\ n.status = "sending" /\ c = 0
    BY <1>3, <1>g DEF SettleRefused
  <2>2. row' = [row EXCEPT ![hand[w]] = Failed(n, "refused")]
    BY <1>3 DEF SettleRefused, n
  <2>3. Failed(n, "refused") \in RowState
    BY <1>h, <2>1, RowShapes
  <2>4. Failed(n, "refused").status = "failed" /\ Failed(n, "refused").stale = n.stale
    BY <1>h, <2>1, RowFields
  <2>5. HonestRow(Failed(n, "refused"), c)
    BY <2>1, <2>4 DEF HonestRow
  <2>6. \A v \in Worker : pass'[v].sent = pass[v].sent
    <3>1. CountFailure(w, 0) \/ CountFailure(w, 1)
      BY <1>3 DEF SettleRefused
    <3> QED
      BY <1>a, <3>1, CountsOnly
  <2>7. LetGo(w) /\ UNCHANGED <<accepted, summed>>
    BY <1>3 DEF SettleRefused
  <2> QED
    BY <1>i, <2>1, <2>2, <2>3, <2>4, <2>5, <2>6, <2>7
<1>4. CASE SettleRetry(w)
  <2>1. pc[w] = "settle" /\ n \in RowState /\ n.status = "sending" /\ c = 0
    BY <1>4, <1>g DEF SettleRetry
  <2>2. row' = [row EXCEPT ![hand[w]] = Requeued(Tried(n))]
    BY <1>4 DEF SettleRetry, n
  <2>3. Tried(n) \in RowState /\ Tried(n).stale = n.stale
    BY <1>h, <2>1, RowShapes, RowFields
  <2>4. Requeued(Tried(n)) \in RowState
    BY <1>h, <2>3, RowShapes
  <2>5. Requeued(Tried(n)).status = "pending" /\ Requeued(Tried(n)).stale = n.stale
    BY <1>h, <2>3, RowFields
  <2>6. HonestRow(Requeued(Tried(n)), c)
    BY <2>1, <2>5 DEF HonestRow
  <2>7. LetGo(w) /\ UNCHANGED <<accepted, summed, pass>>
    BY <1>4 DEF SettleRetry
  <2> QED
    BY <1>i, <2>1, <2>2, <2>4, <2>5, <2>6, <2>7
<1>5. CASE SettleExhausted(w)
  <2>1. pc[w] = "settle" /\ n \in RowState /\ n.status = "sending" /\ c = 0
    BY <1>5, <1>g DEF SettleExhausted
  <2>2. row' = [row EXCEPT ![hand[w]] = Failed(Tried(n), "refused")]
    BY <1>5 DEF SettleExhausted, n
  <2>3. Tried(n) \in RowState /\ Tried(n).stale = n.stale
    BY <1>h, <2>1, RowShapes, RowFields
  <2>4. Failed(Tried(n), "refused") \in RowState
    BY <1>h, <2>3, RowShapes
  <2>5. Failed(Tried(n), "refused").status = "failed" /\ Failed(Tried(n), "refused").stale = n.stale
    BY <1>h, <2>3, RowFields
  <2>6. HonestRow(Failed(Tried(n), "refused"), c)
    BY <2>1, <2>5 DEF HonestRow
  <2>7. \A v \in Worker : pass'[v].sent = pass[v].sent
    BY <1>5, <1>a, CountsOnly DEF SettleExhausted
  <2>8. LetGo(w) /\ UNCHANGED <<accepted, summed>>
    BY <1>5 DEF SettleExhausted
  <2> QED
    BY <1>i, <2>1, <2>2, <2>4, <2>5, <2>6, <2>7, <2>8
<1>6. CASE SettleAccount(w)
  <2>1. pc[w] = "settle" /\ n \in RowState /\ n.status = "sending" /\ c = 0
    BY <1>6, <1>g DEF SettleAccount
  <2>2. row' = [row EXCEPT ![hand[w]] = Requeued(n)]
    BY <1>6 DEF SettleAccount, n
  <2>3. Requeued(n) \in RowState
    BY <1>h, <2>1, RowShapes
  <2>4. Requeued(n).status = "pending" /\ Requeued(n).stale = n.stale
    BY <1>h, <2>1, RowFields
  <2>5. HonestRow(Requeued(n), c)
    BY <2>1, <2>4 DEF HonestRow
  <2>6. LetGo(w) /\ UNCHANGED <<accepted, summed, pass>>
    BY <1>6 DEF SettleAccount
  <2> QED
    BY <1>i, <2>1, <2>2, <2>3, <2>4, <2>5, <2>6
<1>7. CASE TripBreaker(w)
  BY <1>7, <1>e, <1>f, LeavesHands DEF TripBreaker, rowVars
<1> QED
  BY <1>1, <1>2, <1>3, <1>4, <1>5, <1>6, <1>7 DEF Settling
\* A crash lets go of what was in hand: the row stays on its way.
LEMMA CrashLedger == ASSUME Ledger, TypeOK', NEW w \in Worker, Crash(w) PROVE Ledger'
<1>a. TypeOK /\ Custody /\ InTransit /\ Honesty /\ SummedWent
  BY LedgerParts
<1>1. UNCHANGED <<row, summed, accepted>>
  BY DEF Crash, rowVars
<1>2. hand \in [Worker -> Obs \cup {None}] /\ answer \in [Worker -> Answer] /\ pc \in [Worker -> Place]
  BY <1>a DEF TypeOK, QueueTypeOK
<1>3. /\ hand'[w] = None /\ answer'[w] = "" /\ pc'[w] = "idle"
      /\ \A v \in Worker \ {w} : hand'[v] = hand[v] /\ answer'[v] = answer[v] /\ pc'[v] = pc[v]
  BY <1>2 DEF Crash, LetGo, Goto
<1>4. Custody'
  BY <1>a, <1>1, <1>3, ZenonT(60) DEF Custody
<1>5. InTransit'
  <2>1. \A v \in Worker, o \in Obs : o \in pass'[v].sent => row[o].status = "sent"
    <3>1. FreshPass.sent = {} /\ pass' \in [Worker -> PassState]
      BY DEF FreshPass, TypeOK, QueueTypeOK
    <3> QED
      BY <3>1, PassSent DEF Crash
  <2>2. \A v \in Worker : pass'[v].sent \subseteq Obs
    <3>1. \A v \in Worker : pass'[v] \in PassState
      BY DEF TypeOK, QueueTypeOK
    <3> QED
      BY <3>1 DEF PassState
  <2> SUFFICES ASSUME NEW v \in Worker
               PROVE  /\ pc'[v] = "post" => accepted'[hand'[v]] = 0
                      /\ answer'[v] = "ok" => accepted'[hand'[v]] = 1
                      /\ answer'[v] \notin {"", "ok", "unknown"} => accepted'[hand'[v]] = 0
    BY <1>1, <2>1, <2>2 DEF InTransit
  <2> QED
    BY <1>a, <1>1, <1>3 DEF InTransit
<1>6. Honesty' /\ SummedWent'
  BY <1>a, <1>1 DEF Honesty, SummedWent
<1> QED
  BY <1>4, <1>5, <1>6, LedgerPartsNext

\* A row grows stale only in nobody's hands.
LEMMA StaleLedger == ASSUME Ledger, TypeOK', NEW o \in Obs, GoStale(o) PROVE Ledger'
<1>a. TypeOK /\ Custody /\ InTransit /\ Honesty /\ SummedWent
  BY LedgerParts
<1>1. row[o] \in RowState /\ row[o].status = "sending"
  BY <1>a DEF GoStale, TypeOK, QueueTypeOK
<1>2. row'[o] = [row[o] EXCEPT !.stale = TRUE] /\ \A q \in Obs \ {o} : row'[q] = row[q]
  BY <1>a DEF GoStale, TypeOK, QueueTypeOK
<1>3. row'[o].status = "sending"
  BY <1>1, <1>2 DEF RowState
<1>4. \A v \in Worker : hand[v] # None => row'[hand[v]] = row[hand[v]]
  BY <1>a, <1>2, Hands DEF GoStale
<1>5. HonestRow(row'[o], accepted[o])
  BY <1>a, <1>3 DEF Honesty, HonestRow
<1>6. \A v \in Worker, q \in Obs : q \in pass'[v].sent => row[q].status = "sent"
  BY <1>a DEF GoStale, workVars, InTransit
<1>7. \A q \in Obs : q \in summed' => row[q].status = "sent"
  BY <1>a DEF GoStale, SummedWent
<1>8. UNCHANGED <<hand, answer, accepted>>
  BY DEF GoStale, workVars
<1> QED
  BY <1>1, <1>2, <1>3, <1>4, <1>5, <1>6, <1>7, <1>8, LeavesHands

\* So the ledger is inductive.
LEMMA LedgerStep == ASSUME Ledger, TypeOK', [Next]_vars PROVE Ledger'
<1>1. ASSUME UNCHANGED <<row, summed, pass, hand, answer, accepted>> PROVE Ledger'
  <2>1. \A w \in Worker, o \in Obs : o \in pass'[w].sent => row[o].status = "sent"
    BY <1>1 DEF Ledger, InTransit
  <2>2. \A o \in Obs : o \in summed' => row[o].status = "sent"
    BY <1>1 DEF Ledger, SentIsTrue
  <2> QED
    BY <1>1, <2>1, <2>2, LeavesHands
<1>2. CASE \E w \in Worker : Work(w)
  BY <1>2, PlanningLedger, SendingLedger, SettlingLedger DEF Work
<1>3. CASE \E w \in Worker : Crash(w)
  BY <1>3, CrashLedger
<1>4. CASE \E o \in Obs : GoStale(o)
  BY <1>4, StaleLedger
<1>5. CASE CutOff
  BY <1>1, <1>5 DEF CutOff, rowVars, workVars
<1>6. CASE AdminPause \/ AdminResume
  BY <1>1, <1>6 DEF AdminPause, AdminResume, rowVars, workVars
<1>7. CASE InTheBook
  BY <1>1, <1>7 DEF InTheBook, queueVars, rowVars, workVars
<1>8. CASE UNCHANGED vars
  BY <1>1, <1>8 DEF vars, queueVars, rowVars, workVars
<1> QED
  BY <1>2, <1>3, <1>4, <1>5, <1>6, <1>7, <1>8 DEF Next

\* Nothing has been planned and nothing has gone.
LEMMA LedgerInit == Init => Ledger
<1> SUFFICES ASSUME Init PROVE Ledger
  OBVIOUS
<1>1. TypeOK
  BY TypeInit
<1>2. \A o \in Obs : row[o].status = "none" /\ ~row[o].stale /\ accepted[o] = 0
  BY DEF Init, NoRow
<1>3. \A w \in Worker : pass[w].sent = {} /\ hand[w] = None /\ pc[w] = "idle" /\ answer[w] = ""
  BY DEF Init, FreshPass
<1>4. Custody
  BY <1>2, <1>3 DEF Custody
<1>5. InTransit
  BY <1>3 DEF InTransit
<1>6. Honesty
  BY <1>2 DEF Honesty, HonestRow
<1>7. SummedWent
  BY DEF Init, SummedWent
<1> QED
  BY <1>1, <1>4, <1>5, <1>6, <1>7, LedgerParts

\* The ledger holds throughout: rows, hands and copies always agree
\* (plan_tomorrow, send_pending and the stuck sweep together).
THEOREM LedgerHolds == Spec => []Ledger
<1>1. BookOK /\ TypeOK /\ Ledger /\ [Next]_vars => (BookOK /\ TypeOK /\ Ledger)'
  <2> SUFFICES ASSUME BookOK, TypeOK, Ledger, [Next]_vars PROVE BookOK' /\ TypeOK' /\ Ledger'
    OBVIOUS
  <2>1. BookOK' /\ TypeOK'
    BY TypeStep
  <2>2. Ledger'
    BY <2>1, LedgerStep
  <2> QED
    BY <2>1, <2>2
<1> QED
  BY <1>1, TypeInit, LedgerInit, PTL DEF Spec

\* No observance's reminder is ever accepted twice by WhatsApp, for any number
\* of workers, crashes, retries and lost answers.
THEOREM AtMostOnceAlways == Spec => []AtMostOnce
BY LedgerHolds, PTL DEF Ledger

\* A worker never writes on a row that another holds or that was written off.
THEOREM CustodyAlways == Spec => []Custody
BY LedgerHolds, PTL DEF Ledger

\* A mobed told "not sent" is told the truth.
THEOREM NotSentAlwaysTrue == Spec => []NotSentIsTrue
BY LedgerHolds, PTL DEF Ledger

\* A reminder shown as sent, or summed up, was accepted by WhatsApp.
THEOREM SentAlwaysTrue == Spec => []SentIsTrue
BY LedgerHolds, PTL DEF Ledger

\* STOPs and agreements stay right while the worker runs beside the book.
THEOREM BookHoldsBesideTheWorker == Spec => [](StopHolds /\ AgreementIsInTheBook)
<1>1. BookOK /\ TypeOK /\ [Next]_vars => (BookOK /\ TypeOK)'
  BY TypeStep
<1> QED
  BY <1>1, TypeInit, PTL DEF Spec, BookOK
-----------------------------------------------------------------------------
(***************************************************************************)
(* The worker keeps the promise: every step is one of ReminderPromise's,   *)
(* seen through Fate, or changes nothing there.                            *)
(***************************************************************************)

\* What may become of a row, and of the copies that went, in one step.
Moves(o) ==
    \/ row'[o] = row[o] /\ accepted'[o] = accepted[o]
    \/ row'[o] = row[o] /\ row[o].status = "sending" /\ accepted[o] = 0 /\ accepted'[o] = 1
    \/ /\ accepted'[o] = accepted[o]
       /\ row[o].status = "none"
       /\ row'[o].status \in {"pending", "failed"} /\ row'[o].why # "unknown"
    \/ /\ accepted'[o] = accepted[o]
       /\ row[o].status = "pending"
       /\ row'[o].status = "sending" \/ (row'[o].status = "failed" /\ row'[o].why # "unknown")
    \/ /\ accepted'[o] = accepted[o]
       /\ row[o].status = "sending"
       /\ row'[o].status \in {"sending", "pending", "sent", "failed"}

\* Sweeping, picking, marking and posting move rows as allowed.
LEMMA SendingMoves == ASSUME Ledger, NEW w \in Worker, Sending(w) PROVE \A o \in Obs : Moves(o)
<1>a. row \in [Obs -> RowState] /\ accepted \in [Obs -> Nat]
  BY DEF Ledger, TypeOK, QueueTypeOK
<1>1. CASE OpenQueue(w)
  <2> SUFFICES ASSUME NEW o \in Stuck
               PROVE  row[o].status = "sending" /\ row'[o].status = "failed"
    BY <1>1 DEF OpenQueue, Moves
  <2>1. row[o] \in RowState /\ row[o].status = "sending" /\ row'[o] = WrittenOff(row[o]) /\ "" \in Reason
    BY <1>1, <1>a DEF OpenQueue, Stuck, Reason
  <2>2. WrittenOff(row[o]).status = "failed"
    BY <2>1, RowFields
  <2> QED
    BY <2>1, <2>2
<1>2. CASE LeaveQueue(w) \/ ClosePass(w)
  BY <1>2 DEF LeaveQueue, ClosePass, rowVars, Moves
<1>3. ASSUME NEW o \in Obs, NEW why \in {"late", "withdrawn"}, Head(o),
             row' = [row EXCEPT ![o] = Failed(@, why)], UNCHANGED accepted
      PROVE  \A q \in Obs : Moves(q)
  <2>1. row[o].status = "pending" /\ row[o] \in RowState /\ why \in Reason
    BY <1>3, <1>a DEF Head, Pending, Reason
  <2>2. Failed(row[o], why).status = "failed" /\ Failed(row[o], why).why = why
    BY <2>1, RowFields
  <2>3. row'[o] = Failed(row[o], why) /\ \A q \in Obs \ {o} : row'[q] = row[q]
    BY <1>3, <1>a
  <2> QED
    BY <1>3, <2>1, <2>2, <2>3 DEF Moves
<1>4. ASSUME NEW o \in Obs, GiveUpLate(w, o) \/ DropWithdrawn(w, o) PROVE \A q \in Obs : Moves(q)
  BY <1>3, <1>4 DEF GiveUpLate, DropWithdrawn
<1>5. ASSUME NEW o \in Obs, MarkSending(w, o) PROVE \A q \in Obs : Moves(q)
  <2>1. row[o].status = "pending" /\ row[o] \in RowState /\ "" \in Reason
    BY <1>5, <1>a DEF MarkSending, Head, Pending, Reason
  <2>2. Marked(row[o]).status = "sending"
    BY <2>1, RowFields
  <2>3. row'[o] = Marked(row[o]) /\ \A q \in Obs \ {o} : row'[q] = row[q]
    BY <1>5, <1>a DEF MarkSending
  <2> QED
    BY <1>5, <2>1, <2>2, <2>3 DEF MarkSending, Moves
<1>6. CASE PostMessage(w)
  <2>1. hand[w] \in Obs /\ row[hand[w]].status = "sending" /\ accepted[hand[w]] = 0
    BY <1>6, Hands, QueueAssumption DEF PostMessage, Ledger, InTransit, Custody
  <2>2. UNCHANGED row
    BY <1>6 DEF PostMessage, rowVars
  <2>3. accepted' = accepted \/ accepted' = [accepted EXCEPT ![hand[w]] = accepted[hand[w]] + 1]
    BY <1>6 DEF PostMessage
  <2>4. accepted[hand[w]] + 1 = 1
    BY <2>1, OneMore
  <2>5. accepted' = accepted \/ (accepted'[hand[w]] = 1 /\ \A o \in Obs \ {hand[w]} : accepted'[o] = accepted[o])
    BY <1>a, <2>1, <2>3, <2>4
  <2> QED
    BY <2>1, <2>2, <2>5 DEF Moves
<1> QED
  BY <1>1, <1>2, <1>4, <1>5, <1>6 DEF Sending

\* So does settling the row in hand.
LEMMA SettlingMoves == ASSUME Ledger, NEW w \in Worker, Settling(w) PROVE \A o \in Obs : Moves(o)
<1> DEFINE n == row[hand[w]]
<1>a. row \in [Obs -> RowState]
  BY DEF Ledger, TypeOK, QueueTypeOK
<1>b. "" \in Reason /\ "unknown" \in Reason /\ "refused" \in Reason
  BY DEF Reason
<1>c. ASSUME pc[w] = "settle" PROVE hand[w] \in Obs /\ n \in RowState /\ n.status = "sending"
  <2>1. hand[w] \in Obs /\ hand[w] # None
    BY <1>c, Hands, QueueAssumption DEF Ledger
  <2> QED
    BY <1>a, <2>1 DEF Ledger, Custody
<1>d. ASSUME pc[w] = "settle", NEW t, row' = [row EXCEPT ![hand[w]] = t],
             t.status \in {"pending", "sent", "failed"}, UNCHANGED accepted
      PROVE  \A o \in Obs : Moves(o)
  <2>1. row'[hand[w]] = t /\ \A o \in Obs \ {hand[w]} : row'[o] = row[o]
    BY <1>a, <1>c, <1>d
  <2> QED
    BY <1>c, <1>d, <2>1 DEF Moves
<1> HIDE DEF n
<1>1. ASSUME NEW m \in RowState
      PROVE  /\ Sent(m).status = "sent"
             /\ Requeued(m).status = "pending"
             /\ Failed(m, "unknown").status = "failed"
             /\ Failed(m, "refused").status = "failed"
             /\ Tried(m) \in RowState
  BY <1>b, RowFields, RowShapes, ZenonT(60)
<1>2. CASE SettleSent(w)
  <2>1. pc[w] = "settle" /\ row' = [row EXCEPT ![hand[w]] = Sent(n)] /\ UNCHANGED accepted
    BY <1>2 DEF SettleSent, n
  <2> QED
    BY <1>1, <1>c, <1>d, <2>1
<1>3. CASE SettleUnknown(w)
  <2>1. pc[w] = "settle" /\ row' = [row EXCEPT ![hand[w]] = Failed(n, "unknown")] /\ UNCHANGED accepted
    BY <1>3 DEF SettleUnknown, n
  <2> QED
    BY <1>1, <1>c, <1>d, <2>1
<1>4. CASE SettleRefused(w)
  <2>1. pc[w] = "settle" /\ row' = [row EXCEPT ![hand[w]] = Failed(n, "refused")] /\ UNCHANGED accepted
    BY <1>4 DEF SettleRefused, n
  <2> QED
    BY <1>1, <1>c, <1>d, <2>1
<1>5. CASE SettleRetry(w)
  <2>1. pc[w] = "settle" /\ row' = [row EXCEPT ![hand[w]] = Requeued(Tried(n))] /\ UNCHANGED accepted
    BY <1>5 DEF SettleRetry, n
  <2> QED
    BY <1>1, <1>c, <1>d, <2>1
<1>6. CASE SettleExhausted(w)
  <2>1. pc[w] = "settle" /\ row' = [row EXCEPT ![hand[w]] = Failed(Tried(n), "refused")] /\ UNCHANGED accepted
    BY <1>6 DEF SettleExhausted, n
  <2> QED
    BY <1>1, <1>c, <1>d, <2>1
<1>7. CASE SettleAccount(w)
  <2>1. pc[w] = "settle" /\ row' = [row EXCEPT ![hand[w]] = Requeued(n)] /\ UNCHANGED accepted
    BY <1>7 DEF SettleAccount, n
  <2> QED
    BY <1>1, <1>c, <1>d, <2>1
<1>8. CASE TripBreaker(w)
  BY <1>8 DEF TripBreaker, rowVars, Moves
<1> QED
  BY <1>2, <1>3, <1>4, <1>5, <1>6, <1>7, <1>8 DEF Settling

\* Every step moves each row so.
LEMMA StepMoves == ASSUME Ledger, [Next]_vars PROVE \A o \in Obs : Moves(o)
<1>1. ASSUME NEW w \in Worker, Planning(w) PROVE \A o \in Obs : Moves(o)
  <2>1. CASE StartTick(w) \/ PlanFails(w)
    BY <2>1 DEF StartTick, PlanFails, rowVars, Moves
  <2>2. CASE WritePlan(w)
    BY <2>2, PlannedRows DEF WritePlan, Moves
  <2> QED
    BY <1>1, <2>1, <2>2 DEF Planning
<1>2. ASSUME NEW w \in Worker, Work(w) PROVE \A o \in Obs : Moves(o)
  BY <1>1, <1>2, SendingMoves, SettlingMoves DEF Work
<1>3. ASSUME NEW o \in Obs, GoStale(o) PROVE \A q \in Obs : Moves(q)
  <2>1. row \in [Obs -> RowState]
    BY DEF Ledger, TypeOK, QueueTypeOK
  <2>2. row[o] \in RowState /\ row'[o] = [row[o] EXCEPT !.stale = TRUE] /\ \A q \in Obs \ {o} : row'[q] = row[q]
    BY <1>3, <2>1 DEF GoStale
  <2>3. row'[o].status = row[o].status
    BY <2>2 DEF RowState
  <2> QED
    BY <1>3, <2>2, <2>3 DEF GoStale, Moves
<1>4. ASSUME UNCHANGED <<row, accepted>> PROVE \A o \in Obs : Moves(o)
  BY <1>4 DEF Moves
<1>5. CASE \E w \in Worker : Crash(w)
  BY <1>4, <1>5 DEF Crash, rowVars
<1>6. CASE CutOff \/ AdminPause \/ AdminResume
  BY <1>4, <1>6 DEF CutOff, AdminPause, AdminResume, rowVars
<1>7. CASE InTheBook
  BY <1>4, <1>7 DEF InTheBook, queueVars, rowVars
<1>8. CASE UNCHANGED vars
  BY <1>4, <1>8 DEF vars, queueVars, rowVars
<1> QED
  BY <1>2, <1>3, <1>5, <1>6, <1>7, <1>8 DEF Next
\* The fate a row shows, by its status.
LEMMA Fates ==
    ASSUME NEW n \in RowState
    PROVE  /\ FateOf(n) \in Promise!Fate
           /\ n.status = "none" <=> FateOf(n) = "none"
           /\ n.status = "pending" <=> FateOf(n) = "queued"
           /\ n.status = "sending" <=> FateOf(n) = "trying"
           /\ n.status = "sent" <=> FateOf(n) = "sent"
           /\ n.status = "failed" /\ n.why = "unknown" <=> FateOf(n) = "unknown"
           /\ n.status = "failed" /\ n.why # "unknown" <=> FateOf(n) = "not sent"
<1>1. n.status \in Status
  BY DEF RowState
<1> QED
  BY <1>1 DEF FateOf, Status, Promise!Fate

\* So every step of the worker is one of the promise, or changes nothing of it.
LEMMA PromiseStep ==
    ASSUME Ledger, Ledger', [Next]_vars PROVE [Promise!Next]_<<Fate, accepted>>
<1>1. row \in [Obs -> RowState] /\ row' \in [Obs -> RowState] /\ accepted' \in [Obs -> Nat]
  BY DEF Ledger, TypeOK, QueueTypeOK
<1>2. Fate = [o \in Obs |-> FateOf(row[o])] /\ Fate' = [o \in Obs |-> FateOf(row'[o])]
  BY DEF Fate, FateOf
<1>3. Fate' \in [Obs -> Promise!Fate]
  BY <1>1, <1>2, Fates
<1>4. ASSUME NEW o \in Obs PROVE Promise!Settle(o) \/ Promise!Accept(o) \/ Promise!Keep(o)
  <2>1. row[o] \in RowState /\ row'[o] \in RowState
    BY <1>1
  <2>2. Fate[o] = FateOf(row[o]) /\ Fate'[o] = FateOf(row'[o])
    BY <1>2
  <2>3. Moves(o)
    BY StepMoves
  <2>4. HonestRow(row'[o], accepted'[o])
    <3>1. Honesty'
      BY LedgerParts, PTL
    <3> QED
      BY <3>1 DEF Honesty
  <2>5. Promise!Honest(Fate'[o], accepted'[o])
    BY <2>1, <2>2, <2>4, Fates DEF HonestRow, Promise!Honest
  <2>6. CASE row'[o] = row[o] /\ accepted'[o] = accepted[o]
    BY <2>2, <2>6 DEF Promise!Keep
  <2>7. CASE row'[o] = row[o] /\ row[o].status = "sending" /\ accepted[o] = 0 /\ accepted'[o] = 1
    BY <2>1, <2>2, <2>7, Fates DEF Promise!Accept
  <2>8. CASE /\ accepted'[o] = accepted[o]
             /\ row[o].status = "none"
             /\ row'[o].status \in {"pending", "failed"} /\ row'[o].why # "unknown"
    <3>1. Fate[o] = "none" /\ Fate'[o] \in {"queued", "not sent"}
      BY <2>1, <2>2, <2>8, Fates
    <3> QED
      BY <2>5, <2>8, <3>1 DEF Promise!Settle, Promise!NextFate, Promise!Fate
  <2>9. CASE /\ accepted'[o] = accepted[o]
             /\ row[o].status = "pending"
             /\ row'[o].status = "sending" \/ (row'[o].status = "failed" /\ row'[o].why # "unknown")
    <3>1. Fate[o] = "queued" /\ Fate'[o] \in {"trying", "not sent"}
      BY <2>1, <2>2, <2>9, Fates
    <3> QED
      BY <2>5, <2>9, <3>1 DEF Promise!Settle, Promise!NextFate, Promise!Fate
  <2>10. CASE /\ accepted'[o] = accepted[o]
              /\ row[o].status = "sending"
              /\ row'[o].status \in {"sending", "pending", "sent", "failed"}
    <3>1. Fate[o] = "trying" /\ Fate'[o] \in {"trying", "queued", "sent", "not sent", "unknown"}
      BY <2>1, <2>2, <2>10, Fates
    <3>2. CASE Fate'[o] = "trying"
      BY <2>10, <3>1, <3>2 DEF Promise!Keep
    <3>3. CASE Fate'[o] # "trying"
      BY <2>5, <2>10, <3>1, <3>3 DEF Promise!Settle, Promise!NextFate, Promise!Fate
    <3> QED
      BY <3>2, <3>3
  <2> QED
    BY <2>3, <2>6, <2>7, <2>8, <2>9, <2>10 DEF Moves
<1> QED
  BY <1>1, <1>3, <1>4 DEF Promise!Next

\* Nothing is decided in the beginning, here and there.
LEMMA PromiseInit == Init => Promise!Init
<1> SUFFICES ASSUME Init PROVE Promise!Init
  OBVIOUS
<1>1. \A o \in Obs : FateOf(row[o]) = "none"
  BY DEF Init, NoRow, FateOf
<1> QED
  BY <1>1 DEF Init, Fate, Promise!Init

\* Workers, ticks, crashes and retries keep ReminderPromise: a reminder is
\* decided on once, tried again only when no copy went, and never revised.
THEOREM TheWorkerKeepsThePromise == Spec => PromiseKept
<1>1. Ledger /\ Ledger' /\ [Next]_vars => [Promise!Next]_<<Fate, accepted>>
  BY PromiseStep
<1> QED
  BY <1>1, PromiseInit, LedgerHolds, PTL DEF Spec, PromiseKept, Promise!Spec, Promise!promiseVars

-----------------------------------------------------------------------------
(***************************************************************************)
(* What the mobeds are told.                                               *)
(***************************************************************************)

\* MobedToldOnce, one row at a time.
ToldRight(o) ==
    /\ told[o] <= 1
    /\ told[o] = 1 => row[o].status = "failed"
    /\ row[o].status = "failed" /\ row[o].why # "withdrawn" /\ prayer[o].live => told[o] = 1

\* How one step tells: a row fails once, and its mobed hears of it then, if
\* anyone is to hear; no failed row changes again.
Tells(o) ==
    \/ UNCHANGED <<row[o], told[o]>>
    \/ row[o].status # "failed" /\ row'[o].status # "failed" /\ told'[o] = told[o]
    \/ row[o].status # "failed" /\ row'[o].status = "failed" /\ row'[o].why = "withdrawn" /\ told'[o] = told[o]
    \/ /\ row[o].status # "failed" /\ row'[o].status = "failed"
       /\ told'[o] = IF prayer[o].live THEN told[o] + 1 ELSE told[o]

\* No memorial comes back.
LEMMA NoneRevived == ASSUME BookTypeOK, [Next]_vars, NEW o \in Obs, prayer'[o].live PROVE prayer[o].live
<1>a. prayer[o] \in PrayerState /\ prayer \in [Obs -> PrayerState]
  BY DEF BookTypeOK
<1>1. UNCHANGED prayer => prayer[o].live
  OBVIOUS
<1>2. ASSUME NEW S, prayer' = Without(S) PROVE prayer[o].live
  <2>1. prayer'[o] = [prayer[o] EXCEPT !.live = @ /\ o \notin S]
    BY <1>2 DEF Without
  <2>2. prayer'[o].live = (prayer[o].live /\ o \notin S)
    BY <1>a, <2>1 DEF PrayerState
  <2> QED
    BY <2>2
<1>3. ASSUME NEW q \in Obs, NEW reminded \in BOOLEAN, MarkReminded(q, reminded) PROVE prayer[o].live
  <2>1. prayer' = [prayer EXCEPT ![q] = [prayer[q] EXCEPT !.byHand = reminded]]
    BY <1>3 DEF MarkReminded
  <2>2. CASE q = o
    <3>1. prayer'[o] = [prayer[o] EXCEPT !.byHand = reminded]
      BY <1>a, <2>1, <2>2
    <3> QED
      BY <1>a, <3>1 DEF PrayerState
  <2>3. CASE q # o
    BY <1>a, <2>1, <2>3
  <2> QED
    BY <2>2, <2>3
<1>4. CASE InTheBook
  <2>1. ASSUME NEW r \in Record, Consent(r) PROVE prayer[o].live
    BY <1>1, <2>1 DEF Consent, TurnOn, TurnOff
  <2>2. ASSUME NEW r \in Record, NEW p \in Phone, ChangeNumber(r, p) \/ Register(r, p) PROVE prayer[o].live
    BY <1>1, <2>2 DEF ChangeNumber, Register
  <2>3. ASSUME NEW r \in Record, NEW b \in BOOLEAN, RemoveFromBook(r, b) PROVE prayer[o].live
    BY <1>1, <1>2, <2>3 DEF RemoveFromBook
  <2>4. ASSUME NEW r \in Record, NEW S \in SUBSET Obs, DeleteMemorial(r, S) PROVE prayer[o].live
    BY <1>2, <2>4 DEF DeleteMemorial
  <2>5. ASSUME NEW p \in Phone, RecordStop(p) PROVE prayer[o].live
    BY <1>1, <2>5 DEF RecordStop
  <2> QED
    BY <1>3, <1>4, <2>1, <2>2, <2>3, <2>4, <2>5 DEF InTheBook, BookNext, Upkeep
<1>5. ASSUME NEW w \in Worker, Work(w) PROVE UNCHANGED prayer
  BY <1>5 DEF Work, Planning, Sending, Settling, StartTick, WritePlan, PlanFails, OpenQueue, LeaveQueue,
              GiveUpLate, DropWithdrawn, MarkSending, PostMessage, ClosePass, SettleSent, SettleUnknown,
              SettleRefused, SettleRetry, SettleExhausted, SettleAccount, TripBreaker, bookVars
<1>6. (\E w \in Worker : Crash(w)) \/ (\E q \in Obs : GoStale(q)) \/ CutOff \/ AdminPause \/ AdminResume \/ UNCHANGED vars
      => UNCHANGED prayer
  BY DEF Crash, GoStale, CutOff, AdminPause, AdminResume, vars, bookVars
<1> QED
  BY <1>1, <1>4, <1>5, <1>6 DEF Next

\* So a step that tells so keeps what is told right.
LEMMA ToldKept ==
    ASSUME TypeOK, NEW o \in Obs, ToldRight(o), Tells(o), prayer'[o].live => prayer[o].live
    PROVE  ToldRight(o)'
<1>1. told[o] \in Nat
  BY DEF TypeOK, QueueTypeOK
<1>2. CASE UNCHANGED <<row[o], told[o]>>
  BY <1>2 DEF ToldRight
<1>3. CASE row[o].status # "failed" /\ row'[o].status # "failed" /\ told'[o] = told[o]
  BY <1>1, <1>3 DEF ToldRight
<1>4. CASE row[o].status # "failed" /\ row'[o].status = "failed" /\ row'[o].why = "withdrawn" /\ told'[o] = told[o]
  BY <1>1, <1>4 DEF ToldRight
<1>5. CASE /\ row[o].status # "failed" /\ row'[o].status = "failed"
           /\ told'[o] = IF prayer[o].live THEN told[o] + 1 ELSE told[o]
  BY <1>1, <1>5 DEF ToldRight
<1> QED
  BY <1>2, <1>3, <1>4, <1>5 DEF Tells

\* A plan tells the mobed of each row it gives up on.
LEMMA PlanTells == ASSUME TypeOK, NEW w \in Worker, WritePlan(w), NEW o \in Obs PROVE Tells(o)
<1> DEFINE fresh == Fresh(w)
           queued == QueuedUpTo(w)
           planned == {q \in fresh : q \in queued[q]}
           capped == {q \in fresh \ planned : ~Barred(w, q, queued[q - 1])}
           rows == {q \in Obs : row[q].status # "none"}
<1>1. told' = [q \in Obs |-> IF q \in fresh \ planned /\ prayer[q].live THEN told[q] + 1 ELSE told[q]]
  BY DEF WritePlan, TellMobeds
<1>2. CASE o \notin fresh
  <2>1. row'[o] = row[o]
    BY <1>2 DEF WritePlan
  <2> QED
    BY <1>1, <1>2, <2>1 DEF Tells
<1>3. CASE o \in fresh
  <2> DEFINE id == Cardinality(rows) + Cardinality({q \in fresh : q <= o})
             status == IF o \in planned THEN "pending" ELSE "failed"
             why == IF o \in planned THEN "" ELSE IF o \in capped THEN "capped" ELSE "barred"
  <2>1. row'[o] = NewRow(id, pass[w].offer[o], status, why)
    BY <1>3 DEF WritePlan
  <2>2. row[o].status = "none"
    BY <1>3 DEF Fresh
  <2>3. row'[o].status = status
    <3> HIDE DEF id, status, why
    <3> QED
      BY <2>1, NewRowFields
  <2>4. told'[o] = IF o \notin planned /\ prayer[o].live THEN told[o] + 1 ELSE told[o]
    BY <1>1, <1>3
  <2> HIDE DEF planned
  <2> QED
    BY <2>2, <2>3, <2>4 DEF Tells
<1> QED
  BY <1>2, <1>3

\* What becomes of a row that was in hand or in the queue, when it does not fail.
LEMMA StillGoing ==
    ASSUME TypeOK, NEW q \in Obs, row[q].status # "failed", NEW t, t.status # "failed",
           row' = [row EXCEPT ![q] = t], UNCHANGED told
    PROVE  \A o \in Obs : Tells(o)
BY DEF Tells, TypeOK, QueueTypeOK

\* And when it fails and the mobed is told.
LEMMA FailsOnce ==
    ASSUME TypeOK, NEW q \in Obs, row[q].status # "failed", NEW t, t.status = "failed",
           row' = [row EXCEPT ![q] = t], TellMobeds({q})
    PROVE  \A o \in Obs : Tells(o)
<1> TAKE o \in Obs
<1>1. row'[q] = t /\ (o # q => row'[o] = row[o])
  BY DEF TypeOK, QueueTypeOK
<1>2. told'[o] = IF o = q /\ prayer[o].live THEN told[o] + 1 ELSE told[o]
  BY DEF TellMobeds
<1> QED
  BY <1>1, <1>2 DEF Tells

\* Sending and settling tell the mobed of each row that fails, and withdraw one silently.
LEMMA SendingTells == ASSUME TypeOK, NEW w \in Worker, Sending(w) PROVE \A o \in Obs : Tells(o)
<1>a. \A o \in Obs : row[o] \in RowState
  BY DEF TypeOK, QueueTypeOK
<1>b. "" \in Reason /\ "late" \in Reason /\ "withdrawn" \in Reason
  BY DEF Reason
<1>c. UNCHANGED <<row, told>> => \A o \in Obs : Tells(o)
  BY DEF Tells
<1>1. CASE OpenQueue(w)
  <2> SUFFICES ASSUME NEW o \in Obs PROVE Tells(o)
    OBVIOUS
  <2>1. row'[o] = IF o \in Stuck THEN WrittenOff(row[o]) ELSE row[o]
    BY <1>1 DEF OpenQueue
  <2>2. told'[o] = IF o \in Stuck /\ prayer[o].live THEN told[o] + 1 ELSE told[o]
    BY <1>1 DEF OpenQueue, TellMobeds
  <2>3. o \in Stuck => row[o].status = "sending"
    BY DEF Stuck
  <2>4. WrittenOff(row[o]).status = "failed"
    BY <1>a, <1>b, RowFields
  <2> QED
    BY <2>1, <2>2, <2>3, <2>4 DEF Tells
<1>2. CASE LeaveQueue(w) \/ PostMessage(w) \/ ClosePass(w)
  BY <1>2, <1>c DEF LeaveQueue, PostMessage, ClosePass, rowVars
<1>3. ASSUME NEW o \in Obs, Head(o) PROVE row[o].status = "pending"
  BY <1>3 DEF Head, Pending
<1>4. ASSUME NEW o \in Obs, GiveUpLate(w, o) PROVE \A q \in Obs : Tells(q)
  <2>1. Failed(row[o], "late").status = "failed"
    BY <1>a, <1>b, RowFields
  <2> QED
    BY <1>3, <1>4, <2>1, FailsOnce DEF GiveUpLate
<1>5. ASSUME NEW o \in Obs, DropWithdrawn(w, o) PROVE \A q \in Obs : Tells(q)
  <2>1. Failed(row[o], "withdrawn").status = "failed" /\ Failed(row[o], "withdrawn").why = "withdrawn"
    BY <1>a, <1>b, RowFields
  <2>2. row'[o] = Failed(row[o], "withdrawn") /\ \A q \in Obs \ {o} : row'[q] = row[q]
    BY <1>5 DEF DropWithdrawn, TypeOK, QueueTypeOK
  <2> QED
    BY <1>3, <1>5, <2>1, <2>2 DEF DropWithdrawn, Tells
<1>6. ASSUME NEW o \in Obs, MarkSending(w, o) PROVE \A q \in Obs : Tells(q)
  <2>1. Marked(row[o]).status = "sending"
    BY <1>a, <1>b, RowFields
  <2> QED
    BY <1>3, <1>6, <2>1, StillGoing DEF MarkSending
<1> QED
  BY <1>1, <1>2, <1>4, <1>5, <1>6 DEF Sending

\* So does settling, for the row in hand.
LEMMA SettlingTells ==
    ASSUME TypeOK, Custody, NEW w \in Worker, Settling(w) PROVE \A o \in Obs : Tells(o)
<1> DEFINE n == row[hand[w]]
<1>b. "" \in Reason /\ "unknown" \in Reason /\ "refused" \in Reason
  BY DEF Reason
<1>c. ASSUME pc[w] = "settle" PROVE hand[w] \in Obs /\ n \in RowState /\ n.status # "failed"
  <2>1. hand[w] \in Obs /\ hand[w] # None
    BY <1>c, Hands, QueueAssumption
  <2> QED
    BY <2>1 DEF Custody, TypeOK, QueueTypeOK
<1>d. ASSUME pc[w] = "settle", NEW t, row' = [row EXCEPT ![hand[w]] = t], t.status = "failed", TellMobeds({hand[w]})
      PROVE  \A o \in Obs : Tells(o)
  BY <1>c, <1>d, FailsOnce
<1>e. ASSUME pc[w] = "settle", NEW t, row' = [row EXCEPT ![hand[w]] = t], t.status # "failed", UNCHANGED told
      PROVE  \A o \in Obs : Tells(o)
  BY <1>c, <1>e, StillGoing
<1> HIDE DEF n
<1>1. ASSUME NEW m \in RowState
      PROVE  /\ Sent(m).status # "failed"
             /\ Requeued(m).status # "failed"
             /\ Failed(m, "unknown").status = "failed"
             /\ Failed(m, "refused").status = "failed"
             /\ Tried(m) \in RowState
  BY <1>b, RowFields, RowShapes, ZenonT(60)
<1>2. CASE SettleSent(w)
  <2>1. pc[w] = "settle" /\ row' = [row EXCEPT ![hand[w]] = Sent(n)] /\ UNCHANGED told
    BY <1>2 DEF SettleSent, n
  <2> QED
    BY <1>1, <1>c, <1>e, <2>1
<1>3. CASE SettleUnknown(w)
  <2>1. pc[w] = "settle" /\ row' = [row EXCEPT ![hand[w]] = Failed(n, "unknown")] /\ TellMobeds({hand[w]})
    BY <1>3 DEF SettleUnknown, n
  <2> QED
    BY <1>1, <1>c, <1>d, <2>1
<1>4. CASE SettleRefused(w)
  <2>1. pc[w] = "settle" /\ row' = [row EXCEPT ![hand[w]] = Failed(n, "refused")] /\ TellMobeds({hand[w]})
    BY <1>4 DEF SettleRefused, n
  <2> QED
    BY <1>1, <1>c, <1>d, <2>1
<1>5. CASE SettleRetry(w)
  <2>1. pc[w] = "settle" /\ row' = [row EXCEPT ![hand[w]] = Requeued(Tried(n))] /\ UNCHANGED told
    BY <1>5 DEF SettleRetry, n
  <2> QED
    BY <1>1, <1>c, <1>e, <2>1
<1>6. CASE SettleExhausted(w)
  <2>1. pc[w] = "settle" /\ row' = [row EXCEPT ![hand[w]] = Failed(Tried(n), "refused")] /\ TellMobeds({hand[w]})
    BY <1>6 DEF SettleExhausted, n
  <2> QED
    BY <1>1, <1>c, <1>d, <2>1
<1>7. CASE SettleAccount(w)
  <2>1. pc[w] = "settle" /\ row' = [row EXCEPT ![hand[w]] = Requeued(n)] /\ UNCHANGED told
    BY <1>7 DEF SettleAccount, n
  <2> QED
    BY <1>1, <1>c, <1>e, <2>1
<1>8. CASE TripBreaker(w)
  BY <1>8 DEF TripBreaker, rowVars, Tells
<1> QED
  BY <1>2, <1>3, <1>4, <1>5, <1>6, <1>7, <1>8 DEF Settling

\* Every step of the evening tells so.
LEMMA StepTells == ASSUME TypeOK, Custody, [Next]_vars PROVE \A o \in Obs : Tells(o)
<1>a. UNCHANGED <<row, told>> => \A o \in Obs : Tells(o)
  BY DEF Tells
<1>1. ASSUME NEW w \in Worker, Work(w) PROVE \A o \in Obs : Tells(o)
  <2>1. CASE StartTick(w) \/ PlanFails(w)
    BY <1>a, <2>1 DEF StartTick, PlanFails, rowVars
  <2>2. CASE WritePlan(w)
    BY <2>2, PlanTells
  <2> QED
    BY <1>1, <2>1, <2>2, SendingTells, SettlingTells DEF Work, Planning
<1>2. ASSUME NEW o \in Obs, GoStale(o) PROVE \A q \in Obs : Tells(q)
  <2>1. row[o] \in RowState /\ row[o].status = "sending"
    BY <1>2 DEF GoStale, TypeOK, QueueTypeOK
  <2>2. row' = [row EXCEPT ![o] = [row[o] EXCEPT !.stale = TRUE]] /\ [row[o] EXCEPT !.stale = TRUE].status = "sending"
    BY <1>2, <2>1 DEF GoStale, RowState
  <2> QED
    BY <1>2, <2>1, <2>2, StillGoing DEF GoStale
<1>3. (\E w \in Worker : Crash(w)) \/ CutOff \/ AdminPause \/ AdminResume \/ InTheBook \/ UNCHANGED vars
      => UNCHANGED <<row, told>>
  BY DEF Crash, CutOff, AdminPause, AdminResume, InTheBook, vars, queueVars, rowVars
<1> QED
  BY <1>1, <1>2, <1>3, <1>a DEF Next

\* A reminder that will not go is told of exactly once, whichever of planning,
\* sending and sweeping gave up on it, and whatever crashed in between.
THEOREM MobedToldOnceAlways == Spec => []MobedToldOnce
<1> DEFINE Inv == BookOK /\ TypeOK /\ Ledger /\ MobedToldOnce
<1>1. Init => Inv
  <2>1. Init => MobedToldOnce
    <3> SUFFICES ASSUME Init, NEW o \in Obs PROVE told[o] = 0 /\ row[o].status = "none"
      BY DEF MobedToldOnce
    <3> QED
      BY DEF Init, NoRow
  <2> QED
    BY <2>1, TypeInit, LedgerInit
<1>2. Inv /\ [Next]_vars => Inv'
  <2> SUFFICES ASSUME BookOK, TypeOK, Ledger, MobedToldOnce, [Next]_vars
               PROVE  BookOK' /\ TypeOK' /\ Ledger' /\ MobedToldOnce'
    OBVIOUS
  <2>1. BookOK' /\ TypeOK' /\ Ledger'
    BY TypeStep, LedgerStep
  <2>2. \A o \in Obs : ToldRight(o)'
    <3> TAKE o \in Obs
    <3>1. ToldRight(o) /\ Tells(o)
      BY StepTells DEF MobedToldOnce, ToldRight, Ledger
    <3>2. prayer'[o].live => prayer[o].live
      BY NoneRevived DEF BookOK
    <3> QED
      BY <3>1, <3>2, ToldKept
  <2> QED
    BY <2>1, <2>2 DEF MobedToldOnce, ToldRight
<1> QED
  BY <1>1, <1>2, PTL DEF Spec

-----------------------------------------------------------------------------
(***************************************************************************)
(* What is handed over to WhatsApp.                                        *)
(***************************************************************************)

\* A row comes into a worker's hands only by being marked.
LEMMA OnlyMarked ==
    ASSUME TypeOK, [Next]_vars, NEW w \in Worker, NEW o \in Obs, Handover(w, o)
    PROVE  MarkSending(w, o)
<1>a. hand \in [Worker -> Obs \cup {None}] /\ None \notin Obs
  BY QueueAssumption DEF TypeOK, QueueTypeOK
<1>1. ~(UNCHANGED hand)
  BY <1>a DEF Handover
<1>2. ASSUME NEW v \in Worker, LetGo(v) PROVE FALSE
  BY <1>a, <1>2 DEF LetGo, Handover
<1>3. ASSUME NEW v \in Worker, NEW q \in Obs, MarkSending(v, q) PROVE v = w /\ q = o
  BY <1>a, <1>3 DEF MarkSending, Handover
<1>4. ASSUME NEW v \in Worker, Planning(v) PROVE FALSE
  BY <1>1, <1>4 DEF Planning, StartTick, WritePlan, PlanFails
<1>5. ASSUME NEW v \in Worker, Settling(v) PROVE FALSE
  BY <1>1, <1>2, <1>5 DEF Settling, SettleSent, SettleUnknown, SettleRefused, SettleRetry, SettleExhausted,
                          SettleAccount, TripBreaker
<1>6. ASSUME NEW v \in Worker, Sending(v) PROVE \E q \in Obs : MarkSending(v, q)
  BY <1>1, <1>6 DEF Sending, OpenQueue, LeaveQueue, GiveUpLate, DropWithdrawn, PostMessage, ClosePass, workVars
<1>7. ASSUME NEW v \in Worker, Crash(v) PROVE FALSE
  BY <1>2, <1>7 DEF Crash
<1>8. ~((\E q \in Obs : GoStale(q)) \/ CutOff \/ AdminPause \/ AdminResume \/ InTheBook \/ UNCHANGED vars)
  BY <1>1 DEF GoStale, CutOff, AdminPause, AdminResume, InTheBook, vars, queueVars, workVars
<1> QED
  BY <1>3, <1>4, <1>5, <1>6, <1>7, <1>8 DEF Next, Work

\* A STOP wins until the moment a reminder is marked, for any number of workers
\* and of mobeds who keep the number (record_stop against send_pending).
THEOREM StopWinsAlways == Spec => StopWins
<1> DEFINE Obeyed == \A w \in Worker, o \in Obs :
                        Handover(w, o) /\ row[o].phone \in optOut
                        => RecordOf[o] \in lifted \/ record[RecordOf[o]].phone # row[o].phone
<1>1. BookOK /\ TypeOK /\ [Next]_vars => Obeyed
  <2> SUFFICES ASSUME BookOK, TypeOK, [Next]_vars, NEW w \in Worker, NEW o \in Obs, Handover(w, o),
                      row[o].phone \in optOut, record[RecordOf[o]].phone = row[o].phone
               PROVE  RecordOf[o] \in lifted
    OBVIOUS
  <2>1. RecordOf[o] \in Record
    BY BookAssumption
  <2>2. Agreed(RecordOf[o])
    BY OnlyMarked DEF MarkSending, Withdrawn
  <2> QED
    BY <2>1, <2>2 DEF Agreed, BookOK, StopHolds, OnFile
<1>2. BookOK /\ TypeOK /\ [Next]_vars => (BookOK /\ TypeOK)'
  BY TypeStep
<1> QED
  BY <1>1, <1>2, TypeInit, PTL DEF Spec, StopWins

-----------------------------------------------------------------------------
(***************************************************************************)
(* One worker keeps within the caps, and heeds the pause it made itself.  Two *)
(* workers would each plan from a read of their own, and read the switch on *)
(* their own: neither property is promised of them.                        *)
(***************************************************************************)

\* One process runs the loop: the deployment's, outside the overlap of two deploys.
OneWorker == \A v, w \in Worker : v = w

-----------------------------------------------------------------------------
(***************************************************************************)
(* The pause.                                                              *)
(***************************************************************************)

\* A pass that began unpaused, and has not paused itself, runs unpaused or beside
\* an admin's pause.
PassKnowsPause ==
    \A w \in Worker : pc[w] \in {"send", "post", "settle", "trip"} /\ ~pass[w].paused
                      => paused \notin {"breaker", "account"}

\* No other worker can pause behind its back.
LEMMA PassKnowsPauseStep ==
    ASSUME OneWorker, TypeOK, PassKnowsPause, [Next]_vars PROVE PassKnowsPause'
<1>a. pc \in [Worker -> Place] /\ pass \in [Worker -> PassState]
  BY DEF TypeOK, QueueTypeOK
<1> DEFINE Going == {"send", "post", "settle", "trip"}
<1>1. ASSUME NEW w \in Worker, pc'[w] \notin Going PROVE PassKnowsPause'
  BY <1>1 DEF OneWorker, PassKnowsPause
<1>2. ASSUME NEW w \in Worker, pc[w] \in Going, pass'[w].paused = pass[w].paused, UNCHANGED paused
      PROVE  PassKnowsPause'
  BY <1>2 DEF OneWorker, PassKnowsPause
<1>3. ASSUME UNCHANGED <<pc, pass>>, paused' \in {paused, "", "admin"} PROVE PassKnowsPause'
  BY <1>3 DEF PassKnowsPause
<1>4. ASSUME NEW w \in Worker, NEW place, place \notin Going, Goto(w, place) PROVE PassKnowsPause'
  BY <1>a, <1>1, <1>4 DEF Goto
<1>5. ASSUME NEW w \in Worker, pc[w] \in Going, UNCHANGED <<pass, paused>> PROVE PassKnowsPause'
  BY <1>2, <1>5
<1>6. ASSUME NEW w \in Worker, NEW n, CountFailure(w, n), pc[w] \in Going, UNCHANGED paused
      PROVE  PassKnowsPause'
  <2>1. pass'[w] = [pass[w] EXCEPT !.streak = @ + n]
    BY <1>a, <1>6 DEF CountFailure
  <2>2. pass'[w].paused = pass[w].paused
    BY <1>a, <2>1 DEF PassState
  <2> QED
    BY <1>2, <1>6, <2>2
<1>7. ASSUME NEW w \in Worker, Planning(w) PROVE PassKnowsPause'
  BY <1>4, <1>7 DEF Planning, StartTick, WritePlan, PlanFails
<1>8. ASSUME NEW w \in Worker, OpenQueue(w) PROVE PassKnowsPause'
  <2>1. pass'[w].paused = (paused # "") /\ paused' = paused
    BY <1>8, <1>a DEF OpenQueue, switchVars, PassState
  <2> QED
    BY <2>1 DEF OneWorker, PassKnowsPause
<1>9. ASSUME NEW w \in Worker, Sending(w) PROVE PassKnowsPause'
  <2>1. ASSUME NEW o \in Obs, GiveUpLate(w, o) \/ DropWithdrawn(w, o) PROVE PassKnowsPause'
    BY <1>3, <2>1 DEF GiveUpLate, DropWithdrawn, workVars, switchVars
  <2>2. ASSUME NEW o \in Obs, MarkSending(w, o) PROVE PassKnowsPause'
    BY <1>5, <2>2 DEF MarkSending, switchVars
  <2>3. CASE PostMessage(w)
    BY <1>5, <2>3 DEF PostMessage, switchVars
  <2>4. CASE LeaveQueue(w) \/ ClosePass(w)
    BY <1>4, <2>4 DEF LeaveQueue, ClosePass
  <2> QED
    BY <1>8, <1>9, <2>1, <2>2, <2>3, <2>4 DEF Sending
<1>10. ASSUME NEW w \in Worker, Settling(w) PROVE PassKnowsPause'
  <2>1. CASE SettleSent(w)
    <3>1. pass'[w].paused = pass[w].paused
      BY <1>a, <2>1 DEF SettleSent, PassState
    <3> QED
      BY <1>2, <2>1, <3>1 DEF SettleSent, switchVars
  <2>2. CASE SettleUnknown(w) \/ SettleRefused(w) \/ SettleExhausted(w)
    BY <1>6, <2>2 DEF SettleUnknown, SettleRefused, SettleExhausted, switchVars
  <2>3. CASE SettleRetry(w) \/ SettleAccount(w) \/ TripBreaker(w)
    BY <1>4, <2>3 DEF SettleRetry, SettleAccount, TripBreaker
  <2> QED
    BY <1>10, <2>1, <2>2, <2>3 DEF Settling
<1>11. ASSUME NEW w \in Worker, Crash(w) PROVE PassKnowsPause'
  BY <1>4, <1>11 DEF Crash
<1>12. (\E o \in Obs : GoStale(o)) \/ CutOff \/ AdminPause \/ AdminResume \/ InTheBook \/ UNCHANGED vars
       => UNCHANGED <<pc, pass>> /\ paused' \in {paused, "", "admin"}
  BY DEF GoStale, CutOff, AdminPause, AdminResume, InTheBook, Pause, vars, queueVars, workVars, switchVars
<1> QED
  BY <1>3, <1>7, <1>9, <1>10, <1>11, <1>12 DEF Next, Work

\* Once the loop has paused itself nothing is handed over until an admin resumes
\* (guardrails.pause against send_pending's one read of the switch), for one worker.
THEOREM BreakerAlwaysHolds == ASSUME OneWorker PROVE Spec => BreakerHolds
<1> DEFINE Heeded == \A w \in Worker, o \in Obs : Handover(w, o) => paused \notin {"breaker", "account"}
           Inv == BookOK /\ TypeOK /\ PassKnowsPause
<1>1. Inv /\ [Next]_vars => Heeded
  BY OnlyMarked DEF MarkSending, PassKnowsPause
<1>2. Init => Inv
  <2>1. Init => PassKnowsPause
    BY DEF Init, PassKnowsPause
  <2> QED
    BY <2>1, TypeInit
<1>3. Inv /\ [Next]_vars => Inv'
  BY TypeStep, PassKnowsPauseStep
<1> QED
  BY <1>1, <1>2, <1>3, PTL DEF Spec, BreakerHolds

-----------------------------------------------------------------------------
(***************************************************************************)
(* Counting.  Recursion up to a number is reasoned about by counting up to *)
(* it.                                                                     *)
(***************************************************************************)

\* With one more element a set has at most one more.
LEMMA OneMoreOf ==
    ASSUME NEW S, NEW x, IsFiniteSet(S), NEW n \in Nat, Cardinality(S) < n
    PROVE  Cardinality(S \cup {x}) <= n
<1>1. Cardinality(S) \in Nat
  BY FS_CardinalityType
<1>2. Cardinality(S \cup {x}) = IF x \in S THEN Cardinality(S) ELSE Cardinality(S) + 1
  BY FS_AddElement
<1> DEFINE c == Cardinality(S)
<1> HIDE DEF c
<1>3. c \in Nat /\ c < n /\ Cardinality(S \cup {x}) \in {c, c + 1}
  BY <1>1, <1>2 DEF c
<1> QED
  BY <1>3

-----------------------------------------------------------------------------
(***************************************************************************)
(* The plan: what is queued, one observance after another.                 *)
(***************************************************************************)

\* What the planner makes of observance i, with those in S queued before it.
Added(w, i, S) == IF i \in Fresh(w) /\ ~Barred(w, i, S) /\ ~Capped(w, i, S) THEN S \cup {i} ELSE S

\* g is what has been queued by each number up to n.
Queued(w, g, n) == g = [i \in 0 .. n |-> IF i = 0 THEN {} ELSE Added(w, i, g[i - 1])]

\* There is such a g: the planner gets through the list.
LEMMA QueuedExists == ASSUME NEW w \in Worker, NEW N \in Nat PROVE \E g : Queued(w, g, N)
<1> DEFINE T == {n \in 0 .. N : \E g : Queued(w, g, n)}
<1>1. 0 \in T
  <2>1. Queued(w, [i \in 0 .. 0 |-> {}], 0)
    BY DEF Queued
  <2> QED
    BY <2>1
<1>2. ASSUME NEW n \in 0 .. N, n # 0, n - 1 \in T PROVE n \in T
  <2>1. PICK g : Queued(w, g, n - 1)
    BY <1>2
  <2> DEFINE h == [i \in 0 .. n |-> IF i = n THEN Added(w, n, g[n - 1]) ELSE g[i]]
  <2>2. ASSUME NEW i \in 0 .. n PROVE h[i] = IF i = 0 THEN {} ELSE Added(w, i, h[i - 1])
    <3>1. CASE i = n
      <4>1. h[n - 1] = g[n - 1] /\ h[n] = Added(w, n, g[n - 1])
        BY <1>2
      <4> HIDE DEF h
      <4> QED
        BY <1>2, <3>1, <4>1
    <3>2. CASE i # n
      <4>1. i \in 0 .. n - 1 /\ (i # 0 => i - 1 \in 0 .. n /\ i - 1 # n)
        BY <1>2, <3>2
      <4>2. g[i] = IF i = 0 THEN {} ELSE Added(w, i, g[i - 1])
        BY <2>1, <4>1 DEF Queued
      <4>3. h[i] = g[i] /\ (i # 0 => h[i - 1] = g[i - 1])
        BY <3>2, <4>1
      <4> HIDE DEF h
      <4> QED
        BY <4>2, <4>3
    <3> QED
      BY <3>1, <3>2
  <2>3. h = [i \in 0 .. n |-> h[i]]
    OBVIOUS
  <2>4. Queued(w, h, n)
    <3> HIDE DEF h
    <3> QED
      BY <2>2, <2>3 DEF Queued
  <2> QED
    BY <1>2, <2>4
<1>3. \A n \in 0 .. N : n \in T
  <2> HIDE DEF T
  <2> QED
    BY <1>1, <1>2, CountingUp
<1> QED
  BY <1>3

\* And QueuedUpTo is it.
LEMMA QueuedUpToIsIt == ASSUME NEW w \in Worker PROVE Queued(w, QueuedUpTo(w), LastObs)
<1>1. \E g : Queued(w, g, LastObs)
  BY QueuedExists, BookAssumption
<1>2. QueuedUpTo(w) = CHOOSE g : Queued(w, g, LastObs)
  BY DEF QueuedUpTo, Queued, Added
<1> QED
  BY <1>1, <1>2

\* The observances of the mobed of record r.
Mobeds(r) == {o \in Obs : Owner[RecordOf[o]] = Owner[r]}

\* The queue S of a pass stays within the caps, beside what the pass has read.
QueueWithinCaps(w, S) ==
    /\ S \subseteq Fresh(w)
    /\ S # {} => Cardinality(pass[w].counted \cup S) <= DailyCap
    /\ \A r \in Record : S \cap Mobeds(r) # {} => Cardinality((pass[w].owned \cup S) \cap Mobeds(r)) <= MobedCap
    /\ \A q \in S, c \in pass[w].counted : row[c].phone # pass[w].offer[q]
    /\ \A p, q \in S : pass[w].offer[p] = pass[w].offer[q] => p = q

\* Adding the next observance, if the planner does, keeps it so.
LEMMA AddedWithinCaps ==
    ASSUME TypeOK, NEW w \in Worker, NEW i \in Obs, NEW S, QueueWithinCaps(w, S)
    PROVE  QueueWithinCaps(w, Added(w, i, S))
<1> SUFFICES ASSUME i \in Fresh(w), ~Barred(w, i, S), ~Capped(w, i, S) PROVE QueueWithinCaps(w, S \cup {i})
  BY DEF Added
<1> DEFINE counted == pass[w].counted
           owned == pass[w].owned
<1>a. S \subseteq Obs /\ S \subseteq Fresh(w)
  BY DEF QueueWithinCaps, Fresh
<1>b. counted \in SUBSET Obs /\ owned \in SUBSET Obs
  BY DEF TypeOK, QueueTypeOK, PassState
<1> HIDE DEF counted, owned
<1>1. Cardinality(counted \cup (S \cup {i})) <= DailyCap
  <2>1. ~(Cardinality(counted \cup S) >= DailyCap)
    BY DEF Capped, counted
  <2>2. IsFiniteSet(counted \cup S) /\ Cardinality(counted \cup S) \in Nat
    BY <1>a, <1>b, ObsCount
  <2>3. Cardinality(counted \cup S) < DailyCap
    BY <2>1, <2>2, QueueAssumption
  <2>4. counted \cup (S \cup {i}) = (counted \cup S) \cup {i}
    OBVIOUS
  <2> QED
    BY <2>2, <2>3, <2>4, OneMoreOf, QueueAssumption
<1>2. ASSUME NEW r \in Record, (S \cup {i}) \cap Mobeds(r) # {}
      PROVE  Cardinality((owned \cup (S \cup {i})) \cap Mobeds(r)) <= MobedCap
  <2>1. CASE i \notin Mobeds(r)
    <3>1. (owned \cup (S \cup {i})) \cap Mobeds(r) = (owned \cup S) \cap Mobeds(r) /\ S \cap Mobeds(r) # {}
      BY <1>2, <2>1
    <3> QED
      BY <3>1 DEF QueueWithinCaps, owned
  <2>2. CASE i \in Mobeds(r)
    <3> DEFINE before == (owned \cup S) \cap Mobeds(r)
    <3>1. before = {q \in owned \cup S : Owner[RecordOf[q]] = Owner[RecordOf[i]]}
      BY <1>a, <1>b, <2>2 DEF Mobeds
    <3>2. ~(Cardinality(before) >= MobedCap)
      BY <3>1 DEF Capped, owned
    <3>3. IsFiniteSet(before) /\ Cardinality(before) \in Nat
      BY <1>a, <1>b, ObsCount
    <3>4. (owned \cup (S \cup {i})) \cap Mobeds(r) = before \cup {i}
      BY <2>2
    <3> HIDE DEF before
    <3>5. Cardinality(before) < MobedCap
      BY <3>2, <3>3, QueueAssumption
    <3> QED
      BY <3>3, <3>4, <3>5, OneMoreOf, QueueAssumption
  <2> QED
    BY <2>1, <2>2
<1>3. \A q \in S \cup {i}, c \in counted : row[c].phone # pass[w].offer[q]
  BY DEF QueueWithinCaps, Barred, counted
<1>4. \A p, q \in S \cup {i} : pass[w].offer[p] = pass[w].offer[q] => p = q
  BY DEF QueueWithinCaps, Barred
<1> QED
  BY <1>a, <1>1, <1>2, <1>3, <1>4 DEF QueueWithinCaps, counted, owned

\* So the whole plan is within the caps, and what is queued stays queued.
LEMMA PlanWithinCaps ==
    ASSUME TypeOK, NEW w \in Worker
    PROVE  \A n \in 0 .. LastObs :
             /\ QueueWithinCaps(w, QueuedUpTo(w)[n])
             /\ \A k \in 0 .. n : QueuedUpTo(w)[k] \subseteq QueuedUpTo(w)[n]
<1> DEFINE g == QueuedUpTo(w)
<1> HIDE DEF g
<1> DEFINE T == {n \in 0 .. LastObs : /\ QueueWithinCaps(w, g[n])
                                      /\ \A k \in 0 .. n : g[k] \subseteq g[n]}
<1>a. LastObs \in Nat
  BY BookAssumption
<1>b. g = [i \in 0 .. LastObs |-> IF i = 0 THEN {} ELSE Added(w, i, g[i - 1])]
  BY QueuedUpToIsIt DEF Queued, g
<1>c. /\ g[0] = {}
      /\ \A n \in 0 .. LastObs : n # 0 => g[n] = Added(w, n, g[n - 1])
  <2>1. \A n \in 0 .. LastObs : g[n] = IF n = 0 THEN {} ELSE Added(w, n, g[n - 1])
    BY <1>b
  <2> QED
    BY <1>a, <2>1
<1>1. 0 \in T
  <2>1. QueueWithinCaps(w, {})
    BY DEF QueueWithinCaps
  <2> QED
    BY <1>a, <1>c, <2>1
<1>2. ASSUME NEW n \in 0 .. LastObs, n # 0, n - 1 \in T PROVE n \in T
  <2>1. n \in Obs /\ g[n] = Added(w, n, g[n - 1])
    BY <1>2, <1>c DEF Obs
  <2>2. QueueWithinCaps(w, g[n])
    BY <1>2, <2>1, AddedWithinCaps
  <2>3. g[n - 1] \subseteq g[n]
    BY <2>1 DEF Added
  <2>4. \A k \in 0 .. n : k = n \/ k \in 0 .. n - 1
    BY <1>2
  <2>5. \A k \in 0 .. n : g[k] \subseteq g[n]
    BY <1>2, <2>3, <2>4
  <2> QED
    BY <2>2, <2>5
<1>3. \A n \in 0 .. LastObs : n \in T
  <2> HIDE DEF T
  <2> QED
    BY <1>a, <1>1, <1>2, CountingUp
<1> QED
  BY <1>3 DEF g

-----------------------------------------------------------------------------
(***************************************************************************)
(* What counts afterwards.                                                 *)
(***************************************************************************)

\* What is done to a row leaves its number.
LEMMA RowPhones ==
    ASSUME NEW n \in RowState, NEW why \in Reason
    PROVE  /\ Marked(n).phone = n.phone /\ Sent(n).phone = n.phone /\ Requeued(n).phone = n.phone
           /\ Tried(n).phone = n.phone /\ Failed(n, why).phone = n.phone /\ WrittenOff(n).phone = n.phone
           /\ [n EXCEPT !.stale = TRUE].phone = n.phone
<1>1. Marked(n).phone = n.phone /\ Sent(n).phone = n.phone
  BY DEF RowState, Marked, Sent
<1>2. Requeued(n).phone = n.phone /\ Tried(n).phone = n.phone
  BY DEF RowState, Requeued, Tried
<1>3. Failed(n, why).phone = n.phone
  BY DEF RowState, Failed
<1>4. WrittenOff(n).phone = n.phone
  BY DEF RowState, WrittenOff
<1>5. [n EXCEPT !.stale = TRUE].phone = n.phone
  BY DEF RowState
<1> QED
  BY <1>1, <1>2, <1>3, <1>4, <1>5

\* After the plan only the rows that are not yet settled change, and each keeps its number.
Treats(o) ==
    \/ row'[o] = row[o]
    \/ row[o].status \in {"pending", "sending"} /\ row'[o].phone = row[o].phone

\* One row written, its number kept.
LEMMA RowTreated ==
    ASSUME TypeOK, NEW q \in Obs, row[q].status \in {"pending", "sending"},
           NEW t, t.phone = row[q].phone, row' = [row EXCEPT ![q] = t]
    PROVE  \A o \in Obs : Treats(o)
BY DEF Treats, TypeOK, QueueTypeOK

\* Every step but a plan treats the rows so.
LEMMA StepTreats ==
    ASSUME TypeOK, Custody, [Next]_vars, \A w \in Worker : ~WritePlan(w)
    PROVE  \A o \in Obs : Treats(o)
<1>a. row \in [Obs -> RowState]
  BY DEF TypeOK, QueueTypeOK
<1>b. \A why \in {"late", "withdrawn", "unknown", "refused"} : why \in Reason
  BY DEF Reason
<1>c. UNCHANGED row => \A o \in Obs : Treats(o)
  BY DEF Treats
<1>1. ASSUME NEW w \in Worker, Planning(w) PROVE \A o \in Obs : Treats(o)
  BY <1>1, <1>c DEF Planning, StartTick, PlanFails, rowVars
<1>2. ASSUME NEW w \in Worker, Sending(w) PROVE \A o \in Obs : Treats(o)
  <2>1. CASE OpenQueue(w)
    <3>1. \A n \in RowState : WrittenOff(n).phone = n.phone
      BY <1>b, RowPhones
    <3>2. \A o \in Obs : row'[o] = row[o] \/ (o \in Stuck /\ row'[o] = WrittenOff(row[o]))
      BY <2>1 DEF OpenQueue
    <3> QED
      BY <1>a, <3>1, <3>2 DEF Stuck, Treats
  <2>2. CASE LeaveQueue(w) \/ PostMessage(w) \/ ClosePass(w)
    BY <1>c, <2>2 DEF LeaveQueue, PostMessage, ClosePass, rowVars
  <2>3. ASSUME NEW o \in Obs, GiveUpLate(w, o) \/ DropWithdrawn(w, o) \/ MarkSending(w, o)
        PROVE  \A q \in Obs : Treats(q)
    <3>1. row[o] \in RowState /\ row[o].status = "pending"
      BY <1>a, <2>3 DEF GiveUpLate, DropWithdrawn, MarkSending, Head, Pending
    <3>2. PICK t \in {Failed(row[o], "late"), Failed(row[o], "withdrawn"), Marked(row[o])} : row' = [row EXCEPT ![o] = t]
      BY <2>3 DEF GiveUpLate, DropWithdrawn, MarkSending
    <3>3. t.phone = row[o].phone
      BY <1>b, <3>1, <3>2, RowPhones
    <3> QED
      BY <3>1, <3>2, <3>3, RowTreated
  <2> QED
    BY <1>2, <2>1, <2>2, <2>3 DEF Sending
<1>3. ASSUME NEW w \in Worker, Settling(w) PROVE \A o \in Obs : Treats(o)
  <2>1. CASE TripBreaker(w)
    BY <1>c, <2>1 DEF TripBreaker, rowVars
  <2>2. CASE pc[w] = "settle"
    <3> DEFINE n == row[hand[w]]
    <3>1. hand[w] \in Obs /\ n \in RowState /\ n.status = "sending"
      <4>1. hand[w] \in Obs /\ hand[w] # None
        BY <2>2, Hands, QueueAssumption
      <4> QED
        BY <1>a, <4>1 DEF Custody
    <3>2. Tried(n) \in RowState
      BY <1>b, <3>1, RowShapes
    <3>3. UNCHANGED row \/ \E t \in {Sent(n), Failed(n, "unknown"), Failed(n, "refused"), Requeued(Tried(n)),
                                     Failed(Tried(n), "refused"), Requeued(n)} : row' = [row EXCEPT ![hand[w]] = t]
      BY <1>3 DEF Settling, SettleSent, SettleUnknown, SettleRefused, SettleRetry, SettleExhausted, SettleAccount,
                  TripBreaker, rowVars
    <3>4. \A t \in {Sent(n), Failed(n, "unknown"), Failed(n, "refused"), Requeued(Tried(n)),
                    Failed(Tried(n), "refused"), Requeued(n)} : t.phone = n.phone
      <4> HIDE DEF n
      <4>1. \A m \in RowState : /\ Sent(m).phone = m.phone /\ Requeued(m).phone = m.phone /\ Tried(m).phone = m.phone
                                /\ Failed(m, "unknown").phone = m.phone /\ Failed(m, "refused").phone = m.phone
        BY <1>b, RowPhones
      <4> QED
        BY <3>1, <3>2, <4>1
    <3> QED
      BY <1>c, <3>1, <3>3, <3>4, RowTreated
  <2> QED
    BY <1>3, <2>1, <2>2 DEF Settling, SettleSent, SettleUnknown, SettleRefused, SettleRetry, SettleExhausted,
                            SettleAccount
<1>4. ASSUME NEW o \in Obs, GoStale(o) PROVE \A q \in Obs : Treats(q)
  <2>1. row' = [row EXCEPT ![o] = [row[o] EXCEPT !.stale = TRUE]] /\ row[o].status = "sending"
    BY <1>4 DEF GoStale
  <2>2. [row[o] EXCEPT !.stale = TRUE].phone = row[o].phone
    BY <1>a, <1>b, RowPhones
  <2> QED
    BY <2>1, <2>2, RowTreated
<1>5. (\E w \in Worker : Crash(w)) \/ CutOff \/ AdminPause \/ AdminResume \/ InTheBook \/ UNCHANGED vars
      => UNCHANGED row
  BY DEF Crash, CutOff, AdminPause, AdminResume, InTheBook, vars, queueVars, rowVars
<1> QED
  BY <1>1, <1>2, <1>3, <1>4, <1>5, <1>c DEF Next, Work

\* So nothing but a plan adds to the reminders that count.
LEMMA CountedShrinks ==
    ASSUME BookTypeOK, TypeOK, Custody, [Next]_vars, \A w \in Worker : ~WritePlan(w)
    PROVE  /\ Counted' \subseteq Counted /\ Owned' \subseteq Owned
           /\ \A o \in Counted' : row'[o].phone = row[o].phone
<1>1. \A o \in Obs : Treats(o)
  BY StepTreats
<1>2. Counted' \subseteq Counted /\ \A o \in Counted' : row'[o].phone = row[o].phone
  BY <1>1 DEF Counted, Treats
<1>3. Owned' \subseteq Owned
  <2> SUFFICES ASSUME NEW o \in Owned' PROVE o \in Owned
    OBVIOUS
  <2>1. o \in Obs /\ o \in Counted' /\ prayer'[o].live
    BY DEF Owned, Counted
  <2> QED
    BY <1>2, <2>1, NoneRevived DEF Owned
<1> QED
  BY <1>2, <1>3

\* A plan is being made, from what the pass reads now or has read.
LEMMA PlansFromItsRead ==
    ASSUME TypeOK, [Next]_vars, NEW w \in Worker, pc'[w] = "plan"
    PROVE  StartTick(w) \/ (pc[w] = "plan" /\ pass'[w] = pass[w])
<1>a. pc \in [Worker -> Place] /\ pass \in [Worker -> PassState]
  BY DEF TypeOK, QueueTypeOK
<1> DEFINE Kept == pc[w] = "plan" /\ pass'[w] = pass[w]
<1>1. UNCHANGED <<pc[w], pass[w]>> => Kept
  OBVIOUS
<1>2. ASSUME NEW v \in Worker, NEW place, Goto(v, place), NEW s,
             pass' = [pass EXCEPT ![v] = s], v = w => place # "plan"
      PROVE  Kept
  BY <1>a, <1>2 DEF Goto
<1>3. ASSUME NEW v \in Worker, NEW place \in Place \ {"plan"}, Goto(v, place), UNCHANGED pass PROVE Kept
  BY <1>a, <1>3 DEF Goto
<1>p. \A place \in {"idle", "open", "send", "post", "settle", "trip", "close"} : place \in Place \ {"plan"}
  BY DEF Place
<1>4. ASSUME NEW v \in Worker, Planning(v) PROVE StartTick(w) \/ Kept
  <2>1. CASE v = w
    <3>1. WritePlan(v) \/ PlanFails(v) => Kept
      <4>1. WritePlan(v) => Goto(v, "open") /\ pass' = [pass EXCEPT ![v] = FreshPass]
        BY DEF WritePlan
      <4>2. PlanFails(v) => Goto(v, "idle") /\ pass' = [pass EXCEPT ![v] = FreshPass]
        BY DEF PlanFails
      <4> HIDE DEF Kept
      <4> QED
        BY <1>2, <4>1, <4>2
    <3> QED
      BY <1>4, <2>1, <3>1 DEF Planning
  <2>2. CASE v # w
    BY <1>a, <1>4, <2>2 DEF Planning, StartTick, WritePlan, PlanFails, Goto
  <2> QED
    BY <2>1, <2>2
<1>5. ASSUME NEW v \in Worker, Sending(v) PROVE Kept
  <2>1. CASE OpenQueue(v) \/ ClosePass(v)
    <3>1. ASSUME OpenQueue(v)
          PROVE  Goto(v, "send") /\ \E s : pass' = [pass EXCEPT ![v] = s]
      BY <3>1, Zenon DEF OpenQueue
    <3>2. ASSUME ClosePass(v) PROVE Goto(v, "idle") /\ pass' = [pass EXCEPT ![v] = FreshPass]
      BY <3>2 DEF ClosePass
    <3> HIDE DEF Kept
    <3> QED
      BY <1>2, <2>1, <3>1, <3>2
  <2>2. CASE LeaveQueue(v) \/ PostMessage(v) \/ \E o \in Obs : MarkSending(v, o)
    BY <1>3, <1>p, <2>2 DEF LeaveQueue, PostMessage, MarkSending
  <2>3. CASE \E o \in Obs : GiveUpLate(v, o) \/ DropWithdrawn(v, o)
    BY <1>1, <2>3 DEF GiveUpLate, DropWithdrawn, workVars
  <2> QED
    BY <1>5, <2>1, <2>2, <2>3 DEF Sending
<1>6. ASSUME NEW v \in Worker, Settling(v) PROVE Kept
  <2>1. CASE SettleRetry(v) \/ SettleAccount(v) \/ TripBreaker(v)
    BY <1>3, <1>p, <2>1 DEF SettleRetry, SettleAccount, TripBreaker
  <2>2. ASSUME NEW n, CountFailure(v, n) PROVE Kept
    BY <1>a, <2>2 DEF CountFailure, Goto
  <2>3. CASE SettleSent(v)
    BY <1>a, <2>3 DEF SettleSent, Goto
  <2> QED
    BY <1>6, <2>1, <2>2, <2>3 DEF Settling, SettleUnknown, SettleRefused, SettleExhausted
<1>7. ASSUME NEW v \in Worker, Crash(v) PROVE Kept
  BY <1>a, <1>7 DEF Crash, Goto
<1>8. (\E o \in Obs : GoStale(o)) \/ CutOff \/ AdminPause \/ AdminResume \/ InTheBook \/ UNCHANGED vars => Kept
  BY <1>1 DEF GoStale, CutOff, AdminPause, AdminResume, InTheBook, vars, queueVars, workVars
<1> QED
  BY <1>4, <1>5, <1>6, <1>7, <1>8 DEF Next, Work

\* A subset of observances has at most as many.
LEMMA FewerObs == ASSUME NEW S \in SUBSET Obs, NEW T \in SUBSET S, NEW n \in Nat, Cardinality(S) <= n
                  PROVE  Cardinality(T) <= n
<1>1. IsFiniteSet(S) /\ Cardinality(S) \in Nat /\ Cardinality(T) \in Nat
  BY ObsCount
<1>2. Cardinality(T) <= Cardinality(S)
  BY <1>1, FS_Subset
<1> DEFINE s == Cardinality(S)
           t == Cardinality(T)
<1> HIDE DEF s, t
<1>3. s \in Nat /\ t \in Nat /\ t <= s /\ s <= n
  BY <1>1, <1>2 DEF s, t
<1>4. t <= n
  BY <1>3
<1> QED
  BY <1>4 DEF t

\* WithinCaps, with the reminders of a mobed as a part of Owned.
CapsKept ==
    /\ Cardinality(Counted) <= DailyCap
    /\ \A o, q \in Counted : row[o].phone = row[q].phone => o = q
    /\ \A r \in Record : Cardinality(Owned \cap Mobeds(r)) <= MobedCap

\* It is the same.
LEMMA CapsParts == WithinCaps <=> CapsKept
<1>1. \A r \in Record : {o \in Owned : Owner[RecordOf[o]] = Owner[r]} = Owned \cap Mobeds(r)
  BY DEF Owned, Counted, Mobeds
<1> QED
  BY <1>1 DEF WithinCaps, CapsKept

\* What a pass has read to plan from still covers all that counts: with one
\* worker nobody else adds to it.
ReadStillCovers == \A w \in Worker : pc[w] = "plan" => Counted \subseteq pass[w].counted /\ Owned \subseteq pass[w].owned

\* What counts after a plan: what counted, and what was queued with its number.
LEMMA PlanCounts ==
    ASSUME TypeOK, NEW w \in Worker, WritePlan(w)
    PROVE  \E S \in SUBSET Obs :
             /\ QueueWithinCaps(w, S)
             /\ Counted' \subseteq Counted \cup S
             /\ Owned' \subseteq Owned \cup S
             /\ \A o \in Counted : row'[o] = row[o] /\ o \notin S
             /\ \A o \in Counted' : o \in S => row'[o].phone = pass[w].offer[o]
<1> DEFINE fresh == Fresh(w)
           queued == QueuedUpTo(w)
           planned == {o \in fresh : o \in queued[o]}
           capped == {o \in fresh \ planned : ~Barred(w, o, queued[o - 1])}
           rows == {o \in Obs : row[o].status # "none"}
           S == queued[LastObs]
<1>1. QueueWithinCaps(w, S) /\ planned \subseteq S
  <2>1. LastObs \in 0 .. LastObs /\ \A o \in fresh : o \in 0 .. LastObs
    BY BookAssumption DEF Fresh, Obs
  <2> QED
    BY <2>1, PlanWithinCaps
<1>2. S \subseteq fresh /\ fresh \subseteq Obs
  BY <1>1 DEF QueueWithinCaps, Fresh
<1>3. \A o \in Counted : o \notin fresh
  BY DEF Counted, Fresh
<1>4. \A o \in Obs \ fresh : row'[o] = row[o]
  BY DEF WritePlan
<1>5. ASSUME NEW o \in fresh
      PROVE  /\ row'[o].phone = pass[w].offer[o]
             /\ o \notin planned => row'[o].status = "failed"
  <2> DEFINE id == Cardinality(rows) + Cardinality({q \in fresh : q <= o})
             status == IF o \in planned THEN "pending" ELSE "failed"
             why == IF o \in planned THEN "" ELSE IF o \in capped THEN "capped" ELSE "barred"
  <2>1. row'[o] = NewRow(id, pass[w].offer[o], status, why)
    BY <1>2, <1>5 DEF WritePlan
  <2>2. o \notin planned => status = "failed"
    OBVIOUS
  <2> HIDE DEF id, status, why, planned
  <2>3. row'[o].status = status /\ row'[o].phone = pass[w].offer[o]
    BY <2>1 DEF NewRow
  <2> QED
    BY <2>2, <2>3
<1>6. UNCHANGED prayer
  BY DEF WritePlan, bookVars
<1> HIDE DEF fresh, planned, capped, rows, S, queued
<1>7. Counted' \subseteq Counted \cup S
  BY <1>1, <1>4, <1>5 DEF Counted
<1>8. Owned' \subseteq Owned \cup S
  BY <1>6, <1>7 DEF Owned
<1> QED
  BY <1>1, <1>2, <1>3, <1>4, <1>5, <1>7, <1>8 DEF Counted

\* A plan stays within the caps because its read still covers all that counts; no
\* other step adds to what counts.
LEMMA WithinCapsStep ==
    ASSUME OneWorker, BookTypeOK, TypeOK, Custody, WithinCaps, ReadStillCovers, [Next]_vars
    PROVE  WithinCaps' /\ ReadStillCovers'
<1> SUFFICES ASSUME CapsKept PROVE CapsKept' /\ ReadStillCovers'
  BY CapsParts, PTL
<1>a. Counted \in SUBSET Obs /\ Owned \in SUBSET Obs
  BY DEF Counted, Owned
<1>b. DailyCap \in Nat /\ MobedCap \in Nat
  BY QueueAssumption
<1>c. (Counted \in SUBSET Obs)' /\ (Owned \in SUBSET Obs)'
  BY DEF Counted, Owned
<1>1. CASE \A w \in Worker : ~WritePlan(w)
  <2>1. /\ Counted' \subseteq Counted /\ Owned' \subseteq Owned
        /\ \A o \in Counted' : row'[o].phone = row[o].phone
    BY <1>1, CountedShrinks
  <2>2. CapsKept'
    <3>1. Cardinality(Counted') <= DailyCap
      BY <1>a, <1>b, <2>1, FewerObs DEF CapsKept
    <3>2. \A r \in Record : Cardinality(Owned' \cap Mobeds(r)) <= MobedCap
      <4> TAKE r \in Record
      <4>1. Owned \cap Mobeds(r) \in SUBSET Obs /\ Owned' \cap Mobeds(r) \in SUBSET (Owned \cap Mobeds(r))
        BY <1>a, <2>1
      <4> QED
        BY <1>b, <4>1, FewerObs DEF CapsKept
    <3> QED
      BY <2>1, <3>1, <3>2 DEF CapsKept
  <2>3. ReadStillCovers'
    <3> SUFFICES ASSUME NEW w \in Worker, pc'[w] = "plan"
                 PROVE  Counted' \subseteq pass'[w].counted /\ Owned' \subseteq pass'[w].owned
      BY DEF ReadStillCovers
    <3>1. CASE StartTick(w)
      <4>1. clock = "evening"
        BY <3>1 DEF StartTick, Goto, TypeOK, QueueTypeOK
      <4>2. pass'[w].counted = Counted /\ pass'[w].owned = Owned
        BY <3>1, <4>1 DEF StartTick, FreshPass, TypeOK, QueueTypeOK
      <4> QED
        BY <2>1, <4>2
    <3>2. CASE pc[w] = "plan" /\ pass'[w] = pass[w]
      BY <2>1, <3>2 DEF ReadStillCovers
    <3> QED
      BY <3>1, <3>2, PlansFromItsRead
  <2> QED
    BY <2>2, <2>3
<1>2. ASSUME NEW w \in Worker, WritePlan(w) PROVE CapsKept' /\ ReadStillCovers'
  <2>1. pc[w] = "plan" /\ pc'[w] = "open"
    BY <1>2 DEF WritePlan, Goto, TypeOK, QueueTypeOK
  <2>2. ReadStillCovers'
    BY <2>1 DEF OneWorker, ReadStillCovers
  <2>3. Counted \subseteq pass[w].counted /\ Owned \subseteq pass[w].owned
    BY <2>1 DEF ReadStillCovers
  <2>4. PICK S \in SUBSET Obs :
             /\ QueueWithinCaps(w, S)
             /\ Counted' \subseteq Counted \cup S
             /\ Owned' \subseteq Owned \cup S
             /\ \A o \in Counted : row'[o] = row[o] /\ o \notin S
             /\ \A o \in Counted' : o \in S => row'[o].phone = pass[w].offer[o]
    BY <1>2, PlanCounts
  <2>5. pass[w].counted \in SUBSET Obs /\ pass[w].owned \in SUBSET Obs
    BY DEF TypeOK, QueueTypeOK, PassState
  <2>6. Cardinality(Counted') <= DailyCap
    <3>1. CASE S = {}
      <4>1. Counted' \in SUBSET Counted
        BY <2>4, <3>1
      <4> QED
        BY <1>a, <1>b, <4>1, FewerObs DEF CapsKept
    <3>2. CASE S # {}
      <4>1. Cardinality(pass[w].counted \cup S) <= DailyCap
        BY <2>4, <3>2 DEF QueueWithinCaps
      <4>2. Counted' \in SUBSET (pass[w].counted \cup S) /\ pass[w].counted \cup S \in SUBSET Obs
        BY <2>3, <2>4, <2>5
      <4> QED
        BY <1>b, <4>1, <4>2, FewerObs
    <3> QED
      BY <3>1, <3>2
  <2>7. ASSUME NEW r \in Record PROVE Cardinality(Owned' \cap Mobeds(r)) <= MobedCap
    <3>1. CASE S \cap Mobeds(r) = {}
      <4>1. Owned' \cap Mobeds(r) \in SUBSET (Owned \cap Mobeds(r)) /\ Owned \cap Mobeds(r) \in SUBSET Obs
        BY <1>a, <2>4, <3>1
      <4> QED
        BY <1>b, <4>1, FewerObs DEF CapsKept
    <3>2. CASE S \cap Mobeds(r) # {}
      <4>1. Cardinality((pass[w].owned \cup S) \cap Mobeds(r)) <= MobedCap
        BY <2>4, <3>2 DEF QueueWithinCaps
      <4>2. /\ Owned' \cap Mobeds(r) \in SUBSET ((pass[w].owned \cup S) \cap Mobeds(r))
            /\ (pass[w].owned \cup S) \cap Mobeds(r) \in SUBSET Obs
        BY <2>3, <2>4, <2>5
      <4> QED
        BY <1>b, <4>1, <4>2, FewerObs
    <3> QED
      BY <3>1, <3>2
  <2>8. \A o, q \in Counted' : row'[o].phone = row'[q].phone => o = q
    <3> SUFFICES ASSUME NEW o \in Counted', NEW q \in Counted', row'[o].phone = row'[q].phone PROVE o = q
      OBVIOUS
    <3>1. /\ o \in S => row'[o].phone = pass[w].offer[o]
          /\ q \in S => row'[q].phone = pass[w].offer[q]
          /\ o \notin S => o \in Counted /\ o \in pass[w].counted /\ row'[o].phone = row[o].phone
          /\ q \notin S => q \in Counted /\ q \in pass[w].counted /\ row'[q].phone = row[q].phone
      BY <2>3, <2>4
    <3>2. CASE o \in S /\ q \in S
      BY <2>4, <3>1, <3>2 DEF QueueWithinCaps
    <3>3. CASE o \in S /\ q \notin S
      BY <2>4, <3>1, <3>3 DEF QueueWithinCaps
    <3>4. CASE o \notin S /\ q \in S
      BY <2>4, <3>1, <3>4 DEF QueueWithinCaps
    <3>5. CASE o \notin S /\ q \notin S
      BY <3>1, <3>5 DEF CapsKept
    <3> QED
      BY <3>2, <3>3, <3>4, <3>5
  <2> QED
    BY <2>2, <2>6, <2>7, <2>8 DEF CapsKept
<1> QED
  BY <1>1, <1>2

\* With one worker the caps hold whatever ticks, failures, crashes and changes of
\* the book fall between the planner's read and its write (plan_tomorrow).
THEOREM CapsAlwaysHold == ASSUME OneWorker PROVE Spec => []WithinCaps
<1> DEFINE Inv == BookOK /\ TypeOK /\ Ledger /\ WithinCaps /\ ReadStillCovers
<1>1. Init => Inv
  <2> SUFFICES ASSUME Init PROVE WithinCaps /\ ReadStillCovers
    BY TypeInit, LedgerInit
  <2>1. Counted = {} /\ Owned = {}
    BY DEF Init, NoRow, Counted, Owned
  <2>2. WithinCaps
    <3>1. Cardinality({}) = 0 /\ \A r \in Record : {} \cap Mobeds(r) = {}
      BY FS_EmptySet
    <3> QED
      BY <2>1, <3>1, CapsParts, QueueAssumption DEF CapsKept
  <2>3. ReadStillCovers
    BY <2>1 DEF ReadStillCovers
  <2> QED
    BY <2>2, <2>3
<1>2. Inv /\ [Next]_vars => Inv'
  <2> SUFFICES ASSUME Inv, [Next]_vars PROVE Inv'
    OBVIOUS
  <2>1. BookOK' /\ TypeOK' /\ Ledger'
    BY TypeStep, LedgerStep
  <2>2. WithinCaps' /\ ReadStillCovers'
    BY WithinCapsStep DEF BookOK, Ledger
  <2> QED
    BY <2>1, <2>2
<1> QED
  BY <1>1, <1>2, PTL DEF Spec
===============================================================================
