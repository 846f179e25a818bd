--------------------------- MODULE MemorialProofs ---------------------------
(***************************************************************************)
(* A memorial once it is saved, for any memorials, dates, families, mobeds *)
(* and requests at work at once: what is said of it stands, it closes on   *)
(* the same day wherever one looks, and its schedules stay within their    *)
(* limits and go once a day.                                               *)
(***************************************************************************)
EXTENDS MemorialCare, MemorialShare, Counting

-----------------------------------------------------------------------------
(***************************************************************************)
(* A saved memorial.  What a request loaded and is to change is still so   *)
(* when it saves, unless another one that overlapped changed the same part *)
(* of the same date first.                                                 *)
(***************************************************************************)
\* A request at work asks for something that can be asked of a memorial that was saved.
Asked(r) ==
    /\ \E m \in used : req[r].ask \in AsksFor(m)
    /\ req[r].on = req[r].ask.on
    /\ req[r].seen \in [req[r].ask.on -> DateRow]

Busy(r) == req[r] # AtRest

\* The parts of the state that requests depend on.
CareTypeOK ==
    /\ onFile \subseteq used /\ used \subseteq Memorial
    /\ dates \in [Dates -> DateRow]
    /\ DOMAIN word = Dates
    /\ DOMAIN req = Request /\ \A r \in Request : Busy(r) => Asked(r)

\* What is loaded and to be changed is still so, or known to be contested.
StillSo ==
    \A r \in Request : Busy(r) /\ req[r].ask.of \in onFile =>
        \A d \in req[r].ask.on, p \in PartsOf(req[r].ask) :
            <<d, p>> \notin clash => req[r].seen[d][p] = dates[d][p]

HandsInv == CareTypeOK /\ StillSo /\ EveryWordStands

\* About dates of a memorial, and what a row can hold.
Askable(m, ask) ==
    /\ ask.of = m /\ ask.on \subseteq DatesOf[m] /\ ask.on # {}
    /\ ask.column \in Column \cup {"none"} /\ ask.to \in BOOLEAN /\ ask.prayers \subseteq Prayer
    /\ ask.delete \in BOOLEAN

\* What is asked of a memorial is about dates of it, and says what a row can hold.
LEMMA AskParts ==
    ASSUME NEW m \in Memorial, NEW ask \in AsksFor(m)
    PROVE  /\ ask.of = m /\ ask.on \subseteq DatesOf[m] /\ ask.on # {}
           /\ ask.column \in Column \cup {"none"} /\ ask.to \in BOOLEAN /\ ask.prayers \subseteq Prayer
           /\ ask.delete \in BOOLEAN
<1> SUFFICES Askable(m, ask)
  BY DEF Askable
<1>a. ASSUME NEW on \in SUBSET DatesOf[m], on # {}, NEW column \in Column \cup {"none"},
             NEW to \in BOOLEAN, NEW prayers \in SUBSET Prayer, NEW delete \in BOOLEAN
      PROVE  Askable(m, Ask(m, on, column, to, prayers, delete))
  BY <1>a DEF Ask, Askable
<1>b. DatesOf[m] # {} /\ {"paid", "told", "time"} = Column
  BY CareAssumption DEF Column
<1>1. CASE ask \in PaidAsks(m)
  <2>1. PICK on \in {DatesOf[m]} \cup {{d} : d \in DatesOf[m]}, to \in BOOLEAN :
           ask = Ask(m, on, "paid", to, {}, FALSE)
    BY <1>1 DEF PaidAsks, Ask
  <2>2. on \in SUBSET DatesOf[m] /\ on # {}
    BY <1>b
  <2> QED
    BY <1>a, <1>b, <2>1, <2>2
<1>2. CASE ask \in ToldAsks(m)
  <2>1. PICK d \in DatesOf[m], to \in BOOLEAN : ask = Ask(m, {d}, "told", to, {}, FALSE)
    BY <1>2 DEF ToldAsks, Ask
  <2> QED
    BY <1>a, <1>b, <2>1
<1>3. CASE ask \in EditAsks(m)
  <2>1. \/ \E d \in DatesOf[m], to \in BOOLEAN, prayers \in SUBSET Prayer :
              ask = Ask(m, {d}, "time", to, prayers, FALSE)
        \/ \E d \in DatesOf[m], prayers \in SUBSET Prayer : ask = Ask(m, {d}, "none", FALSE, prayers, FALSE)
    BY <1>3 DEF EditAsks, Ask
  <2> QED
    BY <1>a, <1>b, <2>1
<1>4. CASE ask = DeleteAsk(m)
  BY <1>a, <1>b, <1>4 DEF DeleteAsk
<1> QED
  BY <1>1, <1>2, <1>3, <1>4 DEF AsksFor

\* A write leaves the parts it was not asked about as they are, and the others as they
\* were asked to be, if they were loaded as they are.
LEMMA WrittenParts ==
    ASSUME NEW m \in Memorial, NEW ask \in AsksFor(m), NEW row \in DateRow, NEW seen \in DateRow
    PROVE  /\ Written(row, seen, ask) \in DateRow
           /\ \A p \in Part \ PartsOf(ask) : Written(row, seen, ask)[p] = row[p]
           /\ \A p \in PartsOf(ask) : seen[p] = row[p] =>
                Written(row, seen, ask)[p] = IF p = "prayers" THEN ask.prayers ELSE ask.to
<1>a. ask.column \in Column \cup {"none"} /\ ask.to \in BOOLEAN /\ ask.prayers \subseteq Prayer
  BY AskParts
<1> DEFINE after == IF ColumnWritten(seen, ask) THEN [row EXCEPT ![ask.column] = ask.to] ELSE row
           new == (row.prayers \ Removed(seen, ask)) \cup Added(seen, ask)
<1>1. after \in DateRow /\ after.prayers = row.prayers
  BY <1>a DEF ColumnWritten, Column, DateRow
<1>2. \A c \in Column : after[c] = IF ColumnWritten(seen, ask) /\ c = ask.column THEN ask.to ELSE row[c]
  BY <1>a DEF ColumnWritten, Column, DateRow
<1>3. new \subseteq Prayer
  BY <1>a DEF Removed, Added, DateRow
<1>4. ask.prayers = {} => new = row.prayers
  BY DEF Removed, Added
<1>5. ask.prayers # {} /\ seen.prayers = row.prayers => new = ask.prayers
  BY DEF Removed, Added
<1>6. Written(row, seen, ask) = [after EXCEPT !.prayers = new]
  BY <1>1 DEF Written
<1> HIDE DEF after, new
<1>7. /\ Written(row, seen, ask) \in DateRow
      /\ Written(row, seen, ask).prayers = new
      /\ \A c \in Column : Written(row, seen, ask)[c] = after[c]
  BY <1>1, <1>3, <1>6 DEF DateRow, Column
<1>8. ASSUME NEW p \in Part \ PartsOf(ask) PROVE Written(row, seen, ask)[p] = row[p]
  BY <1>2, <1>4, <1>7, <1>8 DEF Part, PartsOf, Column
<1>9. ASSUME NEW p \in PartsOf(ask), seen[p] = row[p]
      PROVE  Written(row, seen, ask)[p] = IF p = "prayers" THEN ask.prayers ELSE ask.to
  <2>1. CASE p = "prayers"
    BY <1>5, <1>7, <1>9, <1>a, <2>1 DEF PartsOf, Column
  <2>2. CASE p # "prayers"
    <3>1. p \in Column /\ p = ask.column
      BY <2>2 DEF PartsOf, Part
    <3>2. row[p] \in BOOLEAN
      BY <3>1 DEF Column, DateRow
    <3>3. ColumnWritten(seen, ask) \/ row[p] = ask.to
      BY <1>9, <3>1 DEF ColumnWritten
    <3> QED
      BY <1>2, <1>7, <2>2, <3>1, <3>3
  <2> QED
    BY <2>1, <2>2
<1> QED
  BY <1>7, <1>8, <1>9

\* A date is of one memorial.
LEMMA DateOfOne ==
    ASSUME NEW m \in Memorial, NEW n \in Memorial, NEW d \in DatesOf[m], d \in DatesOf[n]
    PROVE  m = n
BY CareAssumption

\* Steps that change no row, and take no request up.
LEMMA HandsRest ==
    ASSUME HandsInv, UNCHANGED <<used, dates, word, clash>>, onFile' \subseteq onFile,
           DOMAIN req' = Request, \A r \in Request : req'[r] \in {AtRest, req[r]}
    PROVE  HandsInv'
<1>1. \A r \in Request : Busy(r)' => Busy(r) /\ req'[r] = req[r]
  BY DEF Busy
<1>2. CareTypeOK'
  BY <1>1 DEF HandsInv, CareTypeOK, Asked
<1>3. StillSo'
  BY <1>1 DEF HandsInv, StillSo
<1>4. EveryWordStands'
  BY DEF HandsInv, EveryWordStands
<1> QED
  BY <1>2, <1>3, <1>4 DEF HandsInv

\* What is loaded is what there is.
LEMMA LoadKeeps == ASSUME HandsInv, NEW r \in Request, Load(r) PROVE HandsInv'
<1>1. PICK m \in onFile : \E ask \in AsksFor(m) :
         req' = [req EXCEPT ![r] = [on |-> ask.on, ask |-> ask, seen |-> [d \in ask.on |-> dates[d]]]]
  BY DEF Load
<1>b. PICK ask \in AsksFor(m) :
         req' = [req EXCEPT ![r] = [on |-> ask.on, ask |-> ask, seen |-> [d \in ask.on |-> dates[d]]]]
  BY <1>1
<1> DEFINE new == [on |-> ask.on, ask |-> ask, seen |-> [d \in ask.on |-> dates[d]]]
<1>2. new.on = ask.on /\ new.ask = ask /\ new.seen = [d \in ask.on |-> dates[d]] /\ req' = [req EXCEPT ![r] = new]
  BY <1>b
<1> HIDE DEF new
<1>3. req'[r] = new /\ DOMAIN req' = Request /\ \A q \in Request : q # r => req'[q] = req[q]
  BY <1>2 DEF HandsInv, CareTypeOK
<1>4. UNCHANGED <<used, onFile, dates, word, clash>>
  BY DEF Load
<1>5. m \in Memorial /\ m \in used /\ ask.on \subseteq DatesOf[m] /\ ask.on \subseteq Dates
  BY AskParts DEF HandsInv, CareTypeOK, Dates
<1>6. new.seen \in [ask.on -> DateRow]
  BY <1>2, <1>5 DEF HandsInv, CareTypeOK
<1>7. CareTypeOK'
  <2>1. ASSUME NEW q \in Request, Busy(q)' PROVE Asked(q)'
    <3>1. CASE q = r
      BY <1>2, <1>3, <1>4, <1>5, <1>6, <3>1 DEF Asked
    <3>2. CASE q # r
      BY <1>3, <1>4, <2>1, <3>2 DEF HandsInv, CareTypeOK, Asked, Busy
    <3> QED
      BY <3>1, <3>2
  <2> QED
    BY <1>3, <1>4, <2>1 DEF HandsInv, CareTypeOK
<1>8. StillSo'
  <2> SUFFICES ASSUME NEW q \in Request, Busy(q)', req'[q].ask.of \in onFile,
                      NEW d \in req'[q].ask.on, NEW p \in PartsOf(req'[q].ask), <<d, p>> \notin clash
               PROVE  req'[q].seen[d][p] = dates[d][p]
    BY <1>4 DEF StillSo
  <2>1. CASE q = r
    BY <1>2, <1>3, <2>1
  <2>2. CASE q # r
    BY <1>3, <2>2 DEF HandsInv, StillSo, Busy
  <2> QED
    BY <2>1, <2>2
<1> QED
  BY <1>4, <1>7, <1>8 DEF HandsInv, EveryWordStands

\* A new memorial has dates that no request has in hand.
LEMMA CreateKeeps == ASSUME HandsInv, NEW m \in Memorial, Create(m) PROVE HandsInv'
<1>1. PICK prayers \in [DatesOf[m] -> (SUBSET Prayer) \ {{}}], allPaid \in BOOLEAN :
         /\ dates' = [d \in Dates |-> IF d \in DatesOf[m]
                         THEN [NotYet EXCEPT !.paid = allPaid, !.prayers = prayers[d]] ELSE dates[d]]
         /\ word' = [d \in Dates |-> IF d \in DatesOf[m]
                         THEN [NotYet EXCEPT !.paid = allPaid, !.prayers = prayers[d]] ELSE word[d]]
  BY DEF Create
<1>2. m \notin used /\ used' = used \cup {m} /\ onFile' = onFile \cup {m} /\ UNCHANGED <<req, clash>>
  BY DEF Create
<1>3. \A d \in Dates : /\ d \in DatesOf[m] => dates'[d] = word'[d] /\ dates'[d] \in DateRow
                       /\ d \notin DatesOf[m] => dates'[d] = dates[d] /\ word'[d] = word[d]
  BY <1>1 DEF NotYet, DateRow
<1>4. CareTypeOK'
  <2>1. dates' \in [Dates -> DateRow]
    BY <1>1, <1>3 DEF HandsInv, CareTypeOK
  <2>2. \A r \in Request : Busy(r)' => Asked(r)'
    BY <1>2 DEF HandsInv, CareTypeOK, Asked, Busy
  <2> QED
    BY <1>1, <1>2, <2>1, <2>2 DEF HandsInv, CareTypeOK
<1>5. StillSo'
  <2> SUFFICES ASSUME NEW r \in Request, Busy(r), req[r].ask.of \in onFile',
                      NEW d \in req[r].ask.on, NEW p \in PartsOf(req[r].ask), <<d, p>> \notin clash
               PROVE  req[r].seen[d][p] = dates'[d][p]
    BY <1>2 DEF StillSo, Busy
  <2>1. PICK n \in used : req[r].ask \in AsksFor(n)
    BY DEF HandsInv, CareTypeOK, Asked
  <2>2. n \in Memorial /\ n # m /\ req[r].ask.of = n /\ d \in DatesOf[n]
    BY <1>2, <2>1, AskParts DEF HandsInv, CareTypeOK
  <2>3. d \in Dates /\ d \notin DatesOf[m]
    BY <2>2, DateOfOne DEF Dates
  <2> QED
    BY <1>2, <1>3, <2>2, <2>3 DEF HandsInv, StillSo
<1>6. EveryWordStands'
  <2> SUFFICES ASSUME NEW n \in onFile', NEW d \in DatesOf[n], NEW p \in Part, <<d, p>> \notin clash
               PROVE  dates'[d][p] = word'[d][p]
    BY <1>2 DEF EveryWordStands
  <2>1. n \in Memorial /\ d \in Dates
    BY <1>2 DEF HandsInv, CareTypeOK, Dates
  <2>2. CASE d \in DatesOf[m]
    BY <1>3, <2>1, <2>2
  <2>3. CASE d \notin DatesOf[m]
    BY <1>2, <1>3, <2>1, <2>3 DEF HandsInv, EveryWordStands
  <2> QED
    BY <2>2, <2>3
<1> QED
  BY <1>4, <1>5, <1>6 DEF HandsInv

\* A save writes what was asked; whoever loaded a part that it wrote is told apart.
LEMMA SaveKeeps == ASSUME HandsInv, NEW r \in Request, Save(r) PROVE HandsInv'
<1>a. PICK ask : ask = req[r].ask
  OBVIOUS
<1>b. PICK seen : seen = req[r].seen
  OBVIOUS
<1>1. /\ Busy(r) /\ Asked(r) /\ req' = [req EXCEPT ![r] = AtRest] /\ UNCHANGED <<used, onFile>>
  BY DEF Save, Busy, HandsInv, CareTypeOK
<1>2. DOMAIN req' = Request /\ req'[r] = AtRest /\ \A q \in Request : q # r => req'[q] = req[q]
  BY <1>1 DEF HandsInv, CareTypeOK
<1>3. CASE ask.of \notin onFile
  <2>1. UNCHANGED <<dates, word, clash>>
    BY <1>a, <1>3 DEF Save
  <2> QED
    BY <1>1, <1>2, <2>1, HandsRest
<1>4. CASE ask.of \in onFile
  <2>1. /\ dates' = [d \in Dates |-> IF d \in ask.on THEN Written(dates[d], seen[d], ask) ELSE dates[d]]
        /\ word' = [d \in Dates |-> [p \in Part |->
                              IF <<d, p>> \notin About(ask) THEN word[d][p]
                              ELSE IF p = "prayers" THEN ask.prayers ELSE ask.to]]
        /\ clash' = clash \cup (About(ask) \cap Others(r))
    BY <1>a, <1>b, <1>4 DEF Save
  <2>2. PICK m \in Memorial : m \in used /\ ask \in AsksFor(m)
    BY <1>1, <1>a DEF Asked, HandsInv, CareTypeOK
  <2>3. m = ask.of /\ ask.on \subseteq Dates /\ seen \in [ask.on -> DateRow] /\ PartsOf(ask) \subseteq Part
    BY <1>1, <1>a, <1>b, <2>2, AskParts DEF Asked, Dates, PartsOf
  <2>4. ASSUME NEW d \in Dates
        PROVE  /\ dates'[d] \in DateRow
               /\ \A p \in Part : <<d, p>> \notin About(ask) =>
                    dates'[d][p] = dates[d][p] /\ word'[d][p] = word[d][p]
               /\ \A p \in Part : <<d, p>> \in About(ask) /\ seen[d][p] = dates[d][p] =>
                    dates'[d][p] = word'[d][p]
    <3>1. dates[d] \in DateRow
      BY DEF HandsInv, CareTypeOK
    <3>2. \A p \in Part : word'[d][p] = IF <<d, p>> \notin About(ask) THEN word[d][p]
                                        ELSE IF p = "prayers" THEN ask.prayers ELSE ask.to
      BY <2>1
    <3>3. \A p \in Part : <<d, p>> \in About(ask) <=> d \in ask.on /\ p \in PartsOf(ask)
      BY DEF About
    <3>4. CASE d \notin ask.on
      BY <2>1, <3>1, <3>2, <3>3, <3>4
    <3>5. CASE d \in ask.on
      <4>1. dates'[d] = Written(dates[d], seen[d], ask) /\ seen[d] \in DateRow
        BY <2>1, <2>3, <3>5
      <4>2. /\ dates'[d] \in DateRow
            /\ \A p \in Part \ PartsOf(ask) : dates'[d][p] = dates[d][p]
            /\ \A p \in PartsOf(ask) : seen[d][p] = dates[d][p] =>
                 dates'[d][p] = IF p = "prayers" THEN ask.prayers ELSE ask.to
        BY <2>2, <3>1, <4>1, WrittenParts
      <4> QED
        BY <3>2, <3>3, <3>5, <4>2
    <3> QED
      BY <3>4, <3>5
  <2>5. CareTypeOK'
    <3>1. dates' \in [Dates -> DateRow]
      BY <2>1, <2>4
    <3>2. ASSUME NEW q \in Request, Busy(q)' PROVE Asked(q)'
      BY <1>1, <1>2, <3>2 DEF HandsInv, CareTypeOK, Asked, Busy
    <3> QED
      BY <1>1, <1>2, <2>1, <3>1, <3>2 DEF HandsInv, CareTypeOK
  <2>6. StillSo'
    <3> SUFFICES ASSUME NEW q \in Request, Busy(q)', req'[q].ask.of \in onFile,
                        NEW d \in req'[q].ask.on, NEW p \in PartsOf(req'[q].ask), <<d, p>> \notin clash'
                 PROVE  req'[q].seen[d][p] = dates'[d][p]
      BY <1>1 DEF StillSo
    <3>1. q # r /\ req'[q] = req[q] /\ Busy(q) /\ Asked(q)
      BY <1>2 DEF Busy, HandsInv, CareTypeOK
    <3>2. d \in Dates /\ p \in Part
      BY <3>1, AskParts DEF Asked, HandsInv, CareTypeOK, Dates, PartsOf
    <3>3. <<d, p>> \in Others(r)
      BY <3>1 DEF Others, About, Busy
    <3>4. <<d, p>> \notin About(ask) /\ <<d, p>> \notin clash
      BY <2>1, <3>3
    <3>5. req[q].seen[d][p] = dates[d][p]
      BY <3>1, <3>4 DEF HandsInv, StillSo
    <3> QED
      BY <2>4, <3>1, <3>2, <3>4, <3>5
  <2>7. EveryWordStands'
    <3> SUFFICES ASSUME NEW n \in onFile, NEW d \in DatesOf[n], NEW p \in Part, <<d, p>> \notin clash'
                 PROVE  dates'[d][p] = word'[d][p]
      BY <1>1 DEF EveryWordStands
    <3>1. d \in Dates /\ <<d, p>> \notin clash
      BY <2>1 DEF HandsInv, CareTypeOK, Dates
    <3>2. CASE <<d, p>> \notin About(ask)
      BY <2>4, <3>1, <3>2 DEF HandsInv, EveryWordStands
    <3>3. CASE <<d, p>> \in About(ask)
      <4>1. d \in ask.on /\ p \in PartsOf(ask)
        BY <3>3 DEF About
      <4>2. seen[d][p] = dates[d][p]
        BY <1>1, <1>4, <1>a, <1>b, <3>1, <4>1 DEF HandsInv, StillSo
      <4> QED
        BY <2>4, <3>1, <3>3, <4>2
    <3> QED
      BY <3>2, <3>3
  <2> QED
    BY <2>5, <2>6, <2>7 DEF HandsInv
<1> QED
  BY <1>3, <1>4

\* Before anything is saved.
LEMMA CareStart == CareInit => HandsInv
BY DEF CareInit, HandsInv, CareTypeOK, StillSo, EveryWordStands, Busy, NotYet, DateRow

\* Every step.
LEMMA HandsKept == HandsInv /\ [CareNext]_careVars => HandsInv'
<1> SUFFICES ASSUME HandsInv, [CareNext]_careVars PROVE HandsInv'
  OBVIOUS
<1>a. DOMAIN req = Request
  BY DEF HandsInv, CareTypeOK
<1>1. ASSUME UNCHANGED <<used, onFile, dates, word, clash, req>> PROVE HandsInv'
  BY <1>a, <1>1, HandsRest
<1>2. CASE UNCHANGED careVars
  BY <1>1, <1>2 DEF careVars
<1>3. ASSUME NEW r \in Request, Abandon(r) \/ DeleteMemorial(r) PROVE HandsInv'
  <2>1. /\ req' = [req EXCEPT ![r] = AtRest] /\ onFile' \subseteq onFile
        /\ UNCHANGED <<used, dates, word, clash>>
    BY <1>3 DEF Abandon, DeleteMemorial
  <2>2. DOMAIN req' = Request /\ \A q \in Request : req'[q] \in {AtRest, req[q]}
    BY <1>a, <2>1
  <2> QED
    BY <2>1, <2>2, HandsRest
<1>4. ASSUME NEW w \in Worker, LookForClosing(w) \/ NotifyClosing(w) \/ PassIsLost(w) PROVE HandsInv'
  BY <1>1, <1>4 DEF LookForClosing, NotifyClosing, PassIsLost
<1>5. CASE DayEnds
  BY <1>1, <1>5 DEF DayEnds
<1> QED
  BY <1>2, <1>3, <1>4, <1>5, CreateKeeps, LoadKeeps, SaveKeeps DEF CareNext, HandsNext

\* Until two requests overlap on the same part of the same date, that part is as the
\* last word saved on it left it, for any memorials, dates, prayers and requests
\* (update_observance, set_paid, mark_reminded).
THEOREM WordsAlwaysStand == CareSpec => []EveryWordStands
<1>1. HandsInv => EveryWordStands
  BY DEF HandsInv
<1> QED
  BY <1>1, CareStart, HandsKept, PTL DEF CareSpec

-----------------------------------------------------------------------------
(***************************************************************************)
(* When a memorial closes.                                                 *)
(***************************************************************************)
\* What a pass found closes tomorrow.
Tomorrow(w) ==
    /\ pass[w].open => \A m \in pass[w].finds : LastDate(m) = today + 1
    /\ ~pass[w].open => pass[w].finds = {}

\* The notices a memorial has, and those it is about to have, are no more than the
\* passes that had found it at once; one with a notice closes tomorrow at the latest.
Noticed(m) ==
    /\ notices[m] + Cardinality(Finders(m)) <= lapped[m]
    /\ notices[m] > 0 => LastDate(m) <= today + 1

\* The parts of the state that the evening depends on.
ClosingTypeOK ==
    /\ onFile \subseteq Memorial /\ today \in Nat
    /\ notices \in [Memorial -> Nat] /\ lapped \in [Memorial -> Nat]
    /\ pass \in [Worker -> [open : BOOLEAN, finds : SUBSET Memorial]]

ClosingInv ==
    /\ ClosingTypeOK
    /\ \A w \in Worker : Tomorrow(w)
    /\ \A m \in Memorial : Noticed(m)

\* The last date is one of the memorial's, and none is later.
LEMMA LastIsLast ==
    ASSUME NEW m \in Memorial
    PROVE  /\ LastDate(m) \in Nat
           /\ \E d \in DatesOf[m] : DayOf[d] = LastDate(m)
           /\ \A d \in DatesOf[m] : DayOf[d] \in Nat /\ DayOf[d] <= LastDate(m)
<1> DEFINE S == {DayOf[d] : d \in DatesOf[m]}
<1>1. S \in SUBSET Nat /\ S # {}
  BY CareAssumption
<1>2. IsFiniteSet(S)
  <2> DEFINE f == [d \in DatesOf[m] |-> DayOf[d]]
  <2>1. f \in Surjection(DatesOf[m], S)
    BY DEF Surjection
  <2> QED
    BY <2>1, CareAssumption, FS_Surjection
<1>3. LastDate(m) = Max(S)
  BY DEF LastDate
<1>5. \A d \in DatesOf[m] : DayOf[d] \in S
  OBVIOUS
<1>6. \A x \in S : \E d \in DatesOf[m] : DayOf[d] = x
  OBVIOUS
<1> HIDE DEF S
<1>4. PICK k \in S : \A x \in S : x <= k
  BY <1>1, <1>2, GreatestNat
<1>7. k \in S /\ \A x \in S : k >= x
  BY <1>1, <1>4
<1>8. Max(S) \in S /\ \A x \in S : Max(S) >= x
  BY <1>7, Zenon DEF Max
<1> QED
  BY <1>1, <1>3, <1>5, <1>6, <1>8

\* Steps that leave the evening alone.
LEMMA EveningRests ==
    ASSUME ClosingInv, onFile' \subseteq Memorial, UNCHANGED <<today, notices, pass, lapped>>
    PROVE  ClosingInv'
BY DEF ClosingInv, ClosingTypeOK, Tomorrow, Noticed, LastDate, Finders

\* One pass opens or closes: a memorial counts one finder more, one less, or the same.
LEMMA OneFinder ==
    ASSUME ClosingInv, NEW w \in Worker, \A v \in Worker : v # w => pass'[v] = pass[v],
           NEW m \in Memorial
    PROVE  LET before == Cardinality(Finders(m))
               after == Cardinality(Finders(m)')
           IN  /\ before \in Nat /\ after \in Nat
               /\ m \in pass'[w].finds <=> m \in pass[w].finds => after = before
               /\ m \in pass'[w].finds /\ m \notin pass[w].finds => after = before + 1
               /\ m \notin pass'[w].finds /\ m \in pass[w].finds => after = before - 1
<1>1. /\ Finders(m) \in SUBSET Worker /\ Finders(m)' \in SUBSET Worker
      /\ Finders(m)' \ {w} = Finders(m) \ {w}
      /\ w \in Finders(m) <=> m \in pass[w].finds
      /\ w \in Finders(m)' <=> m \in pass'[w].finds
  BY DEF Finders
<1> HIDE DEF Finders
<1> QED
  BY <1>1, CareAssumption, OneMoved

\* A pass looks.
LEMMA LookKeeps == ASSUME ClosingInv, NEW w \in Worker, LookForClosing(w) PROVE ClosingInv'
<1> DEFINE found == {m \in onFile : LastDate(m) = today + 1 /\ ~Already(m)}
           new == [open |-> TRUE, finds |-> found]
<1>1. /\ ~pass[w].open /\ pass' = [pass EXCEPT ![w] = new] /\ UNCHANGED <<onFile, today, notices>>
      /\ lapped' = [m \in Memorial |-> IF m \in found THEN Lapping(m) ELSE lapped[m]]
  BY DEF LookForClosing
<1>2. \A m \in found : m \in Memorial /\ LastDate(m) = today + 1 /\ notices[m] = 0
  BY DEF ClosingInv, ClosingTypeOK, Already
<1>3. new \in [open : BOOLEAN, finds : SUBSET Memorial] /\ new.finds = found /\ new.open
  BY <1>2
<1> HIDE DEF found, new
<1>4. pass'[w] = new /\ \A v \in Worker : v # w => pass'[v] = pass[v]
  BY <1>1 DEF ClosingInv, ClosingTypeOK
<1>5. ASSUME NEW m \in Memorial
      PROVE  lapped'[m] \in Nat /\ Noticed(m)'
  <2>1. m \notin pass[w].finds
    BY <1>1 DEF ClosingInv, Tomorrow
  <2>2. /\ Cardinality(Finders(m)) \in Nat /\ Cardinality(Finders(m)') \in Nat
        /\ m \notin found => Cardinality(Finders(m)') = Cardinality(Finders(m))
        /\ m \in found => Cardinality(Finders(m)') = Cardinality(Finders(m)) + 1
    BY <1>3, <1>4, <2>1, OneFinder
  <2>3. lapped[m] \in Nat /\ notices[m] \in Nat /\ notices'[m] = notices[m]
        /\ notices[m] + Cardinality(Finders(m)) <= lapped[m]
        /\ (notices'[m] > 0 => LastDate(m) <= today' + 1)
    BY <1>1 DEF ClosingInv, ClosingTypeOK, Noticed
  <2>4. lapped'[m] \in Nat /\ notices'[m] + Cardinality(Finders(m)') <= lapped'[m]
    <3>1. CASE m \in found
      <4>1. lapped'[m] = Lapping(m) /\ notices[m] = 0
        BY <1>1, <1>2, <3>1
      <4>2. lapped'[m] \in Nat /\ Cardinality(Finders(m)) + 1 <= lapped'[m]
        BY <2>2, <2>3, <4>1 DEF Lapping
      <4> QED
        BY <2>2, <2>3, <3>1, <4>1, <4>2
    <3>2. CASE m \notin found
      BY <1>1, <2>2, <2>3, <3>2
    <3> QED
      BY <3>1, <3>2
  <2> QED
    BY <2>3, <2>4 DEF Noticed, LastDate
<1>6. ClosingTypeOK'
  <2>1. lapped' \in [Memorial -> Nat]
    BY <1>1, <1>5
  <2> QED
    BY <1>1, <1>3, <2>1 DEF ClosingInv, ClosingTypeOK
<1>7. ASSUME NEW v \in Worker PROVE Tomorrow(v)'
  <2>1. CASE v = w
    BY <1>1, <1>2, <1>3, <1>4, <2>1 DEF Tomorrow, LastDate
  <2>2. CASE v # w
    BY <1>1, <1>4, <2>2 DEF ClosingInv, Tomorrow, LastDate
  <2> QED
    BY <2>1, <2>2
<1> QED
  BY <1>5, <1>6, <1>7 DEF ClosingInv

\* It leaves its notices, and no more is about to be left by it.
LEMMA NotifyKeeps == ASSUME ClosingInv, NEW w \in Worker, NotifyClosing(w) PROVE ClosingInv'
<1>1. /\ pass[w].open /\ pass' = [pass EXCEPT ![w] = NoPass] /\ UNCHANGED <<onFile, today, lapped>>
      /\ notices' = [m \in Memorial |-> notices[m] + (IF m \in pass[w].finds THEN 1 ELSE 0)]
  BY DEF NotifyClosing
<1>2. pass'[w] = NoPass /\ \A v \in Worker : v # w => pass'[v] = pass[v]
  BY <1>1 DEF ClosingInv, ClosingTypeOK
<1>3. \A m \in Memorial : /\ notices[m] \in Nat /\ notices'[m] \in Nat
                          /\ m \in pass[w].finds => notices'[m] = notices[m] + 1
                          /\ m \notin pass[w].finds => notices'[m] = notices[m]
  BY <1>1 DEF ClosingInv, ClosingTypeOK
<1>0. NoPass \in [open : BOOLEAN, finds : SUBSET Memorial] /\ ~NoPass.open /\ NoPass.finds = {}
  BY DEF NoPass
<1>4. ClosingTypeOK'
  <2>1. notices' \in [Memorial -> Nat]
    BY <1>1, <1>3
  <2> QED
    BY <1>0, <1>1, <2>1 DEF ClosingInv, ClosingTypeOK
<1>5. ASSUME NEW v \in Worker PROVE Tomorrow(v)'
  <2>1. CASE v = w
    BY <1>0, <1>2, <2>1 DEF Tomorrow
  <2>2. CASE v # w
    BY <1>1, <1>2, <2>2 DEF ClosingInv, Tomorrow, LastDate
  <2> QED
    BY <2>1, <2>2
<1>6. ASSUME NEW m \in Memorial PROVE Noticed(m)'
  <2>1. m \in pass[w].finds => LastDate(m) = today + 1
    BY <1>1 DEF ClosingInv, Tomorrow
  <2>2. /\ notices[m] + Cardinality(Finders(m)) <= lapped[m] /\ lapped[m] \in Nat
        /\ notices[m] > 0 => LastDate(m) <= today + 1
    BY DEF ClosingInv, ClosingTypeOK, Noticed
  <2>3. /\ Cardinality(Finders(m)) \in Nat /\ Cardinality(Finders(m)') \in Nat
        /\ m \notin pass[w].finds => Cardinality(Finders(m)') = Cardinality(Finders(m))
        /\ m \in pass[w].finds => Cardinality(Finders(m)') = Cardinality(Finders(m)) - 1
    BY <1>0, <1>2, OneFinder
  <2>4. LastDate(m) \in Nat /\ today \in Nat
    BY LastIsLast DEF ClosingInv, ClosingTypeOK
  <2>5. /\ notices'[m] + Cardinality(Finders(m)') <= lapped[m]
        /\ notices'[m] > 0 => LastDate(m) <= today + 1
    BY <1>3, <2>1, <2>2, <2>3, <2>4
  <2> QED
    BY <1>1, <2>5 DEF Noticed, LastDate
<1> QED
  BY <1>4, <1>5, <1>6 DEF ClosingInv

\* A pass is lost.
LEMMA LostKeeps == ASSUME ClosingInv, NEW w \in Worker, PassIsLost(w) PROVE ClosingInv'
<1>1. pass' = [pass EXCEPT ![w] = NoPass] /\ UNCHANGED <<onFile, today, notices, lapped>>
  BY DEF PassIsLost
<1>2. NoPass \in [open : BOOLEAN, finds : SUBSET Memorial] /\ ~NoPass.open /\ NoPass.finds = {}
  BY DEF NoPass
<1>3. pass'[w] = NoPass /\ \A v \in Worker : v # w => pass'[v] = pass[v]
  BY <1>1 DEF ClosingInv, ClosingTypeOK
<1>4. ASSUME NEW m \in Memorial PROVE Noticed(m)'
  <2>1. /\ Cardinality(Finders(m)) \in Nat /\ Cardinality(Finders(m)') \in Nat
        /\ Cardinality(Finders(m)') <= Cardinality(Finders(m))
    <3>1. m \notin pass'[w].finds
      BY <1>2, <1>3
    <3> QED
      BY <1>3, <3>1, OneFinder
  <2>2. /\ notices[m] + Cardinality(Finders(m)) <= lapped[m] /\ lapped[m] \in Nat /\ notices[m] \in Nat
        /\ notices[m] > 0 => LastDate(m) <= today + 1
    BY DEF ClosingInv, ClosingTypeOK, Noticed
  <2>3. notices'[m] + Cardinality(Finders(m)') <= lapped'[m]
    BY <1>1, <2>1, <2>2
  <2> QED
    BY <1>1, <2>2, <2>3 DEF Noticed, LastDate
<1>5. ClosingTypeOK' /\ \A v \in Worker : Tomorrow(v)'
  BY <1>1, <1>2, <1>3 DEF ClosingInv, ClosingTypeOK, Tomorrow, LastDate
<1> QED
  BY <1>4, <1>5 DEF ClosingInv

\* The day ends with no pass under way.
LEMMA DayKeeps == ASSUME ClosingInv, DayEnds PROVE ClosingInv'
<1>1. today' = today + 1 /\ (\A w \in Worker : ~pass[w].open) /\ UNCHANGED <<onFile, notices, pass, lapped>>
  BY DEF DayEnds
<1>2. ASSUME NEW m \in Memorial PROVE Noticed(m)'
  <2>1. LastDate(m) \in Nat /\ today \in Nat
    BY LastIsLast DEF ClosingInv, ClosingTypeOK
  <2>2. notices[m] > 0 => LastDate(m) <= today' + 1
    BY <1>1, <2>1 DEF ClosingInv, Noticed
  <2> QED
    BY <1>1, <2>2 DEF ClosingInv, Noticed, LastDate, Finders
<1> QED
  BY <1>1, <1>2 DEF ClosingInv, ClosingTypeOK, Tomorrow

\* Every step of a memorial's life.
LEMMA ClosingKept == HandsInv /\ ClosingInv /\ [CareNext]_careVars => ClosingInv'
<1> SUFFICES ASSUME HandsInv, ClosingInv, [CareNext]_careVars PROVE ClosingInv'
  OBVIOUS
<1>a. onFile \subseteq Memorial
  BY DEF ClosingInv, ClosingTypeOK
<1>1. CASE UNCHANGED careVars
  BY <1>a, <1>1, EveningRests DEF careVars
<1>2. ASSUME NEW m \in Memorial, Create(m) PROVE ClosingInv'
  <2>1. onFile' = onFile \cup {m} /\ UNCHANGED <<today, notices, pass, lapped>>
    BY <1>2, Zenon DEF Create
  <2>2. onFile' \subseteq Memorial
    BY <1>a, <2>1
  <2> QED
    BY <2>1, <2>2, EveningRests
<1>3. ASSUME NEW r \in Request, Load(r) \/ Save(r) \/ Abandon(r) \/ DeleteMemorial(r) PROVE ClosingInv'
  BY <1>a, <1>3, EveningRests DEF Load, Save, Abandon, DeleteMemorial
<1> QED
  BY <1>1, <1>2, <1>3, LookKeeps, NotifyKeeps, LostKeeps, DayKeeps DEF CareNext, HandsNext

\* Whatever stretch is shown, the calendar closes a memorial in it where its last date
\* is in it, which is where its page stops saying that it goes on.
LEMMA ClosesOnItsLast ==
    ASSUME onFile \subseteq Memorial, NEW m \in onFile, NEW from \in Int, NEW to \in Int
    PROVE  /\ m \in Closings(from, to) <=> LastDate(m) \in from .. to
           /\ \A d \in Int : Running(m, d) /\ ~Running(m, d + 1) <=> d = LastDate(m)
<1>1. PICK last \in DatesOf[m] : DayOf[last] = LastDate(m)
  BY LastIsLast
<1>2. LastDate(m) \in Nat /\ \A d \in DatesOf[m] : DayOf[d] \in Nat /\ DayOf[d] <= LastDate(m)
  BY LastIsLast
<1>3. Max({DayOf[e] : e \in EveryDate(m, Feed(from, to))}) = LastDate(m)
  BY DEF EveryDate, LastDate
<1>4. m \in Closings(from, to) <=> \E d \in DatesOf[m] \cap Feed(from, to) : DayOf[d] = LastDate(m)
  BY <1>3 DEF Closings
<1>5. \A d \in DatesOf[m] : d \in Feed(from, to) <=> DayOf[d] \in from .. to
  BY DEF Feed
<1>6. m \in Closings(from, to) <=> LastDate(m) \in from .. to
  BY <1>1, <1>4, <1>5
<1>7. \A d \in Int : Running(m, d) <=> d <= LastDate(m)
  BY <1>1, <1>2 DEF Running
<1>8. ASSUME NEW d \in Int PROVE Running(m, d) /\ ~Running(m, d + 1) <=> d = LastDate(m)
  <2>1. Running(m, d) /\ ~Running(m, d + 1) <=> d <= LastDate(m) /\ ~(d + 1 <= LastDate(m))
    BY <1>7
  <2> QED
    BY <1>2, <2>1
<1> QED
  BY <1>6, <1>8

\* Calendar, page and notice agree on when a memorial closes, and its mobed is told no
\* more often than evening passes had found it at once (notify_closing_tomorrow, the
\* calendar's feed).
THEOREM ClosingsAlwaysAgree == CareSpec => []ClosingsAgree
<1>1. ClosingInv => ClosingsAgree
  <2> SUFFICES ASSUME ClosingInv PROVE ClosingsAgree
    OBVIOUS
  <2>a. onFile \subseteq Memorial /\ today \in Nat
    BY DEF ClosingInv, ClosingTypeOK
  <2>1. ASSUME NEW from \in 0 .. LastDay, NEW to \in 0 .. LastDay, NEW m \in onFile
        PROVE  m \in Closings(from, to) <=> \E d \in from .. to : Running(m, d) /\ ~Running(m, d + 1)
    <3>1. /\ m \in Closings(from, to) <=> LastDate(m) \in from .. to
          /\ \A d \in Int : Running(m, d) /\ ~Running(m, d + 1) <=> d = LastDate(m)
      BY <2>a, ClosesOnItsLast
    <3>2. \A d \in from .. to : d \in Int
      OBVIOUS
    <3>3. LastDate(m) \in from .. to => LastDate(m) \in Int
      OBVIOUS
    <3> QED
      BY <3>1, <3>2, <3>3
  <2>2. ASSUME NEW m \in Memorial, notices[m] > 0, m \in onFile PROVE m \in Closings(0, today + 1)
    <3>1. LastDate(m) \in Nat /\ LastDate(m) <= today + 1
      BY <2>2, LastIsLast DEF ClosingInv, Noticed
    <3>2. LastDate(m) \in 0 .. today + 1 /\ 0 \in Int /\ today + 1 \in Int
      BY <2>a, <3>1
    <3> QED
      BY <2>a, <2>2, <3>2, ClosesOnItsLast
  <2>3. ASSUME NEW m \in Memorial PROVE notices[m] <= lapped[m]
    <3>1. notices[m] \in Nat /\ lapped[m] \in Nat /\ notices[m] + Cardinality(Finders(m)) <= lapped[m]
      BY DEF ClosingInv, ClosingTypeOK, Noticed
    <3>2. Finders(m) \in SUBSET Worker
      BY DEF Finders
    <3>3. Cardinality(Finders(m)) \in Nat
      BY <3>2, CareAssumption, FewerOf
    <3> QED
      BY <3>1, <3>3
  <2> QED
    BY <2>1, <2>2, <2>3 DEF ClosingsAgree
<1>2. ASSUME CareInit PROVE ClosingInv
  <2>1. Cardinality({}) = 0
    BY FS_EmptySet
  <2>2. \A m \in Memorial : Finders(m) = {}
    BY <1>2 DEF CareInit, NoPass, Finders
  <2>3. ClosingTypeOK /\ \A w \in Worker : Tomorrow(w)
    BY <1>2 DEF CareInit, ClosingTypeOK, Tomorrow, NoPass
  <2>4. \A m \in Memorial : Noticed(m)
    BY <1>2, <2>1, <2>2 DEF CareInit, Noticed
  <2> QED
    BY <2>3, <2>4 DEF ClosingInv
<1> QED
  BY <1>1, <1>2, CareStart, HandsKept, ClosingKept, PTL DEF CareSpec

-----------------------------------------------------------------------------
(***************************************************************************)
(* Sharing.  A tap that passed the check under the lock is the only one    *)
(* that can add a row, so what it counted is still so when it commits its  *)
(* own; and each row that says "sending" to a living tap is that tap's     *)
(* alone, so no other one makes it count again after it failed.            *)
(***************************************************************************)
\* The parts of the state the limits depend on.
ShareTypeOK ==
    /\ rows \in [RowId -> ShareRow]
    /\ lock \in Tap \cup {Nobody}
    /\ tap \in [Tap -> {NoTap} \cup TapState]
    /\ arrived \in [Numbers -> Nat]

\* The limits, with the one of a number said of any two rows.
Limits ==
    /\ \A p \in Numbers : \A i, j \in SentTo(p) : i = j
    /\ \A f \in Behdin : Cardinality(SentBy(MobedOf[f])) <= ShareCap
    /\ Cardinality(SentToday) <= GlobalCap

Room(f) ==
    /\ SentTo(NumberOf[f]) = {}
    /\ Cardinality(SentBy(MobedOf[f])) < ShareCap
    /\ Cardinality(SentToday) < GlobalCap

\* Between the second check and its commit a tap has the lock, and room.
UnderLock ==
    \A t \in Tap : /\ tap[t].at \in {"locked", "clear"} => lock = t
                   /\ tap[t].at = "clear" => Room(tap[t].family)

Going(t) == tap[t].at \in {"posting", "sent", "failed"}

\* A tap's row is its own.
OwnRow ==
    /\ \A t \in Tap : Going(t) =>
           /\ tap[t].row \in RowId
           /\ rows[tap[t].row].status = "sending"
           /\ rows[tap[t].row].family = tap[t].family
    /\ \A t, u \in Tap : Going(t) /\ Going(u) /\ t # u => tap[t].row # tap[u].row

\* What arrived is on a row that counts, and nothing has while the row is in hand.
OnARow ==
    /\ \A p \in Numbers \ unheard :
           /\ arrived[p] <= 1
           /\ arrived[p] # 0 => SentTo(p) # {}
    /\ \A t \in Tap : tap[t].at \in {"posting", "failed"} =>
           NumberOf[tap[t].family] \in unheard \/ arrived[NumberOf[tap[t].family]] = 0

ShareInv == ShareTypeOK /\ Limits /\ UnderLock /\ OwnRow /\ OnARow

-----------------------------------------------------------------------------
\* Sets of rows are finite.
LEMMA RowsFinite == ASSUME NEW S, S \subseteq RowId PROVE IsFiniteSet(S) /\ Cardinality(S) \in Nat
<1>1. IsFiniteSet(RowId)
  BY ShareAssumption, FS_Interval DEF RowId
<1> QED
  BY <1>1, FS_Subset, FS_CardinalityType

\* A tap that is at work is one by its type, and its number is one of the families'.
LEMMA TapAtWork ==
    ASSUME ShareTypeOK, NEW t \in Tap, tap[t].at # "idle"
    PROVE  /\ tap[t] \in TapState /\ tap[t].family \in Behdin
           /\ NumberOf[tap[t].family] \in Numbers
  BY DEF ShareTypeOK, NoTap, TapState, Numbers

\* Rows that stop counting leave the limits as they are.
LEMMA FewerCount ==
    ASSUME Limits, rows' \in [RowId -> ShareRow],
           \A i \in RowId : /\ rows'[i].family = rows[i].family
                            /\ rows'[i].status \in {"sending", "sent"} => rows[i].status \in {"sending", "sent"}
    PROVE  /\ Limits'
           /\ \A p : SentTo(p)' \subseteq SentTo(p)
           /\ \A f \in Behdin : Room(f) => Room(f)'
<1>1. SentToday' \subseteq SentToday /\ SentToday \subseteq RowId
  BY DEF SentToday
<1>2. \A p : SentTo(p)' \subseteq SentTo(p)
  BY <1>1 DEF SentTo, SentToday
<1>3. \A m : SentBy(m)' \subseteq SentBy(m) /\ SentBy(m) \subseteq RowId
  BY <1>1 DEF SentBy, SentToday
<1>4. /\ Cardinality(SentToday)' <= Cardinality(SentToday)
      /\ Cardinality(SentToday)' \in Nat /\ Cardinality(SentToday) \in Nat
  BY <1>1, RowsFinite, FS_Subset
<1>5. \A m : /\ Cardinality(SentBy(m))' <= Cardinality(SentBy(m))
             /\ Cardinality(SentBy(m))' \in Nat /\ Cardinality(SentBy(m)) \in Nat
  BY <1>3, RowsFinite, FS_Subset
<1>6. Limits'
  BY <1>2, <1>4, <1>5, ShareAssumption DEF Limits
<1>7. \A f \in Behdin : Room(f) => Room(f)'
  BY <1>2, <1>4, <1>5, ShareAssumption DEF Room
<1> QED
  BY <1>2, <1>6, <1>7

\* One more row that counts, of a family for which there was room.
LEMMA OneMoreCounts ==
    ASSUME Limits, ShareTypeOK, NEW f \in Behdin, Room(f), NEW i \in RowId, rows[i].status = "none",
           rows' = [rows EXCEPT ![i] = [status |-> "sending", family |-> f]]
    PROVE  Limits' /\ \A p : SentTo(p) \subseteq SentTo(p)'
<1>1. \A j \in RowId : rows'[j] = IF j = i THEN [status |-> "sending", family |-> f] ELSE rows[j]
  BY DEF ShareTypeOK
<1>2. SentToday' = SentToday \cup {i} /\ SentToday \subseteq RowId /\ i \notin SentToday
  BY <1>1 DEF SentToday
<1>3. /\ \A p : p # NumberOf[f] => SentTo(p)' = SentTo(p)
      /\ SentTo(NumberOf[f])' = SentTo(NumberOf[f]) \cup {i}
  BY <1>1, <1>2 DEF SentTo, SentToday
<1>4. /\ \A m : m # MobedOf[f] => SentBy(m)' = SentBy(m)
      /\ SentBy(MobedOf[f])' = SentBy(MobedOf[f]) \cup {i} /\ SentBy(MobedOf[f]) \subseteq RowId
  BY <1>1, <1>2 DEF SentBy, SentToday
<1>5. Cardinality(SentToday)' <= GlobalCap
  BY <1>2, RowsFinite, FS_AddElement, ShareAssumption DEF Room
<1>6. Cardinality(SentBy(MobedOf[f]))' <= ShareCap
  BY <1>4, RowsFinite, FS_AddElement, ShareAssumption DEF Room
<1>7. \A p \in Numbers : \A j, k \in SentTo(p)' : j = k
  BY <1>3 DEF Limits, Room
<1>8. \A g \in Behdin : Cardinality(SentBy(MobedOf[g]))' <= ShareCap
  BY <1>4, <1>6 DEF Limits
<1> QED
  BY <1>3, <1>5, <1>7, <1>8 DEF Limits

\* A step that leaves rows and messages alone, and brings no tap to its post.
LEMMA QuietStep ==
    ASSUME ShareInv, ShareTypeOK', UnderLock', UNCHANGED <<rows, arrived, unheard>>,
           \A u \in Tap : tap'[u].at \in {"posting", "sent", "failed"} => tap'[u] = tap[u]
    PROVE  ShareInv'
<1>1. Limits'
  BY DEF ShareInv, Limits, SentTo, SentBy, SentToday
<1>2. \A p : SentTo(p)' = SentTo(p)
  BY DEF SentTo, SentToday
<1>3. OwnRow'
  BY DEF ShareInv, OwnRow, Going
<1>4. OnARow'
  BY <1>2 DEF ShareInv, OnARow
<1> QED
  BY <1>1, <1>3, <1>4 DEF ShareInv

\* Before the first schedule of the day.
LEMMA ShareStart == ShareInit => ShareInv
<1> SUFFICES ASSUME ShareInit PROVE ShareInv
  OBVIOUS
<1>1. SentToday = {} /\ \A p : SentTo(p) = {} /\ SentBy(p) = {}
  BY DEF ShareInit, SentToday, SentTo, SentBy
<1>2. ShareTypeOK
  BY DEF ShareInit, ShareTypeOK, ShareRow
<1>3. Limits
  BY <1>1, FS_EmptySet, ShareAssumption DEF Limits
<1>4. UnderLock /\ OwnRow /\ OnARow
  BY DEF ShareInit, UnderLock, OwnRow, OnARow, Going, NoTap
<1> QED
  BY <1>2, <1>3, <1>4 DEF ShareInv

\* The first check, the wait for the lock, and a death change no row.
LEMMA FirstSteps ==
    ASSUME ShareInv, NEW t \in Tap,
           (\E f \in Behdin : Share(t, f)) \/ TakeLock(t) \/ TapDies(t)
    PROVE  ShareInv'
<1>1. CASE \E f \in Behdin : Share(t, f)
  <2>1. PICK f \in Behdin : Share(t, f)
    BY <1>1
  <2> DEFINE new == [at |-> "draw", family |-> f, agreed |-> f \in agrees, stopped |-> f \in said, row |-> 0]
  <2>2. tap' = tap \/ tap' = [tap EXCEPT ![t] = new]
    BY <2>1 DEF Share
  <2>3. UNCHANGED <<rows, lock, arrived, unheard>>
    BY <2>1 DEF Share
  <2>4. new \in TapState /\ new.at = "draw"
    BY ShareAssumption DEF TapState
  <2> HIDE DEF new
  <2>5. ShareTypeOK'
    BY <2>2, <2>3, <2>4 DEF ShareInv, ShareTypeOK
  <2>6. \A u \in Tap : tap'[u] = tap[u] \/ tap'[u].at = "draw"
    BY <2>2, <2>4 DEF ShareInv, ShareTypeOK
  <2>7. UnderLock'
    BY <2>3, <2>6 DEF ShareInv, UnderLock, Room, SentTo, SentBy, SentToday
  <2> QED
    BY <2>3, <2>5, <2>6, <2>7, QuietStep
<1>2. CASE TakeLock(t)
  <2>1. tap[t] \in TapState
    BY <1>2, TapAtWork DEF TakeLock, ShareInv
  <2>2. [tap[t] EXCEPT !.at = "locked"] \in TapState
    BY <2>1 DEF TapState
  <2>3. /\ tap' = [tap EXCEPT ![t] = [tap[t] EXCEPT !.at = "locked"]]
        /\ lock = Nobody /\ lock' = t
        /\ UNCHANGED <<rows, arrived, unheard>>
    BY <1>2 DEF TakeLock, LockFree
  <2>4. ShareTypeOK'
    BY <2>2, <2>3 DEF ShareInv, ShareTypeOK
  <2>5. \A u \in Tap : IF u = t THEN tap'[u].at = "locked" ELSE tap'[u] = tap[u]
    BY <2>1, <2>3 DEF ShareInv, ShareTypeOK, TapState
  <2>6. UnderLock'
    BY <2>3, <2>5, ShareAssumption DEF ShareInv, UnderLock
  <2> QED
    BY <2>3, <2>4, <2>5, <2>6, QuietStep
<1>3. CASE TapDies(t)
  <2>1. /\ tap' = [tap EXCEPT ![t] = NoTap] /\ lock' = Freed(t)
        /\ UNCHANGED <<rows, arrived, unheard>>
    BY <1>3 DEF TapDies
  <2>2. ShareTypeOK'
    BY <2>1 DEF ShareInv, ShareTypeOK, Freed
  <2>3. \A u \in Tap : IF u = t THEN tap'[u].at = "idle" ELSE tap'[u] = tap[u]
    BY <2>1 DEF ShareInv, ShareTypeOK, NoTap
  <2>4. \A f : Room(f)' <=> Room(f)
    BY <2>1 DEF Room, SentTo, SentBy, SentToday
  <2>5. \A u \in Tap : tap'[u].at \in {"locked", "clear"} => u # t /\ tap'[u] = tap[u]
    BY <2>3
  <2>6. \A u \in Tap : u # t /\ lock = u => lock' = u
    BY <2>1 DEF Freed
  <2>7. UnderLock'
    BY <2>4, <2>5, <2>6 DEF ShareInv, UnderLock
  <2> QED
    BY <2>1, <2>2, <2>3, <2>7, QuietStep
<1> QED
  BY <1>1, <1>2, <1>3

\* The second check finds room, or gives the lock back.
LEMMA CheckKeeps == ASSUME ShareInv, NEW t \in Tap, CheckAgain(t) PROVE ShareInv'
<1> DEFINE blocked == ShareBlocked(tap[t].family, tap[t].agreed, tap[t].stopped)
<1>1. /\ tap[t].at = "locked" /\ lock = t /\ tap[t] \in TapState /\ tap[t].family \in Behdin
  BY TapAtWork DEF CheckAgain, ShareInv, UnderLock
<1>2. /\ tap' = IF blocked THEN [tap EXCEPT ![t] = NoTap] ELSE [tap EXCEPT ![t] = [tap[t] EXCEPT !.at = "clear"]]
      /\ lock' = IF blocked THEN Nobody ELSE lock
      /\ UNCHANGED <<rows, arrived, unheard>>
  BY <1>1 DEF CheckAgain, Freed
<1>3. ~blocked => Room(tap[t].family)
  <2>1. /\ Cardinality(SentToday) \in Nat
        /\ Cardinality(SentBy(MobedOf[tap[t].family])) \in Nat
    BY RowsFinite DEF SentToday, SentBy
  <2> QED
    BY <2>1, ShareAssumption DEF ShareBlocked, ShareRefused, AtGlobalCap, Room
<1>4. [tap[t] EXCEPT !.at = "clear"] \in TapState
  BY <1>1 DEF TapState
<1> HIDE DEF blocked
<1>5. ShareTypeOK'
  BY <1>2, <1>4 DEF ShareInv, ShareTypeOK
<1>6. \A u \in Tap \ {t} : tap'[u] = tap[u] /\ tap[u].at \notin {"locked", "clear"}
  BY <1>1, <1>2 DEF ShareInv, ShareTypeOK, UnderLock
<1>7. IF blocked THEN tap'[t].at = "idle"
                 ELSE tap'[t].at = "clear" /\ tap'[t].family = tap[t].family
  BY <1>1, <1>2 DEF ShareInv, ShareTypeOK, NoTap, TapState
<1>8. \A f : Room(f)' <=> Room(f)
  BY <1>2 DEF Room, SentTo, SentBy, SentToday
<1>9. UnderLock'
  BY <1>1, <1>2, <1>3, <1>6, <1>7, <1>8 DEF UnderLock
<1> QED
  BY <1>2, <1>5, <1>6, <1>7, <1>9, QuietStep
\* The row is committed while nobody else can add one.
LEMMA RecordKeeps == ASSUME ShareInv, NEW t \in Tap, RecordSending(t) PROVE ShareInv'
<1> DEFINE f == tap[t].family
<1>1. /\ tap[t].at = "clear" /\ lock = t /\ Room(f)
      /\ tap[t] \in TapState /\ f \in Behdin /\ NumberOf[f] \in Numbers
  BY TapAtWork DEF RecordSending, ShareInv, UnderLock
<1>2. PICK i \in RowId :
         /\ rows[i].status = "none"
         /\ rows' = [rows EXCEPT ![i] = [status |-> "sending", family |-> f]]
         /\ tap' = [tap EXCEPT ![t] = [tap[t] EXCEPT !.at = "posting", !.row = i]]
  BY DEF RecordSending
<1> DEFINE new == [tap[t] EXCEPT !.at = "posting", !.row = i]
<1>3. UNCHANGED <<arrived, unheard>> /\ lock' = Nobody
  BY <1>1 DEF RecordSending, Freed
<1>4. new \in TapState /\ new.at = "posting" /\ new.row = i /\ new.family = f
  <2>1. i \in 0 .. MaxRows
    BY ShareAssumption DEF RowId
  <2> DEFINE posting == [tap[t] EXCEPT !.at = "posting"]
  <2>2. posting \in TapState /\ posting.at = "posting" /\ posting.family = f
    BY <1>1 DEF TapState
  <2>3. \A one \in TapState : /\ [one EXCEPT !.row = i] \in TapState
                              /\ [one EXCEPT !.row = i].at = one.at
                              /\ [one EXCEPT !.row = i].row = i
                              /\ [one EXCEPT !.row = i].family = one.family
    BY <2>1 DEF TapState
  <2> QED
    BY <2>2, <2>3
<1>5. /\ tap'[t] = new
      /\ \A u \in Tap : u # t => tap'[u] = tap[u] /\ tap[u].at \notin {"locked", "clear"}
  BY <1>1, <1>2 DEF ShareInv, ShareTypeOK, UnderLock
<1> HIDE DEF new, f
<1>6. \A j \in RowId : rows'[j] = IF j = i THEN [status |-> "sending", family |-> f] ELSE rows[j]
  BY <1>2 DEF ShareInv, ShareTypeOK
<1>7. ShareTypeOK'
  <2>1. [status |-> "sending", family |-> f] \in ShareRow
    BY <1>1 DEF ShareRow
  <2> QED
    BY <1>2, <1>3, <1>4, <2>1 DEF ShareInv, ShareTypeOK, new
<1>8. Limits' /\ \A p : SentTo(p) \subseteq SentTo(p)'
  BY <1>1, <1>2, OneMoreCounts DEF ShareInv
<1>9. UnderLock'
  BY <1>4, <1>5 DEF UnderLock
<1>10. OwnRow'
  <2>1. \A u \in Tap : u # t /\ Going(u) => tap[u].row \in RowId /\ tap[u].row # i
    BY <1>2 DEF ShareInv, OwnRow
  <2> QED
    BY <1>4, <1>5, <1>6, <2>1 DEF ShareInv, OwnRow, Going
<1>11. OnARow'
  <2>1. NumberOf[f] \in unheard \/ arrived[NumberOf[f]] = 0
    BY <1>1 DEF ShareInv, OnARow, Room
  <2>2. \A p \in Numbers \ unheard' : arrived'[p] <= 1 /\ (arrived'[p] # 0 => SentTo(p)' # {})
    BY <1>3, <1>8 DEF ShareInv, OnARow
  <2>3. \A u \in Tap : tap'[u].at \in {"posting", "failed"} =>
           NumberOf[tap'[u].family] \in unheard' \/ arrived'[NumberOf[tap'[u].family]] = 0
    BY <1>3, <1>4, <1>5, <2>1 DEF ShareInv, OnARow
  <2> QED
    BY <2>2, <2>3 DEF OnARow
<1> QED
  BY <1>7, <1>8, <1>9, <1>10, <1>11 DEF ShareInv

\* Two taps are never at the post with schedules for one number.
LEMMA OneAtThePost ==
    ASSUME ShareInv, NEW t \in Tap, Going(t)
    PROVE  /\ tap[t].row \in SentTo(NumberOf[tap[t].family])
           /\ \A u \in Tap : u # t /\ Going(u) => NumberOf[tap[u].family] # NumberOf[tap[t].family]
<1>1. \A u \in Tap : Going(u) => tap[u].row \in SentTo(NumberOf[tap[u].family])
  BY DEF ShareInv, OwnRow, SentTo, SentToday
<1>2. NumberOf[tap[t].family] \in Numbers
  BY TapAtWork DEF ShareInv, Going
<1> QED
  BY <1>1, <1>2 DEF ShareInv, OwnRow, Limits

\* What is posted arrives on the tap's own row, or not at all, or unheard of.
LEMMA PostingKeeps == ASSUME ShareInv, NEW t \in Tap, PostPdf(t) PROVE ShareInv'
<1>0. PICK p \in Numbers : p = NumberOf[tap[t].family]
  BY TapAtWork DEF PostPdf, ShareInv
<1>1. /\ tap[t].at = "posting" /\ Going(t) /\ tap[t] \in TapState
      /\ p \in unheard \/ arrived[p] = 0
  BY <1>0, TapAtWork DEF PostPdf, Going, ShareInv, OnARow
<1>2. PICK accepted \in BOOLEAN, answered \in BOOLEAN :
         /\ arrived' = IF accepted THEN [arrived EXCEPT ![p] = @ + 1] ELSE arrived
         /\ unheard' = IF answered THEN unheard ELSE unheard \cup {p}
         /\ tap' = [tap EXCEPT ![t] = [tap[t] EXCEPT !.at = Outcome(accepted, answered)]]
  BY <1>0 DEF PostPdf
<1> DEFINE end == Outcome(accepted, answered)
           new == [tap[t] EXCEPT !.at = end]
<1>3. UNCHANGED <<rows, lock>>
  BY DEF PostPdf
<1>4. /\ end \in {"sent", "failed"}
      /\ end = "failed" => ~accepted \/ ~answered
  BY DEF Outcome
<1> HIDE DEF end
<1>5. new \in TapState /\ new.at = end /\ new.row = tap[t].row /\ new.family = tap[t].family
  BY <1>1, <1>4 DEF TapState
<1>6. /\ tap'[t] = new /\ tap' \in [Tap -> {NoTap} \cup TapState]
      /\ \A u \in Tap : u # t => tap'[u] = tap[u]
  BY <1>2, <1>5 DEF ShareInv, ShareTypeOK, end
<1> HIDE DEF new
<1>7. /\ arrived' \in [Numbers -> Nat]
      /\ \A q \in Numbers : q # p => arrived'[q] = arrived[q]
      /\ arrived'[p] = IF accepted THEN arrived[p] + 1 ELSE arrived[p]
  BY <1>1, <1>2 DEF ShareInv, ShareTypeOK
<1>8. ShareTypeOK'
  BY <1>3, <1>6, <1>7 DEF ShareInv, ShareTypeOK
<1>9. /\ Limits'
      /\ \A q : SentTo(q)' = SentTo(q)
      /\ \A f : Room(f)' <=> Room(f)
  BY <1>3 DEF ShareInv, Limits, Room, SentTo, SentBy, SentToday
<1>10. UnderLock'
  BY <1>3, <1>4, <1>5, <1>6, <1>9 DEF ShareInv, UnderLock
<1>11. OwnRow'
  BY <1>1, <1>3, <1>4, <1>5, <1>6 DEF ShareInv, OwnRow, Going
<1>12. OnARow'
  <2>1. tap[t].row \in SentTo(p)
    BY <1>0, <1>1, OneAtThePost
  <2>2. \A q \in Numbers \ unheard' : arrived'[q] <= 1 /\ (arrived'[q] # 0 => SentTo(q)' # {})
    <3>1. \A q \in Numbers \ unheard' : q \notin unheard
      BY <1>2
    <3>2. \A q \in Numbers \ unheard' : q # p => arrived'[q] <= 1 /\ (arrived'[q] # 0 => SentTo(q)' # {})
      BY <1>7, <1>9, <3>1 DEF ShareInv, OnARow
    <3>3. p \notin unheard' => arrived'[p] <= 1
      BY <1>1, <1>2, <1>7
    <3>4. SentTo(p)' # {}
      BY <1>9, <2>1
    <3> QED
      BY <3>2, <3>3, <3>4
  <2>3. \A u \in Tap : tap'[u].at \in {"posting", "failed"} =>
           NumberOf[tap'[u].family] \in unheard' \/ arrived'[NumberOf[tap'[u].family]] = 0
    <3>1. unheard \subseteq unheard'
      BY <1>2
    <3>2. ASSUME NEW u \in Tap, u # t, tap[u].at \in {"posting", "failed"}
          PROVE  NumberOf[tap[u].family] \in unheard' \/ arrived'[NumberOf[tap[u].family]] = 0
      <4>1. NumberOf[tap[u].family] \in Numbers /\ NumberOf[tap[u].family] # p
        BY <1>0, <1>1, <3>2, OneAtThePost, TapAtWork DEF ShareInv, Going
      <4> QED
        BY <1>7, <3>1, <3>2, <4>1 DEF ShareInv, OnARow
    <3>3. end = "failed" => p \in unheard' \/ arrived'[p] = 0
      BY <1>1, <1>2, <1>4, <1>7
    <3> QED
      BY <1>0, <1>4, <1>5, <1>6, <3>2, <3>3
  <2> QED
    BY <2>2, <2>3 DEF OnARow
<1> QED
  BY <1>8, <1>9, <1>10, <1>11, <1>12 DEF ShareInv

\* The outcome is written on the tap's own row; only a failure counts no more.
LEMMA OutcomeKeeps == ASSUME ShareInv, NEW t \in Tap, RecordOutcome(t) PROVE ShareInv'
<1> DEFINE i == tap[t].row
           end == tap[t].at
<1>0. PICK p \in Numbers : p = NumberOf[tap[t].family]
  BY TapAtWork DEF RecordOutcome, ShareInv
<1>1. /\ end \in {"sent", "failed"} /\ Going(t) /\ tap[t] \in TapState /\ i \in RowId
      /\ rows[i].status = "sending" /\ i \in SentTo(p)
  BY <1>0, TapAtWork, OneAtThePost DEF RecordOutcome, Going, ShareInv, OwnRow
<1>2. /\ rows' = [rows EXCEPT ![i] = [rows[i] EXCEPT !.status = end]]
      /\ tap' = [tap EXCEPT ![t] = NoTap]
      /\ UNCHANGED <<lock, arrived, unheard>>
  BY DEF RecordOutcome
<1>3. /\ rows' \in [RowId -> ShareRow]
      /\ rows'[i].status = end /\ rows'[i].family = rows[i].family
      /\ \A j \in RowId : j # i => rows'[j] = rows[j]
  BY <1>1, <1>2 DEF ShareInv, ShareTypeOK, ShareRow
<1>4. /\ tap'[t] = NoTap /\ tap' \in [Tap -> {NoTap} \cup TapState]
      /\ \A u \in Tap : u # t => tap'[u] = tap[u]
  BY <1>2 DEF ShareInv, ShareTypeOK
<1>5. ShareTypeOK'
  BY <1>2, <1>3, <1>4 DEF ShareInv, ShareTypeOK
<1>6. /\ Limits'
      /\ \A f \in Behdin : Room(f) => Room(f)'
  BY <1>1, <1>3, FewerCount DEF ShareInv
<1>7. UnderLock'
  <2>1. \A u \in Tap : tap'[u].at \in {"locked", "clear"} => u # t /\ tap'[u] = tap[u] /\ tap[u].family \in Behdin
    BY <1>4, TapAtWork DEF NoTap, ShareInv
  <2> QED
    BY <1>2, <1>6, <2>1 DEF ShareInv, UnderLock
<1>8. OwnRow'
  <2>1. \A u \in Tap : (u # t /\ Going(u)) => tap[u].row # i
    BY <1>1 DEF ShareInv, OwnRow
  <2>2. tap'[t].at = "idle"
    BY <1>4 DEF NoTap
  <2> QED
    BY <1>3, <1>4, <2>1, <2>2 DEF ShareInv, OwnRow, Going
<1>9. OnARow'
  <2>1. \A q \in Numbers : q # p => SentTo(q) \subseteq SentTo(q)'
    BY <1>1, <1>3 DEF SentTo, SentToday
  <2>2. end = "sent" => i \in SentTo(p)'
    BY <1>1, <1>3 DEF SentTo, SentToday
  <2>3. end = "failed" => p \in unheard \/ arrived[p] = 0
    BY <1>0 DEF ShareInv, OnARow
  <2>4. \A q \in Numbers \ unheard : arrived[q] <= 1 /\ (arrived[q] # 0 => SentTo(q)' # {})
    BY <1>1, <2>1, <2>2, <2>3 DEF ShareInv, OnARow
  <2>5. \A u \in Tap : tap'[u].at \in {"posting", "failed"} => tap'[u] = tap[u]
    BY <1>4 DEF NoTap
  <2> QED
    BY <1>2, <2>4, <2>5 DEF ShareInv, OnARow
<1> QED
  BY <1>5, <1>6, <1>7, <1>8, <1>9 DEF ShareInv

\* Every step of a tap, and every turn of the families and admins.
LEMMA ShareStepKeeps == ShareInv /\ [ShareNext]_shareVars => ShareInv'
<1> SUFFICES ASSUME ShareInv, [ShareNext]_shareVars PROVE ShareInv'
  OBVIOUS
<1>1. ASSUME NEW t \in Tap, ShareStep(t) PROVE ShareInv'
  BY <1>1, FirstSteps, CheckKeeps, RecordKeeps, PostingKeeps, OutcomeKeeps DEF ShareStep
<1>2. ASSUME UNCHANGED <<rows, lock, tap, arrived, unheard>> PROVE ShareInv'
  <2>1. ShareTypeOK' /\ UnderLock'
    BY <1>2 DEF ShareInv, ShareTypeOK, UnderLock, Room, SentTo, SentBy, SentToday
  <2> QED
    BY <1>2, <2>1, QuietStep
<1>3. (\/ \E p \in Numbers : StopFrom(p)
       \/ \E f \in Behdin : AgreeAgain(f)
       \/ FlipSwitch
       \/ UNCHANGED shareVars) => UNCHANGED <<rows, lock, tap, arrived, unheard>>
  BY DEF StopFrom, AgreeAgain, FlipSwitch, Turn, shareVars
<1> QED
  BY <1>1, <1>2, <1>3, FirstSteps DEF ShareNext

\* For any families, mobeds and limits, however many taps overlap and die, what counts
\* as sent in a day stays within the limit of a number, of each mobed and of all.
THEOREM SharesStayWithinCaps == ShareSpec => []WithinShareCaps
<1>1. ShareInv => WithinShareCaps
  <2> SUFFICES ASSUME ShareInv PROVE WithinShareCaps
    OBVIOUS
  <2>1. \A p \in Numbers : Cardinality(SentTo(p)) <= 1
    <3> SUFFICES ASSUME NEW p \in Numbers PROVE Cardinality(SentTo(p)) <= 1
      OBVIOUS
    <3>1. CASE SentTo(p) = {}
      BY <3>1, FS_EmptySet
    <3>2. CASE SentTo(p) # {}
      <4>1. PICK i : SentTo(p) = {i}
        BY <3>2 DEF ShareInv, Limits
      <4> QED
        BY <4>1, FS_Singleton
    <3> QED
      BY <3>1, <3>2
  <2> QED
    BY <2>1 DEF ShareInv, Limits, WithinShareCaps
<1> QED
  BY <1>1, ShareStart, ShareStepKeeps, PTL DEF ShareSpec

\* A family's number gets a second schedule in a day only if the answer to one was
\* lost, and a schedule that arrived has a row that counts.
THEOREM OneADayAlways == ShareSpec => []OneADayUnlessLost
<1>1. ShareInv => OneADayUnlessLost
  BY DEF ShareInv, OnARow, OneADayUnlessLost
<1> QED
  BY <1>1, ShareStart, ShareStepKeeps, PTL DEF ShareSpec
=============================================================================
