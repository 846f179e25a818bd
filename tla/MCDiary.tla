------------------------------- MODULE MCDiary -------------------------------
(***************************************************************************)
(* A mobed's desk, for TLC: the ceremonies of the diary, and the memorials *)
(* once they are saved.  No row is shared, so each behaviour is of one     *)
(* part: the diary; a saved memorial of two dates in two requests' hands;  *)
(* the evenings on which two memorials close, or are deleted first; taps   *)
(* to send the schedules of three families of two mobeds, two of them with *)
(* one number.                                                             *)
(***************************************************************************)
EXTENDS Diary, MemorialCare, MemorialShare, TLC

CONSTANTS f1, f2, f3, d1, d2, d3, n1, n2, m1, p1
VARIABLE part

TwoAndOne == (f1 :> {d1, d2}) @@ (f2 :> {d3})
CloseInTurn == (d1 :> 1) @@ (d2 :> 2) @@ (d3 :> 1)
TwoMobeds == (f1 :> m1) @@ (f2 :> p1) @@ (f3 :> p1)
TwoNumbers == (f1 :> n1) @@ (f2 :> n1) @@ (f3 :> n2)
Interchangeable ==
    Permutations(Call) \cup Permutations(Worker) \cup Permutations(Prayer) \cup Permutations(Tap)

DeskInit ==
    /\ part \in {"diary", "hands", "evening", "share"}
    /\ DiaryInit /\ CareInit /\ ShareInit
    /\ part # "diary" => kind = "machi"

InTheDiary == part = "diary" /\ DiaryNext /\ UNCHANGED <<part, careVars, shareVars>>
InHands ==
    /\ part = "hands" /\ (HandsNext \/ \E m \in Memorial : m # f2 /\ Create(m))
    /\ UNCHANGED <<part, dVars, shareVars>>
\* Of what was loaded, only a deletion matters to the evening.
InTheEvening ==
    /\ part = "evening" /\ CareNext
    /\ asks' < MaxAsks /\ \A r \in Request : req'[r] # AtRest => req'[r].ask.delete
    /\ UNCHANGED <<part, dVars, shareVars>>
Sharing == part = "share" /\ ShareNext /\ UNCHANGED <<part, dVars, careVars>>

DeskNext == InTheDiary \/ InHands \/ InTheEvening \/ Sharing
DeskSpec == DeskInit /\ [][DeskNext]_<<part, dVars, careVars, shareVars>>
=============================================================================
